-------------------------- MODULE HandshakeProofs ---------------------------
(* Theorems about the handshake of Handshake, for any messages and any way *)
(* they are cut, any users and any changes to them meanwhile.              *)
EXTENDS Handshake, StartupProofs

-----------------------------------------------------------------------------
(* Parsers in general.  E are the states in which a parser has ended, and  *)
(* I[i] those it may be in behind i bytes.                                 *)

Last(n, ended) ==
  IF ended = {} THEN n ELSE CHOOSE i \in ended : \A j \in ended : i <= j

\* The states t the parser goes through, from a by the steps g; D is where it
\* has ended.
Parses(n, X, E, I, a, g, t, D) ==
  /\ n \in Nat /\ Iterates(t, n, X, a, g) /\ a \in I[0] /\ a \notin E
  /\ \A i \in 1 .. n : \A p \in I[i - 1] : p \in X /\ p \notin E => g[i][p] \in I[i]
  /\ \A i : i \in D <=> i \in 1 .. n /\ t[i] \in E

(* A parser that ends nowhere before Last has kept to what I says.         *)
LEMMA ConsumedBy ==
  ASSUME NEW n, NEW X, NEW E, NEW I, NEW a, NEW g, NEW t, NEW D, NEW k,
         Parses(n, X, E, I, a, g, t, D), k = Last(n, D)
  PROVE  k \in 0 .. n /\ t[k] \in I[k] /\ t[k] \in X /\ (k = n \/ t[k] \in E)
<1> USE DEF Parses
<1>1. k \in 0 .. n /\ (k = n \/ k \in D) /\ \A i \in 1 .. k - 1 : i \notin D
  <2>1. CASE D = {}
    BY <2>1 DEF Last
  <2>2. CASE D # {}
    <3>1. D \in SUBSET Nat
      OBVIOUS
    <3>2. \E i \in D : \A j \in D : i <= j
      BY <2>2, <3>1, LeastExists
    <3>3. k \in D /\ \A j \in D : k <= j
      BY <2>2, <3>2 DEF Last
    <3>4. k \in 1 .. n
      BY <3>3
    <3> QED
      BY <3>3, <3>4
  <2> QED
    BY <2>1, <2>2
<1> DEFINE P == {i \in 0 .. k : t[i] \in I[i]}
<1>2. 0 \in P
  BY <1>1 DEF Iterates
<1>3. ASSUME NEW i \in 0 .. k - 1, i \in P PROVE i + 1 \in P
  <2>1. i \in 0 .. n /\ i + 1 \in 1 .. n /\ i + 1 \in 0 .. k /\ (i + 1) - 1 = i
        /\ (i = 0 \/ i \in 1 .. k - 1)
    BY <1>1
  <2>2. t[i] \in X /\ t[i] \notin E
    BY <1>1, <2>1 DEF Iterates
  <2>3. t[i + 1] = g[i + 1][t[i]]
    BY <2>1 DEF Iterates
  <2> QED
    BY <1>3, <2>1, <2>2, <2>3
<1>4. k \in Nat /\ k \in 0 .. k
  BY <1>1
<1> HIDE DEF P
<1>5. \A i \in 0 .. k : i \in P
  BY <1>2, <1>3, <1>4, Induction
<1>6. t[k] \in I[k]
  BY <1>4, <1>5 DEF P
<1>7. t[k] \in X /\ (k = n \/ t[k] \in E)
  BY <1>1 DEF Iterates
<1> QED
  BY <1>1, <1>6, <1>7

-----------------------------------------------------------------------------
(* The greeting.  HelloIs: p is what the j bytes of q behind the first o   *)
(* make of a fresh parser, unless it has ended before the last of them.    *)

Ending == {"DONE", "ERROR"}

HelloParser ==
  [state : {"VERSION", "NMETHODS", "METHODS", "DONE", "ERROR"}, remaining : Int,
   has_noauth : BOOLEAN, has_userpass : BOOLEAN]

HelloIs(p, q, o, j) ==
  \/ j = 0 /\ p = hello_parser_init
  \/ j = 1 /\ q[o + 1] # 5 /\ p.state = "ERROR"
  \/ /\ j = 1 /\ q[o + 1] = 5 /\ p.state = "NMETHODS"
     /\ p.has_noauth = FALSE /\ p.has_userpass = FALSE
  \/ /\ j > 1 /\ q[o + 1] = 5 /\ p.remaining = q[o + 2] + 2 - j /\ p.remaining >= 0
     /\ p.state = IF p.remaining = 0 THEN "DONE" ELSE "METHODS"
     /\ (p.has_noauth = TRUE) <=> \E i \in 3 .. j : q[o + i] = NO_AUTH
     /\ (p.has_userpass = TRUE) <=> \E i \in 3 .. j : q[o + i] = USERPASS

LEMMA HelloFeedType ==
  ASSUME NEW p \in HelloParser, NEW b \in Nat
  PROVE  hello_parser_feed(p, b) \in HelloParser
<1>1. CASE p.state = "VERSION"
  BY <1>1 DEF hello_parser_feed, HelloParser
<1>2. CASE p.state = "NMETHODS"
  <2>1. hello_parser_feed(p, b) =
          [p EXCEPT !.remaining = b, !.state = IF b = 0 THEN "DONE" ELSE "METHODS"]
    BY <1>2 DEF hello_parser_feed
  <2>2. b \in Int
    OBVIOUS
  <2> QED
    BY <2>1, <2>2 DEF HelloParser
<1>3. CASE p.state = "METHODS"
  <2> DEFINE x == p.has_noauth \/ b = NO_AUTH
             y == p.has_userpass \/ b = USERPASS
             m == p.remaining - 1
  <2>1. x \in BOOLEAN /\ y \in BOOLEAN
    OBVIOUS
  <2>2. m \in Int
    BY DEF HelloParser
  <2>3. hello_parser_feed(p, b) =
          [p EXCEPT !.remaining = m, !.has_noauth = x, !.has_userpass = y,
                    !.state = IF p.remaining = 1 THEN "DONE" ELSE @]
    BY <1>3 DEF hello_parser_feed
  <2> HIDE DEF x, y, m
  <2> QED
    BY <2>1, <2>2, <2>3 DEF HelloParser
<1>4. CASE p.state \in Ending
  BY <1>4 DEF hello_parser_feed, HelloParser, Ending
<1> QED
  BY <1>1, <1>2, <1>3, <1>4 DEF HelloParser, Ending

(* The next byte is taken for what the format says it is.                  *)
LEMMA HelloStep ==
  ASSUME NEW p \in HelloParser, NEW q \in Seq(Nat), NEW o \in Nat, NEW j \in Nat,
         o + j < Len(q), HelloIs(p, q, o, j), p.state \notin Ending
  PROVE  HelloIs(hello_parser_feed(p, q[o + (j + 1)]), q, o, j + 1)
<1> DEFINE b == q[o + (j + 1)]
           r == hello_parser_feed(p, b)
<1>1. b \in Nat
  OBVIOUS
<1>2. CASE j = 0
  <2>1. r = [p EXCEPT !.state = IF b = 5 THEN "NMETHODS" ELSE "ERROR"]
        /\ p = hello_parser_init /\ b = q[o + 1]
    BY <1>2 DEF HelloIs, hello_parser_feed, hello_parser_init
  <2>2. r.state = (IF b = 5 THEN "NMETHODS" ELSE "ERROR")
        /\ r.has_noauth = FALSE /\ r.has_userpass = FALSE
    BY <2>1 DEF hello_parser_init
  <2> QED
    BY <1>2, <2>1, <2>2 DEF HelloIs
<1>3. CASE j = 1
  <2>1. /\ p.state = "NMETHODS" /\ q[o + 1] = 5 /\ b = q[o + 2]
        /\ p.has_noauth = FALSE /\ p.has_userpass = FALSE
    BY <1>3 DEF HelloIs, Ending
  <2>2. r = [p EXCEPT !.remaining = b, !.state = IF b = 0 THEN "DONE" ELSE "METHODS"]
    BY <2>1 DEF hello_parser_feed
  <2>3. /\ r.remaining = b /\ r.state = (IF b = 0 THEN "DONE" ELSE "METHODS")
        /\ r.has_noauth = FALSE /\ r.has_userpass = FALSE
    BY <2>1, <2>2 DEF HelloParser
  <2>4. 3 .. 2 = {} /\ b = b + 2 - 2 /\ b >= 0
    BY <1>1
  <2> QED
    BY <1>3, <2>1, <2>3, <2>4 DEF HelloIs
<1>4. CASE j > 1
  <2>0. /\ q[o + 1] = 5 /\ p.remaining = q[o + 2] + 2 - j /\ p.remaining >= 0
        /\ p.state = (IF p.remaining = 0 THEN "DONE" ELSE "METHODS")
        /\ (p.has_noauth = TRUE) <=> \E i \in 3 .. j : q[o + i] = NO_AUTH
        /\ (p.has_userpass = TRUE) <=> \E i \in 3 .. j : q[o + i] = USERPASS
    <3>1. ~(j = 0) /\ ~(j = 1)
      BY <1>4
    <3> QED
      BY <3>1 DEF HelloIs
  <2>1. p.state = "METHODS" /\ p.remaining > 0 /\ p.remaining \in Int
    <3>1. p.remaining \in Int /\ p.remaining # 0
      BY <2>0 DEF Ending, HelloParser
    <3> QED
      BY <2>0, <3>1
  <2>2. r = [p EXCEPT !.remaining = @ - 1, !.has_noauth = @ \/ b = NO_AUTH,
                      !.has_userpass = @ \/ b = USERPASS,
                      !.state = IF p.remaining = 1 THEN "DONE" ELSE @]
    BY <2>1 DEF hello_parser_feed
  <2>3. /\ r.remaining = p.remaining - 1
        /\ r.state = (IF p.remaining = 1 THEN "DONE" ELSE "METHODS")
        /\ r.has_noauth = (p.has_noauth \/ b = NO_AUTH)
        /\ r.has_userpass = (p.has_userpass \/ b = USERPASS)
    BY <2>1, <2>2 DEF HelloParser
  <2>4. p.has_noauth \in BOOLEAN /\ p.has_userpass \in BOOLEAN
    BY DEF HelloParser
  <2>5. \A x : (\E i \in 3 .. j + 1 : q[o + i] = x)
                 <=> (\E i \in 3 .. j : q[o + i] = x) \/ b = x
    <3>1. \A i : i \in 3 .. j + 1 <=> i \in 3 .. j \/ i = j + 1
      BY <1>4
    <3> QED
      BY <3>1
  <2>6. r.remaining = q[o + 2] + 2 - (j + 1) /\ r.remaining >= 0 /\ j + 1 > 1
    <3>1. o + 2 \in 1 .. Len(q)
      BY <1>4
    <3>2. q[o + 2] \in Nat
      BY <3>1
    <3> DEFINE x == p.remaining
               y == r.remaining
               z == q[o + 2]
    <3>3. x = z + 2 - j /\ x > 0 /\ x \in Int /\ y = x - 1 /\ z \in Nat
      BY <2>0, <2>1, <2>3, <3>2
    <3> HIDE DEF x, y, z, r
    <3>4. y = z + 2 - (j + 1) /\ y >= 0 /\ j + 1 > 1
      BY <1>4, <3>3
    <3> QED
      BY <3>4 DEF y, z
  <2>7. r.state = IF r.remaining = 0 THEN "DONE" ELSE "METHODS"
    BY <2>1, <2>3
  <2>8. /\ (r.has_noauth = TRUE) <=> \E i \in 3 .. j + 1 : q[o + i] = NO_AUTH
        /\ (r.has_userpass = TRUE) <=> \E i \in 3 .. j + 1 : q[o + i] = USERPASS
    BY <2>0, <2>3, <2>4, <2>5
  <2> QED
    BY <2>0, <2>6, <2>7, <2>8 DEF HelloIs
<1> QED
  BY <1>2, <1>3, <1>4

\* What parsing takes of the bytes in b: all, unless the parser ends before.
Takes(b, r, k) ==
  /\ r.buf = buffer_read_adv(b, k)
  /\ k = Len(b.bytes) \/ r.parser.state \in Ending

\* The byte a parser reads next is one place behind those it has read.
LEMMA NextPlace ==
  ASSUME NEW o \in Nat, NEW j \in Nat, NEW n \in Nat, NEW l \in Nat, o + j + n <= l,
         NEW i \in 1 .. n
  PROVE  /\ i - 1 \in 0 .. n /\ i \in 0 .. n
         /\ j + (i - 1) \in Nat /\ j + (i - 1) + 1 = j + i
         /\ o + (j + (i - 1)) < l /\ o + j + i = o + (j + i)
OBVIOUS

LEMMA HelloConsumed ==
  ASSUME NEW z \in Nat, NEW b \in BufferOf(Nat, z), NEW p \in HelloParser,
         NEW q \in Seq(Nat), NEW o \in Nat, NEW j \in Nat,
         o + j + Len(b.bytes) <= Len(q),
         \A i \in 1 .. Len(b.bytes) : b.bytes[i] = q[o + j + i],
         HelloIs(p, q, o, j), p.state \notin Ending
  PROVE  LET r == hello_parser_consume(p, b)
         IN  r.parser \in HelloParser /\ \E k \in 0 .. Len(b.bytes) :
               Takes(b, r, k) /\ HelloIs(r.parser, q, o, j + k)
<1> DEFINE r == hello_parser_consume(p, b)
           n == Len(b.bytes)
           s == b.bytes
           X == HelloParser
           g == [i \in 1 .. n |-> [x \in X |-> hello_parser_feed(x, s[i])]]
           I == [i \in 0 .. n |-> {x \in X : HelloIs(x, q, o, j + i)}]
           E == {x \in X : x.state \in Ending}
           fed[i \in 0 .. Len(b.bytes)] ==
             IF i = 0 THEN p ELSE hello_parser_feed(fed[i - 1], b.bytes[i])
<1>1. /\ n \in Nat /\ Len(q) \in Nat /\ o + j + n <= Len(q)
      /\ \A i \in 1 .. n : s[i] \in Nat /\ s[i] = q[o + j + i]
  <2>1. s \in Seq(Nat)
    BY BufferFields
  <2>2. Len(s) \in Nat /\ Len(q) \in Nat /\ \A i \in 1 .. Len(s) : s[i] \in Nat
    BY <2>1, LenProperties, ElementOfSeq
  <2> HIDE DEF I, E, g, X, fed, r
  <2> QED
    BY <2>2
<1>0. n \in Nat
  BY <1>1
<1>2. Steps(n, X, g)
  BY <1>1, HelloFeedType DEF Steps
<1>3. PICK t : Iterates(t, n, X, p, g)
  <2> HIDE DEF g, n, X
  <2>1. p \in X
    BY DEF X
  <2> QED
    BY <1>0, <1>2, <2>1, RecursionExists
<1>4. t = [i \in 0 .. n |-> IF i = 0 THEN p ELSE hello_parser_feed(t[i - 1], s[i])]
  <2>1. ASSUME NEW i \in 1 .. n PROVE t[i] = hello_parser_feed(t[i - 1], s[i])
    <3>1. t[i - 1] \in X
      <4> HIDE DEF n, X, g
      <4>1. i - 1 \in 0 .. n
        BY <1>0
      <4> QED
        BY <1>3, <4>1 DEF Iterates
    <3> QED
      BY <1>3, <3>1 DEF Iterates
  <2> HIDE DEF n, s, X
  <2> QED
    BY <1>1, <1>3, <2>1 DEF Iterates
<1>5. fed = [i \in 0 .. Len(b.bytes) |->
               IF i = 0 THEN p ELSE hello_parser_feed(fed[i - 1], b.bytes[i])]
  BY <1>4
<1> DEFINE ended == {i \in 1 .. n : fed[i].state \in {"DONE", "ERROR"}}
           k == Last(n, ended)
<1>6. r.parser = fed[k] /\ r.buf = buffer_read_adv(b, k)
  BY DEF hello_parser_consume, Consume, Last
<1> HIDE DEF fed, r
<1>7. Iterates(fed, n, X, p, g)
  <2>1. ASSUME NEW i \in 0 .. n PROVE fed[i] \in X
    <3> DEFINE P == {x \in 0 .. n : fed[x] \in X}
    <3>1. 0 \in P
      BY <1>1, <1>5
    <3>2. ASSUME NEW x \in 0 .. n - 1, x \in P PROVE x + 1 \in P
      <4>1. x + 1 \in 1 .. n /\ x + 1 \in 0 .. n /\ (x + 1) - 1 = x /\ x + 1 # 0
        BY <1>1
      <4>2. fed[x + 1] = hello_parser_feed(fed[x], s[x + 1])
        BY <1>5, <4>1
      <4> QED
        BY <1>1, <3>2, <4>1, <4>2, HelloFeedType
    <3> HIDE DEF P, n
    <3>3. \A x \in 0 .. n : x \in P
      BY <1>1, <3>1, <3>2, Induction
    <3> QED
      BY <3>3 DEF P
  <2>2. ASSUME NEW i \in 1 .. n PROVE fed[i] = g[i][fed[i - 1]]
    <3>1. i \in 0 .. n /\ i - 1 \in 0 .. n /\ i # 0
      BY <1>1
    <3>2. fed[i - 1] \in X
      BY <2>1, <3>1
    <3>3. fed[i] = hello_parser_feed(fed[i - 1], s[i])
      BY <1>5, <3>1
    <3> HIDE DEF X
    <3> QED
      BY <3>2, <3>3
  <2>3. fed[0] = p
    BY <1>1, <1>5
  <2>4. fed \in [0 .. n -> X]
    BY <1>5, <2>1
  <2> HIDE DEF n, X, g
  <2> QED
    BY <2>2, <2>3, <2>4 DEF Iterates
<1>8. p \in I[0] /\ p \notin E
  <2>1. 0 \in 0 .. n /\ j + 0 = j
    BY <1>1
  <2> QED
    BY <2>1
<1>9. ASSUME NEW i \in 1 .. n, NEW x \in I[i - 1], x \in X, x \notin E
      PROVE  g[i][x] \in I[i]
  <2>1. i - 1 \in 0 .. n /\ i \in 0 .. n /\ j + (i - 1) \in Nat /\ j + (i - 1) + 1 = j + i
        /\ o + (j + (i - 1)) < Len(q) /\ o + j + i = o + (j + i)
    <3>1. n \in Nat /\ Len(q) \in Nat /\ o + j + n <= Len(q)
      BY <1>1
    <3> HIDE DEF n, I, X, E, g
    <3> QED
      BY ONLY o \in Nat, j \in Nat, i \in 1 .. n, <3>1, NextPlace
  <2>2. HelloIs(x, q, o, j + (i - 1)) /\ x.state \notin Ending
    BY <2>1, <1>9
  <2>3. HelloIs(hello_parser_feed(x, q[o + (j + (i - 1) + 1)]), q, o, j + (i - 1) + 1)
    BY <2>1, <2>2, <1>9, HelloStep
  <2>4. HelloIs(hello_parser_feed(x, s[i]), q, o, j + i)
    BY <2>1, <2>3
  <2>5. hello_parser_feed(x, s[i]) \in X
    BY <1>1, <1>9, HelloFeedType
  <2> HIDE DEF X
  <2> QED
    BY <2>1, <2>4, <2>5, <1>9
<1>10. ended = {i \in 1 .. n : fed[i] \in E}
  <2>1. \A i \in 1 .. n : fed[i] \in X
    <3> HIDE DEF n, X, g
    <3> QED
      BY <1>1, <1>7 DEF Iterates
  <2> HIDE DEF X
  <2> QED
    BY <2>1 DEF Ending
<1>11. k \in 0 .. n /\ fed[k] \in I[k] /\ fed[k] \in X /\ (k = n \/ fed[k] \in E)
  <2>1. \A i : i \in ended <=> i \in 1 .. n /\ fed[i] \in E
    BY <1>10
  <2>3. k = Last(n, ended)
    OBVIOUS
  <2>2. \A i \in 1 .. n : \A x \in I[i - 1] : x \in X /\ x \notin E => g[i][x] \in I[i]
    BY <1>9
  <2> HIDE DEF X, I, E, g, n, k, ended
  <2>4. Parses(n, X, E, I, p, g, fed, ended)
    BY <1>0, <1>7, <1>8, <2>1, <2>2 DEF Parses
  <2> QED
    BY <2>3, <2>4, ConsumedBy
<1> HIDE DEF k, X
<1>12. HelloIs(fed[k], q, o, j + k) /\ fed[k] \in X /\ (k = n \/ fed[k].state \in Ending)
  BY <1>11
<1>13. Takes(b, r, k)
  BY <1>6, <1>12 DEF Takes
<1>14. k \in 0 .. Len(b.bytes) /\ HelloIs(r.parser, q, o, j + k) /\ r.parser \in HelloParser
  BY <1>6, <1>11, <1>12 DEF X
<1> QED
  BY <1>13, <1>14 DEF r

-----------------------------------------------------------------------------
(* The login, in the same way: the names and passwords are what stands     *)
(* behind their lengths.                                                   *)

(* A piece of a sequence grows by the element behind it.                   *)
LEMMA PieceGrows ==
  ASSUME NEW q \in Seq(Nat), NEW a \in Nat \ {0}, NEW m \in Nat, a <= m + 1, m < Len(q)
  PROVE  /\ SubSeq(q, a, m) \in Seq(Nat) /\ Len(SubSeq(q, a, m)) = m + 1 - a
         /\ Append(SubSeq(q, a, m), q[m + 1]) = SubSeq(q, a, m + 1)
<1> DEFINE x == SubSeq(q, a, m)
           y == SubSeq(q, a, m + 1)
<1>1. Len(q) \in Nat /\ \A i \in 1 .. Len(q) : q[i] \in Nat
  BY LenProperties, ElementOfSeq
<1>2. a \in 1 .. Len(q) + 1 /\ m \in a - 1 .. Len(q) /\ m + 1 \in a - 1 .. Len(q)
  BY <1>1
<1>3. x \in Seq(Nat) /\ Len(x) = m + 1 - a /\ \A i \in 1 .. m + 1 - a : x[i] = q[a + i - 1]
  <2>1. a \in Int /\ m \in Int /\ \A i \in a .. m : q[i] \in Nat
    BY <1>1, <1>2
  <2>2. /\ x \in Seq(Nat) /\ Len(x) = IF a <= m THEN m - a + 1 ELSE 0
        /\ \A i \in 1 .. m - a + 1 : x[i] = q[a + i - 1]
    BY <2>1, SubSeqProperties
  <2> HIDE DEF x
  <2> QED
    BY <2>2, <1>2
<1>4. /\ y \in Seq(Nat) /\ Len(y) = m + 2 - a
      /\ \A i \in 1 .. m + 2 - a : y[i] = q[a + i - 1]
  BY <1>2, SubSeqProperties
<1>5. q[m + 1] \in Nat
  BY <1>1
<1> DEFINE z == Append(x, q[m + 1])
<1> HIDE DEF x, y
<1>6. /\ z \in Seq(Nat) /\ Len(z) = Len(x) + 1
      /\ \A i \in 1 .. Len(x) : z[i] = x[i]
      /\ z[Len(x) + 1] = q[m + 1]
  BY <1>3, <1>5, AppendProperties
<1>7. Len(z) = Len(y) /\ Len(z) \in Nat
  BY <1>3, <1>4, <1>6
<1>8. ASSUME NEW i \in 1 .. Len(z) PROVE z[i] = y[i]
  <2>1. i \in 1 .. m + 2 - a
    BY <1>4, <1>7
  <2>2. CASE i \in 1 .. Len(x)
    BY <1>3, <1>4, <1>6, <2>1, <2>2
  <2>3. CASE i = Len(x) + 1
    <3>1. a + i - 1 = m + 1
      BY <1>3, <2>3
    <3> QED
      BY <1>4, <1>6, <2>1, <2>3, <3>1
  <2>4. i \in 1 .. Len(x) \/ i = Len(x) + 1
    <3>1. Len(x) \in Nat /\ Len(z) = Len(x) + 1
      BY <1>3, <1>6
    <3> HIDE DEF z
    <3> QED
      BY <3>1
  <2> QED
    BY <2>2, <2>3, <2>4
<1> HIDE DEF z
<1>9. z = y
  BY <1>4, <1>6, <1>7, <1>8, SeqEqual
<1> QED
  BY <1>3, <1>9 DEF x, y, z

AuthParser ==
  [state : {"VERSION", "ULEN", "UNAME", "PLEN", "PASSWD", "DONE", "ERROR"}, len : Nat,
   username : Seq(Nat), password : Seq(Nat)]

\* In the name, of u bytes; in the password, of w bytes.
InName(p, q, o, j, u) ==
  /\ p.state = "UNAME" /\ p.len = u /\ u \in Nat \ {0} /\ 2 <= j /\ j <= u + 1
  /\ p.username = SubSeq(q, o + 3, o + j) /\ p.password = <<>>

InPassword(p, q, o, j, u, w) ==
  /\ p.state = (IF j = u + w + 3 THEN "DONE" ELSE "PASSWD")
  /\ p.len = w /\ w \in Nat \ {0} /\ u + 3 <= j /\ j <= u + w + 3
  /\ p.password = SubSeq(q, o + u + 4, o + j)

BehindName(p, q, o, j, u) ==
  /\ u \in Nat \ {0} /\ p.username = SubSeq(q, o + 3, o + u + 2)
  /\ \/ j = u + 2 /\ p.state = "PLEN" /\ p.password = <<>>
     \/ j = u + 3 /\ q[o + u + 3] = 0 /\ p.state = "ERROR"
     \/ InPassword(p, q, o, j, u, q[o + u + 3])

AuthIs(p, q, o, j) ==
  \/ j = 0 /\ p = auth_parser_init
  \/ j = 1 /\ q[o + 1] # 1 /\ p.state = "ERROR"
  \/ /\ q[o + 1] = 1
     /\ \/ j = 1 /\ p.state = "ULEN" /\ p.username = <<>> /\ p.password = <<>>
        \/ j = 2 /\ q[o + 2] = 0 /\ p.state = "ERROR"
        \/ InName(p, q, o, j, q[o + 2])
        \/ BehindName(p, q, o, j, q[o + 2])

LEMMA AuthFeedType ==
  ASSUME NEW p \in AuthParser, NEW b \in Nat
  PROVE  auth_parser_feed(p, b) \in AuthParser
<1>1. CASE p.state \in {"VERSION", "DONE", "ERROR"}
  BY <1>1 DEF auth_parser_feed, AuthParser
<1>2. CASE p.state = "ULEN"
  BY <1>2 DEF auth_parser_feed, AuthParser
<1>3. CASE p.state = "PLEN"
  BY <1>3 DEF auth_parser_feed, AuthParser
<1>4. CASE p.state = "UNAME"
  <2> DEFINE x == Append(p.username, b)
  <2>1. x \in Seq(Nat)
    BY DEF AuthParser
  <2>2. auth_parser_feed(p, b) =
          [p EXCEPT !.username = x, !.state = IF Len(p.username) + 1 = p.len
                                              THEN "PLEN" ELSE @]
    BY <1>4 DEF auth_parser_feed
  <2> HIDE DEF x
  <2> QED
    BY <2>1, <2>2 DEF AuthParser
<1>5. CASE p.state = "PASSWD"
  <2> DEFINE x == Append(p.password, b)
  <2>1. x \in Seq(Nat)
    BY DEF AuthParser
  <2>2. auth_parser_feed(p, b) =
          [p EXCEPT !.password = x, !.state = IF Len(p.password) + 1 = p.len
                                              THEN "DONE" ELSE @]
    BY <1>5 DEF auth_parser_feed
  <2> HIDE DEF x
  <2> QED
    BY <2>1, <2>2 DEF AuthParser
<1> QED
  BY <1>1, <1>2, <1>3, <1>4, <1>5 DEF AuthParser

LEMMA PhaseStates ==
  /\ auth_parser_init.state = "VERSION"
  /\ \A p, q, o, j, u : InName(p, q, o, j, u) => p.state = "UNAME"
  /\ \A p, q, o, j, u, w : InPassword(p, q, o, j, u, w) => p.state \in {"PASSWD", "DONE"}
  /\ \A p, q, o, j, u : BehindName(p, q, o, j, u) =>
       p.state \in {"PLEN", "ERROR", "PASSWD", "DONE"}
BY DEF auth_parser_init, InName, InPassword, BehindName

LEMMA AuthStep ==
  ASSUME NEW p \in AuthParser, NEW q \in Seq(Nat), NEW o \in Nat, NEW j \in Nat,
         o + j < Len(q), AuthIs(p, q, o, j), p.state \notin Ending
  PROVE  AuthIs(auth_parser_feed(p, q[o + (j + 1)]), q, o, j + 1)
<1> DEFINE b == q[o + (j + 1)]
           r == auth_parser_feed(p, b)
           u == q[o + 2]
           w == q[o + u + 3]
<1> SUFFICES AuthIs(r, q, o, j + 1)
  OBVIOUS
<1>1. b \in Nat /\ Len(q) \in Nat
  OBVIOUS
<1>2. CASE j = 0
  <2>1. r = [p EXCEPT !.state = IF b = 1 THEN "ULEN" ELSE "ERROR"]
        /\ p = auth_parser_init /\ b = q[o + 1]
    <3>1. p = auth_parser_init
      <4>1. ~InName(p, q, o, j, u)
        BY <1>2 DEF InName
      <4>2. ~BehindName(p, q, o, j, u)
        <5> HIDE DEF u
        <5>1. ASSUME u \in Nat \ {0} PROVE ~(j = u + 2) /\ ~(j = u + 3) /\ ~(u + 3 <= j)
          BY <1>2, <5>1
        <5> QED
          BY <5>1 DEF BehindName, InPassword
      <4> HIDE DEF r, b
      <4> QED
        BY <1>2, <4>1, <4>2 DEF AuthIs
    <3> QED
      BY <1>2, <3>1 DEF auth_parser_feed, auth_parser_init
  <2>2. r.state = (IF b = 1 THEN "ULEN" ELSE "ERROR")
        /\ r.username = <<>> /\ r.password = <<>>
    BY <2>1 DEF auth_parser_init
  <2> QED
    BY <1>2, <2>1, <2>2 DEF AuthIs
<1>3. CASE p.state = "ULEN"
  <2>0. q[o + 1] = 1 /\ j = 1 /\ p.username = <<>> /\ p.password = <<>>
    <3> HIDE DEF r, b
    <3> QED
      BY <1>3, PhaseStates DEF AuthIs
  <2>1. q[o + 1] = 1 /\ j = 1 /\ p.username = <<>> /\ p.password = <<>> /\ b = u
    BY <2>0
  <2>2. r = [p EXCEPT !.len = b, !.state = IF b = 0 THEN "ERROR" ELSE "UNAME"]
    BY <1>3 DEF auth_parser_feed
  <2>3. /\ r.len = u /\ r.state = (IF u = 0 THEN "ERROR" ELSE "UNAME")
        /\ r.username = <<>> /\ r.password = <<>>
    BY <2>1, <2>2 DEF AuthParser
  <2>4. SubSeq(q, o + 3, o + 2) = <<>>
    BY SubSeqEmpty
  <2> HIDE DEF r, u, b
  <2>5. CASE u = 0
    BY <2>1, <2>3, <2>5 DEF AuthIs, u
  <2>6. CASE u # 0
    <3>1. u \in Nat \ {0} /\ 2 <= j + 1 /\ j + 1 <= u + 1 /\ j + 1 = 2
      BY <1>1, <2>1, <2>6
    <3>2. InName(r, q, o, j + 1, u)
      BY <2>3, <2>4, <2>6, <3>1 DEF InName
    <3> QED
      BY <2>1, <3>2 DEF AuthIs, u
  <2> QED
    BY <2>5, <2>6
<1>4. CASE p.state = "UNAME"
  <2>1. q[o + 1] = 1 /\ InName(p, q, o, j, u)
    <3> HIDE DEF r, b
    <3> QED
      BY <1>4, PhaseStates DEF AuthIs
  <2> DEFINE x == SubSeq(q, o + 3, o + j)
             y == SubSeq(q, o + 3, o + (j + 1))
  <2>2. Len(x) = j - 2 /\ Append(x, b) = y
    <3>0. 2 <= j
      BY <2>1 DEF InName
    <3>1. o + 3 \in Nat \ {0} /\ o + j \in Nat /\ o + 3 <= (o + j) + 1 /\ o + j < Len(q)
          /\ (o + j) + 1 = o + (j + 1)
      BY ONLY <3>0, o \in Nat, j \in Nat, o + j < Len(q)
    <3>2. Len(x) = (o + j) + 1 - (o + 3) /\ Append(x, b) = y
      BY <3>1, PieceGrows
    <3> HIDE DEF x
    <3> QED
      BY <3>2
  <2>3. r = [p EXCEPT !.username = Append(@, b),
                      !.state = IF Len(p.username) + 1 = p.len THEN "PLEN" ELSE @]
    BY <1>4 DEF auth_parser_feed
  <2>4. /\ p.username = x /\ p.password = <<>> /\ p.len = u /\ 2 <= j /\ j <= u + 1
        /\ u \in Nat \ {0}
    BY <2>1 DEF InName
  <2>5. /\ r.username = y /\ r.password = <<>> /\ r.len = u
        /\ r.state = IF (j - 2) + 1 = u THEN "PLEN" ELSE "UNAME"
    <3> HIDE DEF x, y, u, b, r
    <3>1. r.username = Append(x, b) /\ r.password = p.password /\ r.len = p.len
          /\ r.state = IF Len(p.username) + 1 = p.len THEN "PLEN" ELSE "UNAME"
      BY <1>4, <2>3, <2>4 DEF AuthParser
    <3> QED
      BY <2>2, <2>4, <3>1
  <2>6. u \in Nat
    BY <2>4
  <2> HIDE DEF x, r, u, b
  <2>7. CASE j + 1 <= u + 1
    <3>1. (j - 2) + 1 # u /\ 2 <= j + 1
      BY <2>4, <2>6, <2>7
    <3>2. InName(r, q, o, j + 1, u)
      BY <2>4, <2>5, <2>7, <3>1 DEF InName, y
    <3> QED
      BY <2>1, <3>2 DEF AuthIs, u
  <2>8. CASE j = u + 1
    <3>1. (j - 2) + 1 = u /\ o + (j + 1) = o + u + 2 /\ j + 1 = u + 2
      BY <2>4, <2>6, <2>8
    <3>2. r.username = SubSeq(q, o + 3, o + u + 2) /\ r.state = "PLEN"
      BY <2>5, <3>1 DEF y
    <3>3. BehindName(r, q, o, j + 1, u)
      BY <2>4, <2>5, <3>1, <3>2 DEF BehindName
    <3> QED
      BY <2>1, <3>3 DEF AuthIs, u
  <2> QED
    BY <2>4, <2>6, <2>7, <2>8
<1>5. CASE p.state = "PLEN"
  <2>0. q[o + 1] = 1 /\ BehindName(p, q, o, j, u)
    <3> HIDE DEF r, b
    <3> QED
      BY <1>5, PhaseStates DEF AuthIs
  <2>1. /\ q[o + 1] = 1 /\ u \in Nat \ {0} /\ j = u + 2
        /\ p.username = SubSeq(q, o + 3, o + u + 2) /\ p.password = <<>>
    BY <1>5, <2>0, PhaseStates DEF BehindName
  <2>2. u \in Nat
    BY <2>1
  <2>3. b = w /\ w \in Nat /\ j + 1 = u + 3 /\ o + (j + 1) = o + u + 3
    <3> HIDE DEF u
    <3>1. j + 1 = u + 3 /\ o + (j + 1) = o + u + 3
      BY <2>1, <2>2
    <3> QED
      BY <1>1, <3>1
  <2>4. r = [p EXCEPT !.len = b, !.state = IF b = 0 THEN "ERROR" ELSE "PASSWD"]
    BY <1>5 DEF auth_parser_feed
  <2>5. /\ r.len = w /\ r.state = (IF w = 0 THEN "ERROR" ELSE "PASSWD")
        /\ r.username = p.username /\ r.password = <<>>
    <3> HIDE DEF r, u, w, b
    <3>1. r.len = b /\ r.state = (IF b = 0 THEN "ERROR" ELSE "PASSWD")
          /\ r.username = p.username /\ r.password = p.password
      BY <2>4 DEF AuthParser
    <3> QED
      BY <2>1, <2>3, <3>1
  <2>6. SubSeq(q, o + u + 4, o + (j + 1)) = <<>>
    <3> HIDE DEF u
    <3>1. o + u + 4 \in Int /\ o + (j + 1) \in Int /\ o + (j + 1) < o + u + 4
      BY <2>1, <2>2
    <3> QED
      BY <3>1, SubSeqEmpty
  <2> HIDE DEF r, u, w, b
  <2>7. CASE w = 0
    <3>1. BehindName(r, q, o, j + 1, u)
      BY <2>1, <2>3, <2>5, <2>7 DEF BehindName, w
    <3> QED
      BY <2>1, <3>1 DEF AuthIs, u
  <2>8. CASE w # 0
    <3>1. /\ w \in Nat \ {0} /\ u + 3 <= j + 1 /\ j + 1 <= u + w + 3
          /\ j + 1 # u + w + 3
      BY <2>2, <2>3, <2>8
    <3>2. InPassword(r, q, o, j + 1, u, w)
      BY <2>5, <2>6, <2>8, <3>1 DEF InPassword
    <3>3. BehindName(r, q, o, j + 1, u)
      BY <2>1, <2>5, <3>2 DEF BehindName, w
    <3> QED
      BY <2>1, <3>3 DEF AuthIs, u
  <2> QED
    BY <2>7, <2>8
<1>6. CASE p.state = "PASSWD"
  <2>0. q[o + 1] = 1 /\ BehindName(p, q, o, j, u)
    <3> HIDE DEF r, b
    <3> QED
      BY <1>6, PhaseStates DEF AuthIs
  <2>1. /\ q[o + 1] = 1 /\ u \in Nat \ {0} /\ p.username = SubSeq(q, o + 3, o + u + 2)
        /\ InPassword(p, q, o, j, u, w)
    BY <1>6, <2>0 DEF BehindName
  <2> DEFINE x == SubSeq(q, o + u + 4, o + j)
             y == SubSeq(q, o + u + 4, o + (j + 1))
  <2>2. /\ p.password = x /\ p.len = w /\ w \in Nat \ {0} /\ u + 3 <= j
        /\ j <= u + w + 3 /\ j # u + w + 3
    BY <1>6, <2>1 DEF InPassword
  <2>3. u \in Nat /\ w \in Nat
    BY <2>1, <2>2
  <2> HIDE DEF u, w
  <2>4. Len(x) = j - u - 3 /\ Append(x, b) = y
    <3>1. /\ o + u + 4 \in Nat \ {0} /\ o + j \in Nat /\ o + u + 4 <= (o + j) + 1
          /\ o + j < Len(q) /\ (o + j) + 1 = o + (j + 1)
      <4>1. u + 3 <= j
        BY <2>2
      <4> QED
        BY ONLY <4>1, <2>3, o \in Nat, j \in Nat, o + j < Len(q)
    <3>2. Len(x) = (o + j) + 1 - (o + u + 4) /\ Append(x, b) = y
      BY <3>1, PieceGrows
    <3> HIDE DEF x
    <3> QED
      BY <3>2, <2>3
  <2>5. r = [p EXCEPT !.password = Append(@, b),
                      !.state = IF Len(p.password) + 1 = p.len THEN "DONE" ELSE @]
    BY <1>6 DEF auth_parser_feed
  <2>6. /\ r.password = y /\ r.username = p.username /\ r.len = w
        /\ r.state = IF (j - u - 3) + 1 = w THEN "DONE" ELSE "PASSWD"
    <3> HIDE DEF x, y, b, r
    <3>1. r.password = Append(x, b) /\ r.username = p.username /\ r.len = p.len
          /\ r.state = IF Len(p.password) + 1 = p.len THEN "DONE" ELSE "PASSWD"
      BY <1>6, <2>2, <2>5 DEF AuthParser
    <3> QED
      BY <2>2, <2>4, <3>1
  <2> HIDE DEF x, r, b
  <2>7. /\ ((j - u - 3) + 1 = w <=> j + 1 = u + w + 3)
        /\ u + 3 <= j + 1 /\ j + 1 <= u + w + 3
    BY <2>2, <2>3
  <2>8. InPassword(r, q, o, j + 1, u, w)
    BY <2>2, <2>6, <2>7 DEF InPassword, y
  <2>9. BehindName(r, q, o, j + 1, u)
    BY <2>1, <2>6, <2>8 DEF BehindName, w
  <2> QED
    BY <2>1, <2>9 DEF AuthIs, u
<1> QED
  <2>1. p.state = "VERSION" => j = 0
    BY PhaseStates DEF AuthIs
  <2> QED
    BY <1>2, <1>3, <1>4, <1>5, <1>6, <2>1 DEF AuthParser, Ending

LEMMA AuthConsumed ==
  ASSUME NEW z \in Nat, NEW b \in BufferOf(Nat, z), NEW p \in AuthParser,
         NEW q \in Seq(Nat), NEW o \in Nat, NEW j \in Nat,
         o + j + Len(b.bytes) <= Len(q),
         \A i \in 1 .. Len(b.bytes) : b.bytes[i] = q[o + j + i],
         AuthIs(p, q, o, j), p.state \notin Ending
  PROVE  LET r == auth_parser_consume(p, b)
         IN  r.parser \in AuthParser /\ \E k \in 0 .. Len(b.bytes) :
               Takes(b, r, k) /\ AuthIs(r.parser, q, o, j + k)
<1> DEFINE r == auth_parser_consume(p, b)
           n == Len(b.bytes)
           s == b.bytes
           X == AuthParser
           g == [i \in 1 .. n |-> [x \in X |-> auth_parser_feed(x, s[i])]]
           I == [i \in 0 .. n |-> {x \in X : AuthIs(x, q, o, j + i)}]
           E == {x \in X : x.state \in Ending}
           fed[i \in 0 .. Len(b.bytes)] ==
             IF i = 0 THEN p ELSE auth_parser_feed(fed[i - 1], b.bytes[i])
<1>1. /\ n \in Nat /\ Len(q) \in Nat /\ o + j + n <= Len(q)
      /\ \A i \in 1 .. n : s[i] \in Nat /\ s[i] = q[o + j + i]
  <2>1. s \in Seq(Nat)
    BY BufferFields
  <2>2. Len(s) \in Nat /\ Len(q) \in Nat /\ \A i \in 1 .. Len(s) : s[i] \in Nat
    BY <2>1, LenProperties, ElementOfSeq
  <2> HIDE DEF I, E, g, X, fed, r
  <2> QED
    BY <2>2
<1>0. n \in Nat
  BY <1>1
<1>2. Steps(n, X, g)
  BY <1>1, AuthFeedType DEF Steps
<1>3. PICK t : Iterates(t, n, X, p, g)
  <2> HIDE DEF g, n, X
  <2>1. p \in X
    BY DEF X
  <2> QED
    BY <1>0, <1>2, <2>1, RecursionExists
<1>4. t = [i \in 0 .. n |-> IF i = 0 THEN p ELSE auth_parser_feed(t[i - 1], s[i])]
  <2>1. ASSUME NEW i \in 1 .. n PROVE t[i] = auth_parser_feed(t[i - 1], s[i])
    <3>1. t[i - 1] \in X
      <4> HIDE DEF n, X, g
      <4>1. i - 1 \in 0 .. n
        BY <1>0
      <4> QED
        BY <1>3, <4>1 DEF Iterates
    <3> QED
      BY <1>3, <3>1 DEF Iterates
  <2> HIDE DEF n, s, X
  <2> QED
    BY <1>1, <1>3, <2>1 DEF Iterates
<1>5. fed = [i \in 0 .. Len(b.bytes) |->
               IF i = 0 THEN p ELSE auth_parser_feed(fed[i - 1], b.bytes[i])]
  BY <1>4
<1> DEFINE ended == {i \in 1 .. n : fed[i].state \in {"DONE", "ERROR"}}
           k == Last(n, ended)
<1>6. r.parser = fed[k] /\ r.buf = buffer_read_adv(b, k)
  BY DEF auth_parser_consume, Consume, Last
<1> HIDE DEF fed, r
<1>7. Iterates(fed, n, X, p, g)
  <2>1. ASSUME NEW i \in 0 .. n PROVE fed[i] \in X
    <3> DEFINE P == {x \in 0 .. n : fed[x] \in X}
    <3>1. 0 \in P
      BY <1>1, <1>5
    <3>2. ASSUME NEW x \in 0 .. n - 1, x \in P PROVE x + 1 \in P
      <4>1. x + 1 \in 1 .. n /\ x + 1 \in 0 .. n /\ (x + 1) - 1 = x /\ x + 1 # 0
        BY <1>1
      <4>2. fed[x + 1] = auth_parser_feed(fed[x], s[x + 1])
        BY <1>5, <4>1
      <4> QED
        BY <1>1, <3>2, <4>1, <4>2, AuthFeedType
    <3> HIDE DEF P, n
    <3>3. \A x \in 0 .. n : x \in P
      BY <1>1, <3>1, <3>2, Induction
    <3> QED
      BY <3>3 DEF P
  <2>2. ASSUME NEW i \in 1 .. n PROVE fed[i] = g[i][fed[i - 1]]
    <3>1. i \in 0 .. n /\ i - 1 \in 0 .. n /\ i # 0
      BY <1>1
    <3>2. fed[i - 1] \in X
      BY <2>1, <3>1
    <3>3. fed[i] = auth_parser_feed(fed[i - 1], s[i])
      BY <1>5, <3>1
    <3> HIDE DEF X
    <3> QED
      BY <3>2, <3>3
  <2>3. fed[0] = p
    BY <1>1, <1>5
  <2>4. fed \in [0 .. n -> X]
    BY <1>5, <2>1
  <2> HIDE DEF n, X, g
  <2> QED
    BY <2>2, <2>3, <2>4 DEF Iterates
<1>8. p \in I[0] /\ p \notin E
  <2>1. 0 \in 0 .. n /\ j + 0 = j
    BY <1>1
  <2> QED
    BY <2>1
<1>9. ASSUME NEW i \in 1 .. n, NEW x \in I[i - 1], x \in X, x \notin E
      PROVE  g[i][x] \in I[i]
  <2>1. i - 1 \in 0 .. n /\ i \in 0 .. n /\ j + (i - 1) \in Nat /\ j + (i - 1) + 1 = j + i
        /\ o + (j + (i - 1)) < Len(q) /\ o + j + i = o + (j + i)
    <3>1. n \in Nat /\ Len(q) \in Nat /\ o + j + n <= Len(q)
      BY <1>1
    <3> HIDE DEF n, I, X, E, g
    <3> QED
      BY ONLY o \in Nat, j \in Nat, i \in 1 .. n, <3>1, NextPlace
  <2>2. AuthIs(x, q, o, j + (i - 1)) /\ x.state \notin Ending
    BY <2>1, <1>9
  <2>3. AuthIs(auth_parser_feed(x, q[o + (j + (i - 1) + 1)]), q, o, j + (i - 1) + 1)
    BY <2>1, <2>2, <1>9, AuthStep
  <2>4. AuthIs(auth_parser_feed(x, s[i]), q, o, j + i)
    BY <2>1, <2>3
  <2>5. auth_parser_feed(x, s[i]) \in X
    BY <1>1, <1>9, AuthFeedType
  <2> HIDE DEF X
  <2> QED
    BY <2>1, <2>4, <2>5, <1>9
<1>10. ended = {i \in 1 .. n : fed[i] \in E}
  <2>1. \A i \in 1 .. n : fed[i] \in X
    <3> HIDE DEF n, X, g
    <3> QED
      BY <1>1, <1>7 DEF Iterates
  <2> HIDE DEF X
  <2> QED
    BY <2>1 DEF Ending
<1>11. k \in 0 .. n /\ fed[k] \in I[k] /\ fed[k] \in X /\ (k = n \/ fed[k] \in E)
  <2>1. \A i : i \in ended <=> i \in 1 .. n /\ fed[i] \in E
    BY <1>10
  <2>3. k = Last(n, ended)
    OBVIOUS
  <2>2. \A i \in 1 .. n : \A x \in I[i - 1] : x \in X /\ x \notin E => g[i][x] \in I[i]
    BY <1>9
  <2> HIDE DEF X, I, E, g, n, k, ended
  <2>4. Parses(n, X, E, I, p, g, fed, ended)
    BY <1>0, <1>7, <1>8, <2>1, <2>2 DEF Parses
  <2> QED
    BY <2>3, <2>4, ConsumedBy
<1> HIDE DEF k, X
<1>12. AuthIs(fed[k], q, o, j + k) /\ fed[k] \in X /\ (k = n \/ fed[k].state \in Ending)
  BY <1>11
<1>13. Takes(b, r, k)
  BY <1>6, <1>12 DEF Takes
<1>14. k \in 0 .. Len(b.bytes) /\ AuthIs(r.parser, q, o, j + k) /\ r.parser \in AuthParser
  BY <1>6, <1>11, <1>12 DEF X
<1> QED
  BY <1>13, <1>14 DEF r

-----------------------------------------------------------------------------
(* The request, in the same way.  An address of l bytes stands behind the  *)
(* first h.                                                                *)

RequestParser ==
  [state : {"VERSION", "CMD", "RSV", "ATYP", "DOMAIN_LEN", "DADDR", "DPORT", "DONE",
            "ERROR"},
   cmd : Nat, atyp : Nat, addr_len : Nat, addr : Seq(Nat), port : Nat, port_idx : Nat]

HeadLen(atyp) == IF atyp = DOMAIN_NAME THEN 5 ELSE 4

AddrLen(atyp, b) ==
  IF atyp = IPV4 THEN IPV4_LEN ELSE IF atyp = IPV6 THEN IPV6_LEN ELSE b

Kinds == {IPV4, DOMAIN_NAME, IPV6}

Fresh(p) == p.addr = <<>> /\ p.port = 0 /\ p.port_idx = 0

InAddress(p, q, o, j, h, l) ==
  /\ p.state = "DADDR" /\ p.addr_len = l /\ h <= j /\ j < h + l
  /\ p.addr = SubSeq(q, o + h + 1, o + j) /\ p.port = 0 /\ p.port_idx = 0

BehindAddress(p, q, o, j, e) ==
  \/ j = e /\ p.state = "DPORT" /\ p.port = 0 /\ p.port_idx = 0
  \/ j = e + 1 /\ p.state = "DPORT" /\ p.port = q[o + e + 1] /\ p.port_idx = 1
  \/ j = e + 2 /\ p.state = "DONE" /\ p.port = q[o + e + 1] * 256 + q[o + e + 2]

AddressIs(p, q, o, j, h, l) ==
  /\ h \in {4, 5} /\ l \in Nat \ {0}
  /\ \/ InAddress(p, q, o, j, h, l)
     \/ p.addr = SubSeq(q, o + h + 1, o + h + l) /\ BehindAddress(p, q, o, j, h + l)

TargetIs(p, q, o, j, atyp) ==
  \/ j = 4 /\ atyp \notin Kinds /\ p.state = "ERROR"
  \/ /\ atyp \in Kinds /\ p.atyp = atyp
     /\ \/ j = 4 /\ atyp = DOMAIN_NAME /\ p.state = "DOMAIN_LEN" /\ Fresh(p)
        \/ j = 5 /\ atyp = DOMAIN_NAME /\ q[o + 5] = 0 /\ p.state = "ERROR"
        \/ AddressIs(p, q, o, j, HeadLen(atyp), AddrLen(atyp, q[o + 5]))

RequestIs(p, q, o, j) ==
  \/ j = 0 /\ p = request_parser_init
  \/ j = 1 /\ q[o + 1] # 5 /\ p.state = "ERROR"
  \/ /\ q[o + 1] = 5
     /\ \/ j = 1 /\ p.state = "CMD" /\ Fresh(p)
        \/ /\ p.cmd = q[o + 2]
           /\ \/ j = 2 /\ p.state = "RSV" /\ Fresh(p)
              \/ j = 3 /\ q[o + 3] # 0 /\ p.state = "ERROR"
              \/ /\ q[o + 3] = 0
                 /\ \/ j = 3 /\ p.state = "ATYP" /\ Fresh(p)
                    \/ TargetIs(p, q, o, j, q[o + 4])

LEMMA RequestFeedType ==
  ASSUME NEW p \in RequestParser, NEW b \in Nat
  PROVE  request_parser_feed(p, b) \in RequestParser
<1> USE HandshakeAssumption
<1>1. CASE p.state \in {"VERSION", "RSV", "DONE", "ERROR"}
  BY <1>1 DEF request_parser_feed, RequestParser
<1>2. CASE p.state = "CMD"
  BY <1>2 DEF request_parser_feed, RequestParser
<1>3. CASE p.state = "ATYP"
  <2> DEFINE l == CASE b = IPV4 -> IPV4_LEN [] b = IPV6 -> IPV6_LEN [] OTHER -> p.addr_len
             t == CASE b \in {IPV4, IPV6} -> "DADDR"
                    [] b = DOMAIN_NAME -> "DOMAIN_LEN" [] OTHER -> "ERROR"
  <2>1. l \in Nat /\ t \in {"DADDR", "DOMAIN_LEN", "ERROR"}
    BY DEF RequestParser
  <2>2. request_parser_feed(p, b) = [p EXCEPT !.atyp = b, !.addr_len = l, !.state = t]
    BY <1>3 DEF request_parser_feed
  <2> HIDE DEF l, t
  <2> QED
    BY <2>1, <2>2 DEF RequestParser
<1>4. CASE p.state = "DOMAIN_LEN"
  BY <1>4 DEF request_parser_feed, RequestParser
<1>5. CASE p.state = "DADDR"
  <2> DEFINE x == Append(p.addr, b)
  <2>1. x \in Seq(Nat)
    BY DEF RequestParser
  <2>2. request_parser_feed(p, b) =
          [p EXCEPT !.addr = x, !.state = IF Len(p.addr) + 1 = p.addr_len
                                          THEN "DPORT" ELSE @]
    BY <1>5 DEF request_parser_feed, AddressByte
  <2> HIDE DEF x
  <2> QED
    BY <2>1, <2>2 DEF RequestParser
<1>6. CASE p.state = "DPORT"
  <2> DEFINE x == p.port * 256 + b
             i == p.port_idx + 1
  <2>1. x \in Nat /\ i \in Nat
    BY DEF RequestParser
  <2>2. request_parser_feed(p, b) =
          [p EXCEPT !.port = x, !.port_idx = i,
                    !.state = IF p.port_idx = 1 THEN "DONE" ELSE @]
    BY <1>6 DEF request_parser_feed
  <2> HIDE DEF x, i
  <2> QED
    BY <2>1, <2>2 DEF RequestParser
<1> QED
  BY <1>1, <1>2, <1>3, <1>4, <1>5, <1>6 DEF RequestParser

LEMMA RequestPhases ==
  /\ request_parser_init.state = "VERSION" /\ Fresh(request_parser_init)
  /\ \A p, q, o, j, h, l : InAddress(p, q, o, j, h, l) => p.state = "DADDR"
  /\ \A p, q, o, j, e : BehindAddress(p, q, o, j, e) => p.state \in {"DPORT", "DONE"}
  /\ \A p, q, o, j, h, l : AddressIs(p, q, o, j, h, l) =>
       p.state \in {"DADDR", "DPORT", "DONE"}
  /\ \A p, q, o, j, atyp : TargetIs(p, q, o, j, atyp) =>
       p.state \in {"ERROR", "DOMAIN_LEN", "DADDR", "DPORT", "DONE"}
BY DEF request_parser_init, Fresh, InAddress, BehindAddress, AddressIs, TargetIs

(* The address begins: it is the same for the kinds of addresses.          *)
LEMMA AddressBegins ==
  ASSUME NEW p, NEW q, NEW o \in Nat, NEW h \in {4, 5}, NEW l \in Nat \ {0},
         p.state = "DADDR", p.addr_len = l, Fresh(p)
  PROVE  AddressIs(p, q, o, h, h, l)
<1>1. SubSeq(q, o + h + 1, o + h) = <<>>
  BY SubSeqEmpty
<1>2. h <= h /\ h < h + l
  OBVIOUS
<1> QED
  BY <1>1, <1>2 DEF AddressIs, InAddress, Fresh

LEMMA AddressStep ==
  ASSUME NEW p \in RequestParser, NEW q \in Seq(Nat), NEW o \in Nat, NEW j \in Nat,
         o + j < Len(q), NEW h, NEW l, AddressIs(p, q, o, j, h, l), p.state \notin Ending
  PROVE  LET r == request_parser_feed(p, q[o + (j + 1)])
         IN  AddressIs(r, q, o, j + 1, h, l) /\ r.cmd = p.cmd /\ r.atyp = p.atyp
<1> DEFINE b == q[o + (j + 1)]
           r == request_parser_feed(p, b)
<1> SUFFICES AddressIs(r, q, o, j + 1, h, l) /\ r.cmd = p.cmd /\ r.atyp = p.atyp
  OBVIOUS
<1>1. h \in {4, 5} /\ l \in Nat \ {0} /\ h \in Nat
  BY DEF AddressIs
<1>2. CASE p.state = "DADDR"
  <2>1. InAddress(p, q, o, j, h, l)
    BY <1>2, RequestPhases DEF AddressIs
  <2> DEFINE x == SubSeq(q, o + h + 1, o + j)
             y == SubSeq(q, o + h + 1, o + (j + 1))
  <2>2. /\ p.addr = x /\ p.addr_len = l /\ h <= j /\ j < h + l
        /\ p.port = 0 /\ p.port_idx = 0
    BY <2>1 DEF InAddress
  <2>3. Len(x) = j - h /\ Append(x, b) = y
    <3>1. /\ o + h + 1 \in Nat \ {0} /\ o + j \in Nat /\ o + h + 1 <= (o + j) + 1
          /\ o + j < Len(q) /\ (o + j) + 1 = o + (j + 1)
      <4>1. h <= j
        BY <2>2
      <4> QED
        BY ONLY <4>1, <1>1, o \in Nat, j \in Nat, o + j < Len(q)
    <3>2. Len(x) = (o + j) + 1 - (o + h + 1) /\ Append(x, b) = y
      BY <3>1, PieceGrows
    <3> HIDE DEF x
    <3> QED
      BY <3>2, <1>1
  <2>4. r = [p EXCEPT !.addr = Append(@, b),
                      !.state = IF Len(p.addr) + 1 = p.addr_len THEN "DPORT" ELSE @]
    BY <1>2 DEF request_parser_feed, AddressByte
  <2>5. /\ r.addr = y /\ r.addr_len = l /\ r.port = 0 /\ r.port_idx = 0
        /\ r.cmd = p.cmd /\ r.atyp = p.atyp
        /\ r.state = IF (j - h) + 1 = l THEN "DPORT" ELSE "DADDR"
    <3> HIDE DEF x, y, b, r
    <3>1. /\ r.addr = Append(x, b) /\ r.addr_len = p.addr_len /\ r.port = p.port
          /\ r.port_idx = p.port_idx /\ r.cmd = p.cmd /\ r.atyp = p.atyp
          /\ r.state = IF Len(p.addr) + 1 = p.addr_len THEN "DPORT" ELSE "DADDR"
      BY <1>2, <2>2, <2>4 DEF RequestParser
    <3> QED
      BY <2>2, <2>3, <3>1
  <2> HIDE DEF x, r, b
  <2>6. CASE j + 1 < h + l
    <3>1. (j - h) + 1 # l /\ h <= j + 1
      BY <1>1, <2>2, <2>6
    <3>2. InAddress(r, q, o, j + 1, h, l)
      BY <2>5, <2>6, <3>1 DEF InAddress, y
    <3> QED
      BY <1>1, <2>5, <3>2 DEF AddressIs
  <2>7. CASE j + 1 = h + l
    <3>1. (j - h) + 1 = l /\ o + (j + 1) = o + h + l
      BY <1>1, <2>2, <2>7
    <3>2. r.addr = SubSeq(q, o + h + 1, o + h + l)
      BY <2>5, <3>1 DEF y
    <3>3. BehindAddress(r, q, o, j + 1, h + l)
      BY <2>5, <2>7, <3>1 DEF BehindAddress
    <3> QED
      BY <1>1, <2>5, <3>2, <3>3 DEF AddressIs
  <2> QED
    BY <1>1, <2>2, <2>6, <2>7
<1>3. CASE p.state = "DPORT"
  <2> DEFINE e == h + l
  <2>1. p.addr = SubSeq(q, o + h + 1, o + h + l) /\ BehindAddress(p, q, o, j, e)
    BY <1>3, RequestPhases DEF AddressIs
  <2>2. e \in Nat
    BY <1>1
  <2>3. r = [p EXCEPT !.port = @ * 256 + b, !.port_idx = @ + 1,
                      !.state = IF p.port_idx = 1 THEN "DONE" ELSE @]
    BY <1>3 DEF request_parser_feed
  <2>4. /\ r.port = p.port * 256 + b /\ r.port_idx = p.port_idx + 1 /\ r.addr = p.addr
        /\ r.cmd = p.cmd /\ r.atyp = p.atyp
        /\ r.state = IF p.port_idx = 1 THEN "DONE" ELSE "DPORT"
    <3> HIDE DEF r, b
    <3> QED
      BY <1>3, <2>3 DEF RequestParser
  <2>5. b \in Nat
    OBVIOUS
  <2> HIDE DEF e, r
  <2>6. CASE j = e
    <3>1. p.port = 0 /\ p.port_idx = 0
      BY <1>3, <2>1, <2>2, <2>6 DEF BehindAddress
    <3>2. o + (j + 1) = o + e + 1
      BY <2>2, <2>6
    <3>3. r.port = b /\ r.port_idx = 1 /\ r.state = "DPORT"
      BY <2>4, <2>5, <3>1
    <3>4. BehindAddress(r, q, o, j + 1, e)
      BY <2>6, <3>2, <3>3 DEF BehindAddress
    <3> QED
      BY <1>1, <2>1, <2>4, <3>4 DEF AddressIs, e
  <2>7. CASE j = e + 1
    <3>1. p.port = q[o + e + 1] /\ p.port_idx = 1
      BY <1>3, <2>1, <2>2, <2>7 DEF BehindAddress
    <3>2. o + (j + 1) = o + e + 2 /\ j + 1 = e + 2
      BY <2>2, <2>7
    <3>3. BehindAddress(r, q, o, j + 1, e)
      BY <2>4, <3>1, <3>2 DEF BehindAddress
    <3> QED
      BY <1>1, <2>1, <2>4, <3>3 DEF AddressIs, e
  <2> QED
    BY <1>3, <2>1, <2>6, <2>7 DEF BehindAddress
<1> QED
  BY <1>2, <1>3, RequestPhases DEF Ending

LEMMA RequestStep ==
  ASSUME NEW p \in RequestParser, NEW q \in Seq(Nat), NEW o \in Nat, NEW j \in Nat,
         o + j < Len(q), RequestIs(p, q, o, j), p.state \notin Ending
  PROVE  RequestIs(request_parser_feed(p, q[o + (j + 1)]), q, o, j + 1)
<1> DEFINE b == q[o + (j + 1)]
           r == request_parser_feed(p, b)
           k == q[o + 4]
<1> SUFFICES RequestIs(r, q, o, j + 1)
  OBVIOUS
<1>1. b \in Nat
  OBVIOUS
<1>2. CASE p.state = "VERSION"
  <2>1. j = 0 /\ p = request_parser_init /\ b = q[o + 1]
    <3>1. j = 0 /\ p = request_parser_init
      BY <1>2, RequestPhases DEF RequestIs
    <3> QED
      BY <3>1
  <2>2. r = [p EXCEPT !.state = IF b = 5 THEN "CMD" ELSE "ERROR"]
    BY <1>2 DEF request_parser_feed
  <2>3. r.state = (IF b = 5 THEN "CMD" ELSE "ERROR") /\ Fresh(r)
    BY <2>1, <2>2 DEF request_parser_init, Fresh
  <2> QED
    BY <2>1, <2>3 DEF RequestIs
<1>3. CASE p.state = "CMD"
  <2>1. j = 1 /\ q[o + 1] = 5 /\ Fresh(p)
    BY <1>3, RequestPhases DEF RequestIs
  <2>2. r = [p EXCEPT !.cmd = b, !.state = "RSV"]
    BY <1>3 DEF request_parser_feed
  <2>3. r.state = "RSV" /\ r.cmd = b /\ Fresh(r)
    BY <2>1, <2>2 DEF RequestParser, Fresh
  <2>4. b = q[o + 2] /\ j + 1 = 2
    BY <2>1
  <2> QED
    BY <2>1, <2>3, <2>4 DEF RequestIs
<1>4. CASE p.state = "RSV"
  <2>1. j = 2 /\ q[o + 1] = 5 /\ p.cmd = q[o + 2] /\ Fresh(p)
    BY <1>4, RequestPhases DEF RequestIs
  <2>2. r = [p EXCEPT !.state = IF b = 0 THEN "ATYP" ELSE "ERROR"]
    BY <1>4 DEF request_parser_feed
  <2>3. r.state = (IF b = 0 THEN "ATYP" ELSE "ERROR") /\ r.cmd = p.cmd /\ Fresh(r)
    BY <2>1, <2>2 DEF RequestParser, Fresh
  <2>4. b = q[o + 3] /\ j + 1 = 3
    BY <2>1
  <2> QED
    BY <2>1, <2>3, <2>4 DEF RequestIs
<1>5. CASE p.state = "ATYP"
  <2>1. j = 3 /\ q[o + 1] = 5 /\ p.cmd = q[o + 2] /\ q[o + 3] = 0 /\ Fresh(p)
    BY <1>5, RequestPhases DEF RequestIs
  <2> DEFINE l == CASE b = IPV4 -> IPV4_LEN [] b = IPV6 -> IPV6_LEN [] OTHER -> p.addr_len
             t == CASE b \in {IPV4, IPV6} -> "DADDR"
                    [] b = DOMAIN_NAME -> "DOMAIN_LEN" [] OTHER -> "ERROR"
  <2>2. r = [p EXCEPT !.atyp = b, !.addr_len = l, !.state = t]
    BY <1>5 DEF request_parser_feed
  <2>3. b = k /\ j + 1 = 4
    BY <2>1
  <2>4. r.state = t /\ r.atyp = b /\ r.addr_len = l /\ r.cmd = p.cmd /\ Fresh(r)
    <3> HIDE DEF l, t
    <3> QED
      BY <2>1, <2>2 DEF RequestParser, Fresh
  <2>5. TargetIs(r, q, o, 4, b)
    <3> HIDE DEF r
    <3>1. CASE b \notin Kinds
      <4>1. t = "ERROR"
        BY <3>1 DEF Kinds
      <4> QED
        BY <2>4, <3>1, <4>1 DEF TargetIs
    <3>2. CASE b = DOMAIN_NAME
      <4>1. t = "DOMAIN_LEN"
        BY <3>2 DEF DOMAIN_NAME, IPV4, IPV6
      <4> QED
        BY <2>4, <3>2, <4>1 DEF TargetIs, Kinds
    <3>3. CASE b \in {IPV4, IPV6}
      <4>1. t = "DADDR" /\ HeadLen(b) = 4 /\ l = AddrLen(b, q[o + 5])
        BY <3>3 DEF HeadLen, AddrLen, DOMAIN_NAME, IPV4, IPV6
      <4>2. l \in Nat \ {0}
        BY <3>3, HandshakeAssumption DEF IPV4, IPV6
      <4>3. AddressIs(r, q, o, 4, 4, l)
        <5> HIDE DEF l, t
        <5> QED
          BY <2>4, <4>1, <4>2, AddressBegins
      <4> HIDE DEF l, t
      <4> QED
        BY <2>4, <3>3, <4>1, <4>3 DEF TargetIs, Kinds
    <3> QED
      BY <3>1, <3>2, <3>3 DEF Kinds
  <2> HIDE DEF r, l, t, b
  <2> QED
    BY <2>1, <2>3, <2>4, <2>5 DEF RequestIs, k
<1>6. CASE p.state = "DOMAIN_LEN"
  <2>0. q[o + 1] = 5 /\ p.cmd = q[o + 2] /\ q[o + 3] = 0 /\ TargetIs(p, q, o, j, k)
    <3> HIDE DEF r, b
    <3> QED
      BY <1>6, RequestPhases DEF RequestIs
  <2>1. j = 4 /\ k \in Kinds /\ k = DOMAIN_NAME /\ p.atyp = k /\ Fresh(p)
    <3> HIDE DEF r, b, k
    <3> QED
      BY <1>6, <2>0, RequestPhases DEF TargetIs
  <2>2. r = [p EXCEPT !.addr_len = b, !.state = IF b = 0 THEN "ERROR" ELSE "DADDR"]
    BY <1>6 DEF request_parser_feed
  <2>3. b = q[o + 5] /\ j + 1 = 5
    BY <2>1
  <2>4. /\ r.state = (IF b = 0 THEN "ERROR" ELSE "DADDR") /\ r.addr_len = b
        /\ r.cmd = p.cmd /\ r.atyp = p.atyp /\ Fresh(r)
    BY <2>1, <2>2 DEF RequestParser, Fresh
  <2> HIDE DEF r, b, k
  <2>5. TargetIs(r, q, o, 5, k)
    <3>1. CASE b = 0
      BY <2>1, <2>3, <2>4, <3>1 DEF TargetIs
    <3>2. CASE b # 0
      <4>1. HeadLen(k) = 5 /\ AddrLen(k, b) = b
        BY <2>1 DEF HeadLen, AddrLen, DOMAIN_NAME, IPV4, IPV6
      <4>2. AddressIs(r, q, o, 5, 5, b)
        BY <1>1, <2>4, <3>2, AddressBegins
      <4> QED
        BY <2>1, <2>3, <2>4, <4>1, <4>2 DEF TargetIs
    <3> QED
      BY <3>1, <3>2
  <2> QED
    BY <2>0, <2>3, <2>4, <2>5 DEF RequestIs, k
<1>7. CASE p.state \in {"DADDR", "DPORT"}
  <2>0. q[o + 1] = 5 /\ p.cmd = q[o + 2] /\ q[o + 3] = 0 /\ TargetIs(p, q, o, j, k)
    <3> HIDE DEF r, b
    <3> QED
      BY <1>7, RequestPhases DEF RequestIs
  <2> DEFINE h == HeadLen(k)
             l == AddrLen(k, q[o + 5])
  <2>1. k \in Kinds /\ p.atyp = k /\ AddressIs(p, q, o, j, h, l)
    <3> HIDE DEF r, b, k
    <3> QED
      BY <1>7, <2>0, RequestPhases DEF TargetIs
  <2>2. AddressIs(r, q, o, j + 1, h, l) /\ r.cmd = p.cmd /\ r.atyp = p.atyp
    <3> HIDE DEF h, l, k
    <3> QED
      BY <2>1, AddressStep
  <2> HIDE DEF r, b
  <2>3. TargetIs(r, q, o, j + 1, k)
    <3> HIDE DEF k
    <3> QED
      BY <2>1, <2>2 DEF TargetIs
  <2> QED
    BY <2>0, <2>2, <2>3 DEF RequestIs
<1> QED
  BY <1>2, <1>3, <1>4, <1>5, <1>6, <1>7 DEF RequestParser, Ending

LEMMA RequestConsumed ==
  ASSUME NEW z \in Nat, NEW b \in BufferOf(Nat, z), NEW p \in RequestParser,
         NEW q \in Seq(Nat), NEW o \in Nat, NEW j \in Nat,
         o + j + Len(b.bytes) <= Len(q),
         \A i \in 1 .. Len(b.bytes) : b.bytes[i] = q[o + j + i],
         RequestIs(p, q, o, j), p.state \notin Ending
  PROVE  LET r == request_parser_consume(p, b)
         IN  r.parser \in RequestParser /\ \E k \in 0 .. Len(b.bytes) :
               Takes(b, r, k) /\ RequestIs(r.parser, q, o, j + k)
<1> DEFINE r == request_parser_consume(p, b)
           n == Len(b.bytes)
           s == b.bytes
           X == RequestParser
           g == [i \in 1 .. n |-> [x \in X |-> request_parser_feed(x, s[i])]]
           I == [i \in 0 .. n |-> {x \in X : RequestIs(x, q, o, j + i)}]
           E == {x \in X : x.state \in Ending}
           fed[i \in 0 .. Len(b.bytes)] ==
             IF i = 0 THEN p ELSE request_parser_feed(fed[i - 1], b.bytes[i])
<1>1. /\ n \in Nat /\ Len(q) \in Nat /\ o + j + n <= Len(q)
      /\ \A i \in 1 .. n : s[i] \in Nat /\ s[i] = q[o + j + i]
  <2>1. s \in Seq(Nat)
    BY BufferFields
  <2>2. Len(s) \in Nat /\ Len(q) \in Nat /\ \A i \in 1 .. Len(s) : s[i] \in Nat
    BY <2>1, LenProperties, ElementOfSeq
  <2> HIDE DEF I, E, g, X, fed, r
  <2> QED
    BY <2>2
<1>0. n \in Nat
  BY <1>1
<1>2. Steps(n, X, g)
  BY <1>1, RequestFeedType DEF Steps
<1>3. PICK t : Iterates(t, n, X, p, g)
  <2> HIDE DEF g, n, X
  <2>1. p \in X
    BY DEF X
  <2> QED
    BY <1>0, <1>2, <2>1, RecursionExists
<1>4. t = [i \in 0 .. n |-> IF i = 0 THEN p ELSE request_parser_feed(t[i - 1], s[i])]
  <2>1. ASSUME NEW i \in 1 .. n PROVE t[i] = request_parser_feed(t[i - 1], s[i])
    <3>1. t[i - 1] \in X
      <4> HIDE DEF n, X, g
      <4>1. i - 1 \in 0 .. n
        BY <1>0
      <4> QED
        BY <1>3, <4>1 DEF Iterates
    <3> QED
      BY <1>3, <3>1 DEF Iterates
  <2> HIDE DEF n, s, X
  <2> QED
    BY <1>1, <1>3, <2>1 DEF Iterates
<1>5. fed = [i \in 0 .. Len(b.bytes) |->
               IF i = 0 THEN p ELSE request_parser_feed(fed[i - 1], b.bytes[i])]
  BY <1>4
<1> DEFINE ended == {i \in 1 .. n : fed[i].state \in {"DONE", "ERROR"}}
           k == Last(n, ended)
<1>6. r.parser = fed[k] /\ r.buf = buffer_read_adv(b, k)
  BY DEF request_parser_consume, Consume, Last
<1> HIDE DEF fed, r
<1>7. Iterates(fed, n, X, p, g)
  <2>1. ASSUME NEW i \in 0 .. n PROVE fed[i] \in X
    <3> DEFINE P == {x \in 0 .. n : fed[x] \in X}
    <3>1. 0 \in P
      BY <1>1, <1>5
    <3>2. ASSUME NEW x \in 0 .. n - 1, x \in P PROVE x + 1 \in P
      <4>1. x + 1 \in 1 .. n /\ x + 1 \in 0 .. n /\ (x + 1) - 1 = x /\ x + 1 # 0
        BY <1>1
      <4>2. fed[x + 1] = request_parser_feed(fed[x], s[x + 1])
        BY <1>5, <4>1
      <4> QED
        BY <1>1, <3>2, <4>1, <4>2, RequestFeedType
    <3> HIDE DEF P, n
    <3>3. \A x \in 0 .. n : x \in P
      BY <1>1, <3>1, <3>2, Induction
    <3> QED
      BY <3>3 DEF P
  <2>2. ASSUME NEW i \in 1 .. n PROVE fed[i] = g[i][fed[i - 1]]
    <3>1. i \in 0 .. n /\ i - 1 \in 0 .. n /\ i # 0
      BY <1>1
    <3>2. fed[i - 1] \in X
      BY <2>1, <3>1
    <3>3. fed[i] = request_parser_feed(fed[i - 1], s[i])
      BY <1>5, <3>1
    <3> HIDE DEF X
    <3> QED
      BY <3>2, <3>3
  <2>3. fed[0] = p
    BY <1>1, <1>5
  <2>4. fed \in [0 .. n -> X]
    BY <1>5, <2>1
  <2> HIDE DEF n, X, g
  <2> QED
    BY <2>2, <2>3, <2>4 DEF Iterates
<1>8. p \in I[0] /\ p \notin E
  <2>1. 0 \in 0 .. n /\ j + 0 = j
    BY <1>1
  <2> QED
    BY <2>1
<1>9. ASSUME NEW i \in 1 .. n, NEW x \in I[i - 1], x \in X, x \notin E
      PROVE  g[i][x] \in I[i]
  <2>1. i - 1 \in 0 .. n /\ i \in 0 .. n /\ j + (i - 1) \in Nat /\ j + (i - 1) + 1 = j + i
        /\ o + (j + (i - 1)) < Len(q) /\ o + j + i = o + (j + i)
    <3>1. n \in Nat /\ Len(q) \in Nat /\ o + j + n <= Len(q)
      BY <1>1
    <3> HIDE DEF n, I, X, E, g
    <3> QED
      BY ONLY o \in Nat, j \in Nat, i \in 1 .. n, <3>1, NextPlace
  <2>2. RequestIs(x, q, o, j + (i - 1)) /\ x.state \notin Ending
    BY <2>1, <1>9
  <2>3. RequestIs(request_parser_feed(x, q[o + (j + (i - 1) + 1)]), q, o, j + (i - 1) + 1)
    BY <2>1, <2>2, <1>9, RequestStep
  <2>4. RequestIs(request_parser_feed(x, s[i]), q, o, j + i)
    BY <2>1, <2>3
  <2>5. request_parser_feed(x, s[i]) \in X
    BY <1>1, <1>9, RequestFeedType
  <2> HIDE DEF X
  <2> QED
    BY <2>1, <2>4, <2>5, <1>9
<1>10. ended = {i \in 1 .. n : fed[i] \in E}
  <2>1. \A i \in 1 .. n : fed[i] \in X
    <3> HIDE DEF n, X, g
    <3> QED
      BY <1>1, <1>7 DEF Iterates
  <2> HIDE DEF X
  <2> QED
    BY <2>1 DEF Ending
<1>11. k \in 0 .. n /\ fed[k] \in I[k] /\ fed[k] \in X /\ (k = n \/ fed[k] \in E)
  <2>1. \A i : i \in ended <=> i \in 1 .. n /\ fed[i] \in E
    BY <1>10
  <2>3. k = Last(n, ended)
    OBVIOUS
  <2>2. \A i \in 1 .. n : \A x \in I[i - 1] : x \in X /\ x \notin E => g[i][x] \in I[i]
    BY <1>9
  <2> HIDE DEF X, I, E, g, n, k, ended
  <2>4. Parses(n, X, E, I, p, g, fed, ended)
    BY <1>0, <1>7, <1>8, <2>1, <2>2 DEF Parses
  <2> QED
    BY <2>3, <2>4, ConsumedBy
<1> HIDE DEF k, X
<1>12. RequestIs(fed[k], q, o, j + k) /\ fed[k] \in X /\ (k = n \/ fed[k].state \in Ending)
  BY <1>11
<1>13. Takes(b, r, k)
  BY <1>6, <1>12 DEF Takes
<1>14. k \in 0 .. Len(b.bytes) /\ RequestIs(r.parser, q, o, j + k) /\ r.parser \in RequestParser
  BY <1>6, <1>11, <1>12 DEF X
<1> QED
  BY <1>13, <1>14 DEF r

-----------------------------------------------------------------------------
(* What a parser that has ended says of the message it was given.  Holds:  *)
(* the message m stands in q behind the first o bytes.                     *)

Holds(q, o, m) ==
  o + Len(m) <= Len(q) /\ \A i \in 1 .. Len(m) : q[o + i] = m[i]

\* c is a and behind it b.
Joins(a, b, c) ==
  /\ c \in Seq(Nat) /\ Len(c) = Len(a) + Len(b)
  /\ Len(a) \in Nat /\ Len(b) \in Nat
  /\ \A i \in 1 .. Len(a) : c[i] = a[i]
  /\ \A i \in 1 .. Len(b) : c[Len(a) + i] = b[i]

LEMMA JoinBytes ==
  ASSUME NEW a \in Seq(Nat), NEW b \in Seq(Nat), NEW c, c = a \o b
  PROVE  Joins(a, b, c)
BY DEF Joins

LEMMA FirstByte ==
  ASSUME NEW x \in Nat, NEW f \in Seq(Nat), NEW g, g = <<x>> \o f
  PROVE  /\ g \in Seq(Nat) /\ Len(g) = Len(f) + 1 /\ Len(f) \in Nat /\ g[1] = x
         /\ \A i \in 1 .. Len(f) : g[i + 1] = f[i]
<1>1. <<x>> \in Seq(Nat) /\ Len(<<x>>) = 1 /\ <<x>>[1] = x
  OBVIOUS
<1> QED
  BY <1>1

LEMMA FieldBytes ==
  ASSUME NEW f \in Seq(Nat)
  PROVE  /\ Field(f) \in Seq(Nat) /\ Len(Field(f)) = Len(f) + 1 /\ Len(f) \in Nat
         /\ Field(f)[1] = Len(f)
         /\ \A i \in 1 .. Len(f) : Field(f)[i + 1] = f[i]
BY FirstByte DEF Field

LEMMA GreetingBytes ==
  ASSUME NEW f \in Seq(Nat)
  PROVE  /\ Len(Greeting(f)) = Len(f) + 2 /\ Len(f) \in Nat
         /\ Greeting(f)[1] = 5 /\ Greeting(f)[2] = Len(f)
         /\ \A i \in 1 .. Len(f) : Greeting(f)[i + 2] = f[i]
<1> DEFINE b == Field(f)
           m == Greeting(f)
<1>1. /\ b \in Seq(Nat) /\ Len(b) = Len(f) + 1 /\ Len(f) \in Nat /\ b[1] = Len(f)
      /\ \A i \in 1 .. Len(f) : b[i + 1] = f[i]
  BY FieldBytes
<1>2. m = <<5>> \o b
  BY DEF Greeting
<1> HIDE DEF b, m
<1>3. Len(m) = Len(b) + 1 /\ m[1] = 5 /\ \A i \in 1 .. Len(b) : m[i + 1] = b[i]
  BY <1>1, <1>2, FirstByte
<1>4. m[2] = Len(f)
  BY ONLY <1>1, <1>3
<1>5. ASSUME NEW i \in 1 .. Len(f) PROVE m[i + 2] = f[i]
  <2>1. i + 1 \in 1 .. Len(b) /\ (i + 1) + 1 = i + 2
    BY <1>1
  <2> QED
    BY <1>1, <1>3, <2>1
<1> QED
  BY <1>1, <1>3, <1>4, <1>5 DEF m

LEMMA LoginBytes ==
  ASSUME NEW f \in Seq(Nat), NEW g \in Seq(Nat)
  PROVE  LET m == Login(f, g)
         IN  /\ Len(m) = Len(f) + Len(g) + 3 /\ Len(f) \in Nat /\ Len(g) \in Nat
             /\ m[1] = 1 /\ m[2] = Len(f) /\ m[Len(f) + 3] = Len(g)
             /\ \A i \in 1 .. Len(f) : m[i + 2] = f[i]
             /\ \A i \in 1 .. Len(g) : m[Len(f) + 3 + i] = g[i]
<1> DEFINE x == Field(f)
           y == Field(g)
           z == x \o y
           m == Login(f, g)
           k == Len(f) + 1
<1>1. /\ x \in Seq(Nat) /\ Len(x) = k /\ Len(f) \in Nat /\ x[1] = Len(f)
      /\ \A i \in 1 .. Len(f) : x[i + 1] = f[i]
  BY FieldBytes
<1>2. /\ y \in Seq(Nat) /\ Len(y) = Len(g) + 1 /\ Len(g) \in Nat /\ y[1] = Len(g)
      /\ \A i \in 1 .. Len(g) : y[i + 1] = g[i]
  BY FieldBytes
<1>3. m = <<1>> \o z
  <2>1. <<1>> \in Seq(Nat)
    OBVIOUS
  <2>2. m = (<<1>> \o x) \o y
    BY DEF Login
  <2>3. x \in Seq(Nat) /\ y \in Seq(Nat)
    BY <1>1, <1>2
  <2> HIDE DEF m, x, y
  <2>4. (<<1>> \o x) \o y = <<1>> \o (x \o y)
    BY ONLY <2>1, <2>3, ConcatAssociative, SMTT(40)
  <2> QED
    BY <2>2, <2>4
<1> HIDE DEF x, y, k, m
<1>4. /\ z \in Seq(Nat) /\ Len(z) = k + Len(y) /\ k \in Nat
      /\ \A i \in 1 .. k : z[i] = x[i]
      /\ \A i \in 1 .. Len(y) : z[k + i] = y[i]
  <2>1. x \in Seq(Nat) /\ y \in Seq(Nat) /\ z = x \o y
    BY <1>1, <1>2
  <2> HIDE DEF z
  <2>2. /\ z \in Seq(Nat) /\ Len(z) = Len(x) + Len(y) /\ Len(x) \in Nat
        /\ \A i \in 1 .. Len(x) : z[i] = x[i]
        /\ \A i \in 1 .. Len(y) : z[Len(x) + i] = y[i]
    BY <2>1, JoinBytes DEF Joins
  <2> QED
    BY <1>1, <2>2
<1> HIDE DEF z
<1>5. Len(m) = Len(z) + 1 /\ m[1] = 1 /\ \A i \in 1 .. Len(z) : m[i + 1] = z[i]
  BY <1>3, <1>4, FirstByte
<1>6. Len(f) \in Nat /\ Len(g) \in Nat /\ k = Len(f) + 1 /\ Len(m) = Len(f) + Len(g) + 3
  BY <1>1, <1>2, <1>4, <1>5 DEF k
<1>7. ASSUME NEW i \in 1 .. k PROVE m[i + 1] = x[i]
  BY <1>2, <1>4, <1>5, <1>6, SMTT(30)
<1>8. ASSUME NEW i \in 1 .. Len(y) PROVE m[k + i + 1] = y[i]
  BY <1>2, <1>4, <1>5, <1>6
<1>9. m[2] = Len(f)
  <2>1. 1 \in 1 .. k /\ 1 + 1 = 2
    BY <1>6
  <2> QED
    BY <1>1, <1>7, <2>1
<1>10. m[Len(f) + 3] = Len(g)
  <2>1. 1 \in 1 .. Len(y) /\ k + 1 + 1 = Len(f) + 3
    BY <1>2, <1>6
  <2> QED
    BY <1>2, <1>8, <2>1
<1>11. ASSUME NEW i \in 1 .. Len(f) PROVE m[i + 2] = f[i]
  <2>1. i + 1 \in 1 .. k /\ (i + 1) + 1 = i + 2
    BY <1>6
  <2> QED
    BY <1>1, <1>7, <2>1
<1>12. ASSUME NEW i \in 1 .. Len(g) PROVE m[Len(f) + 3 + i] = g[i]
  <2>1. i + 1 \in 1 .. Len(y) /\ k + (i + 1) + 1 = Len(f) + 3 + i
    BY <1>2, <1>6
  <2> QED
    BY <1>2, <1>8, <2>1
<1> QED
  BY <1>5, <1>6, <1>9, <1>10, <1>11, <1>12 DEF m

\* A port from its two bytes.
PortOf(a, b) == a * 256 + b

\* The bytes of the request m; h is where its address begins.
RequestShape(m, cmd, atyp, addr, port, h) ==
  /\ Len(m) = h + Len(addr) + 2 /\ Len(addr) \in Nat
  /\ m[1] = 5 /\ m[2] = cmd /\ m[3] = 0 /\ m[4] = atyp
  /\ atyp = DOMAIN_NAME => m[5] = Len(addr)
  /\ \A i \in 1 .. Len(addr) : m[h + i] = addr[i]
  /\ PortOf(m[h + Len(addr) + 1], m[h + Len(addr) + 2]) = port

LEMMA RequestBytes ==
  ASSUME NEW cmd \in Nat, NEW atyp \in Nat, NEW addr \in Seq(Nat), NEW port \in Nat,
         NEW h, h = HeadLen(atyp)
  PROVE  RequestShape(RequestFor(cmd, atyp, addr, port), cmd, atyp, addr, port, h)
<1> DEFINE a == <<5, cmd, 0, atyp>>
           b == IF atyp = DOMAIN_NAME THEN Field(addr) ELSE addr
           y == <<port \div 256, port % 256>>
           m == RequestFor(cmd, atyp, addr, port)
           l == Len(addr)
           x == a \o b
           z == x \o y
           e == h - 4
<1>1. /\ a \in Seq(Nat) /\ Len(a) = 4 /\ a[1] = 5 /\ a[2] = cmd /\ a[3] = 0
      /\ a[4] = atyp
  OBVIOUS
<1>2. /\ b \in Seq(Nat) /\ Len(b) = l + e /\ l \in Nat /\ e \in {0, 1} /\ h = 4 + e
      /\ \A i \in 1 .. l : b[e + i] = addr[i]
      /\ atyp = DOMAIN_NAME => e = 1 /\ b[1] = l
  <2>1. CASE atyp = DOMAIN_NAME
    <3>1. b = Field(addr) /\ e = 1 /\ h = 5
      BY <2>1 DEF HeadLen
    <3>2. /\ Field(addr) \in Seq(Nat) /\ Len(Field(addr)) = l + 1 /\ l \in Nat
          /\ Field(addr)[1] = l /\ \A i \in 1 .. l : Field(addr)[i + 1] = addr[i]
      BY FieldBytes
    <3> HIDE DEF b, e, l
    <3> QED
      BY <3>1, <3>2
  <2>2. CASE atyp # DOMAIN_NAME
    <3>1. b = addr /\ e = 0 /\ h = 4 /\ l = Len(addr) /\ l \in Nat
      BY <2>2 DEF HeadLen
    <3> HIDE DEF b, e, l
    <3> QED
      BY <2>2, <3>1
  <2> QED
    BY <2>1, <2>2
<1>3. /\ y \in Seq(Nat) /\ Len(y) = 2 /\ PortOf(y[1], y[2]) = port
  <2>1. port \div 256 \in Nat /\ port % 256 \in Nat /\ (port \div 256) * 256 + (port % 256) = port
    OBVIOUS
  <2> DEFINE s == port \div 256
             t == port % 256
  <2>2. s \in Nat /\ t \in Nat /\ PortOf(s, t) = port /\ y = <<s, t>>
    BY <2>1 DEF PortOf
  <2> HIDE DEF s, t, y
  <2> QED
    BY <2>2
<1>4. m = z
  BY DEF RequestFor
<1> HIDE DEF a, b, y, m, l, e
<1>5. /\ x \in Seq(Nat) /\ Len(x) = 4 + Len(b)
      /\ \A i \in 1 .. 4 : x[i] = a[i]
      /\ \A i \in 1 .. Len(b) : x[4 + i] = b[i]
  <2>1. a \in Seq(Nat) /\ b \in Seq(Nat) /\ x = a \o b
    BY <1>1, <1>2
  <2> HIDE DEF x
  <2>2. /\ x \in Seq(Nat) /\ Len(x) = Len(a) + Len(b)
        /\ \A i \in 1 .. Len(a) : x[i] = a[i]
        /\ \A i \in 1 .. Len(b) : x[Len(a) + i] = b[i]
    BY <2>1, JoinBytes DEF Joins
  <2> QED
    BY <1>1, <2>2
<1> HIDE DEF x
<1>6. Len(x) = h + l /\ h + l \in Nat
  BY <1>2, <1>5
<1>7. /\ Len(z) = h + l + 2
      /\ \A i \in 1 .. h + l : z[i] = x[i]
      /\ \A i \in 1 .. 2 : z[h + l + i] = y[i]
  <2>1. x \in Seq(Nat) /\ y \in Seq(Nat) /\ h + l = Len(x) /\ z = x \o y
    BY <1>3, <1>5, <1>6
  <2> HIDE DEF z
  <2>2. /\ Len(z) = Len(x) + Len(y)
        /\ \A i \in 1 .. Len(x) : z[i] = x[i]
        /\ \A i \in 1 .. Len(y) : z[Len(x) + i] = y[i]
    BY <2>1, JoinBytes DEF Joins
  <2> QED
    BY <1>3, <1>6, <2>2
<1> HIDE DEF z
<1>8. ASSUME NEW i \in 1 .. 4 PROVE m[i] = a[i]
  BY <1>2, <1>4, <1>5, <1>7, SMTT(30)
<1>9. ASSUME NEW i \in 1 .. Len(b) PROVE m[4 + i] = b[i]
  BY <1>2, <1>4, <1>5, <1>7
<1>10. m[1] = 5 /\ m[2] = cmd /\ m[3] = 0 /\ m[4] = atyp
  BY <1>1, <1>8
<1>11. atyp = DOMAIN_NAME => m[5] = l
  <2> SUFFICES ASSUME atyp = DOMAIN_NAME PROVE m[5] = l
    OBVIOUS
  <2>1. 1 \in 1 .. Len(b) /\ 4 + 1 = 5
    BY <1>2
  <2> QED
    BY <1>2, <1>9, <2>1
<1>12. ASSUME NEW i \in 1 .. l PROVE m[h + i] = addr[i]
  <2>1. e + i \in 1 .. Len(b) /\ 4 + (e + i) = h + i
    BY <1>2
  <2> QED
    BY <1>2, <1>9, <2>1
<1>13. PortOf(m[h + l + 1], m[h + l + 2]) = port
  <2>1. 1 \in 1 .. 2 /\ 2 \in 1 .. 2
    OBVIOUS
  <2>2. m[h + l + 1] = y[1] /\ m[h + l + 2] = y[2]
    BY <1>4, <1>7, <2>1
  <2> QED
    BY <1>3, <2>2
<1>14. Len(m) = h + l + 2 /\ l \in Nat
  BY <1>2, <1>4, <1>7
<1> QED
  BY <1>10, <1>11, <1>12, <1>13, <1>14 DEF m, l, RequestShape

(* A greeting is taken for what it says, and only a malformed one is refused. *)
LEMMA HelloHeard ==
  ASSUME NEW p \in HelloParser, NEW q \in Seq(Nat), NEW n \in Nat,
         HelloIs(p, q, 0, n), p.state \in Ending,
         NEW d \in Dialogue, SaysWhatItMeans(d), Holds(q, 0, d.hello)
  PROVE  /\ p.state = "ERROR" => d.bad = "hello"
         /\ p.state = "DONE" =>
              /\ d.bad # "hello" /\ n = Len(d.hello)
              /\ p.has_noauth = (NO_AUTH \in d.methods)
              /\ p.has_userpass = (USERPASS \in d.methods)
<1>1. n > 0 /\ (q[1] # 5 => p.state = "ERROR") /\ (q[1] = 5 => p.state = "DONE")
  BY DEF HelloIs, hello_parser_init, Ending
<1>2. CASE d.bad = "hello"
  <2>1. Len(d.hello) > 0 /\ d.hello[1] # 5 /\ Len(d.hello) \in Nat
    BY <1>2 DEF SaysWhatItMeans, NotGreeting, Dialogue
  <2>2. q[1] # 5
    BY <2>1 DEF Holds
  <2> QED
    BY <1>1, <1>2, <2>2
<1>3. CASE d.bad # "hello"
  <2> DEFINE ms == SubSeq(d.hello, 3, Len(d.hello))
             l == Len(ms)
  <2>1. d.hello = Greeting(ms) /\ d.methods = {ms[i] : i \in 1 .. l}
    BY <1>3 DEF SaysWhatItMeans
  <2>2. ms \in Seq(Nat)
    <3>1. d.hello \in Seq(Nat)
      BY DEF Dialogue
    <3> QED
      BY <3>1, SMTT(30)
  <2>3. /\ Len(d.hello) = l + 2 /\ l \in Nat /\ d.hello[1] = 5 /\ d.hello[2] = l
        /\ \A i \in 1 .. l : d.hello[i + 2] = ms[i]
    <3> HIDE DEF ms
    <3> QED
      BY <2>1, <2>2, GreetingBytes, SMTT(30)
  <2> HIDE DEF ms, l
  <2>4. \A i \in 1 .. l + 2 : q[i] = d.hello[i]
    BY <2>3 DEF Holds
  <2>5. q[1] = 5 /\ q[2] = l /\ \A i \in 1 .. l : q[i + 2] = ms[i]
    BY <2>3, <2>4
  <2>6. p.state = "DONE"
    BY <1>1, <2>5
  <2>7. /\ n > 1 /\ n = l + 2
        /\ (p.has_noauth = TRUE) <=> \E i \in 3 .. n : q[i] = NO_AUTH
        /\ (p.has_userpass = TRUE) <=> \E i \in 3 .. n : q[i] = USERPASS
    <3>1. /\ n > 1 /\ p.remaining = q[2] + 2 - n /\ p.remaining >= 0
          /\ p.state = IF p.remaining = 0 THEN "DONE" ELSE "METHODS"
          /\ (p.has_noauth = TRUE) <=> \E i \in 3 .. n : q[0 + i] = NO_AUTH
          /\ (p.has_userpass = TRUE) <=> \E i \in 3 .. n : q[0 + i] = USERPASS
      BY <2>5, <2>6 DEF HelloIs, hello_parser_init
    <3>2. \A i \in 3 .. n : 0 + i = i
      OBVIOUS
    <3>3. n = l + 2
      BY <2>3, <2>5, <2>6, <3>1
    <3> QED
      BY <3>1, <3>2, <3>3
  <2>8. ASSUME NEW x PROVE (\E i \in 3 .. n : q[i] = x) <=> x \in d.methods
    <3>1. ASSUME NEW i \in 3 .. n, q[i] = x PROVE x \in d.methods
      <4>1. i - 2 \in 1 .. l /\ (i - 2) + 2 = i
        BY <2>3, <2>7
      <4> QED
        BY <2>1, <2>5, <3>1, <4>1
    <3>2. ASSUME x \in d.methods PROVE \E i \in 3 .. n : q[i] = x
      <4>1. PICK i \in 1 .. l : ms[i] = x
        BY <2>1, <3>2
      <4>2. i + 2 \in 3 .. n
        BY <2>3, <2>7
      <4> QED
        BY <2>5, <4>1, <4>2
    <3> QED
      BY <3>1, <3>2
  <2>9. p.has_noauth \in BOOLEAN /\ p.has_userpass \in BOOLEAN
    BY DEF HelloParser
  <2>10. /\ (p.has_noauth = TRUE) <=> NO_AUTH \in d.methods
         /\ (p.has_userpass = TRUE) <=> USERPASS \in d.methods
    BY <2>7, <2>8
  <2> QED
    BY <1>3, <2>3, <2>6, <2>7, <2>9, <2>10
<1> QED
  BY <1>2, <1>3

(* What stands in a stream from o on is a piece of it.                     *)
LEMMA PieceIs ==
  ASSUME NEW q \in Seq(Nat), NEW o \in Nat, NEW f \in Seq(Nat), o + Len(f) <= Len(q),
         \A i \in 1 .. Len(f) : q[o + i] = f[i]
  PROVE  SubSeq(q, o + 1, o + Len(f)) = f
<1> DEFINE l == Len(f)
           g == SubSeq(q, o + 1, o + l)
<1>1. l \in Nat /\ Len(q) \in Nat
  OBVIOUS
<1>2. o + 1 \in 1 .. Len(q) + 1 /\ o + l \in o .. Len(q) /\ o + l + 1 - (o + 1) = l
  BY <1>1
<1>3. /\ g \in Seq(Nat) /\ Len(g) = l
      /\ \A i \in 1 .. l : g[i] = q[o + i]
  <2> HIDE DEF l
  <2> QED
    BY <1>1, <1>2
<1> HIDE DEF g
<1>4. \A i \in 1 .. Len(g) : g[i] = f[i]
  BY <1>3
<1>5. g = f
  BY <1>3, <1>4, SeqEqual
<1> QED
  BY <1>5 DEF g

(* A login is taken for what it says, and only a malformed one is refused. *)
LEMMA AuthHeard ==
  ASSUME NEW p \in AuthParser, NEW q \in Seq(Nat), NEW o \in Nat, NEW j \in Nat,
         AuthIs(p, q, o, j), p.state \in Ending,
         NEW d \in Dialogue, SaysWhatItMeans(d), Holds(q, o, d.auth)
  PROVE  /\ p.state = "ERROR" => d.bad = "auth"
         /\ p.state = "DONE" =>
              /\ d.bad # "auth" /\ j = Len(d.auth)
              /\ p.username = d.user /\ p.password = d.pass
<1> DEFINE u == q[o + 2]
           w == q[o + u + 3]
<1>1. p.state = "DONE" =>
        /\ q[o + 1] = 1 /\ u \in Nat \ {0} /\ w \in Nat \ {0} /\ j = u + w + 3
        /\ p.username = SubSeq(q, o + 3, o + u + 2)
        /\ p.password = SubSeq(q, o + u + 4, o + j)
  <2> SUFFICES ASSUME p.state = "DONE"
               PROVE  /\ q[o + 1] = 1 /\ u \in Nat \ {0} /\ w \in Nat \ {0} /\ j = u + w + 3
                      /\ p.username = SubSeq(q, o + 3, o + u + 2)
                      /\ p.password = SubSeq(q, o + u + 4, o + j)
    OBVIOUS
  <2>1. q[o + 1] = 1 /\ BehindName(p, q, o, j, u)
    BY PhaseStates DEF AuthIs
  <2>2. u \in Nat \ {0} /\ p.username = SubSeq(q, o + 3, o + u + 2)
    BY <2>1 DEF BehindName
  <2>3. InPassword(p, q, o, j, u, w)
    BY <2>1 DEF BehindName
  <2>4. w \in Nat \ {0} /\ j = u + w + 3 /\ p.password = SubSeq(q, o + u + 4, o + j)
    BY <2>3 DEF InPassword
  <2> QED
    BY <2>1, <2>2, <2>4
<1>2. p.state = "ERROR" =>
        \/ q[o + 1] # 1
        \/ u = 0
        \/ u \in Nat \ {0} /\ w = 0
  BY PhaseStates DEF AuthIs, BehindName, InPassword
<1>3. Len(d.auth) \in Nat /\ \A i \in 1 .. Len(d.auth) : q[o + i] = d.auth[i]
  <2>1. d.auth \in Seq(Nat)
    BY DEF Dialogue
  <2> QED
    BY <2>1 DEF Holds
<1>4. CASE d.bad = "auth"
  <2>1. NotLogin(d.auth)
    BY <1>4 DEF SaysWhatItMeans
  <2>2. SUFFICES ASSUME p.state = "DONE" PROVE FALSE
    BY <1>4, <1>2 DEF Ending
  <2> DEFINE m == d.auth
             l == Len(m)
  <2>3. /\ q[o + 1] = 1 /\ u \in Nat \ {0} /\ w \in Nat \ {0} /\ l \in Nat
        /\ \A i \in 1 .. l : q[o + i] = m[i]
        /\ \/ l > 0 /\ m[1] # 1
           \/ l > 1 /\ (m[2] = 0 \/ (l > m[2] + 2 /\ m[m[2] + 3] = 0))
    BY <1>1, <1>3, <2>1, <2>2 DEF NotLogin
  <2> HIDE DEF m, l
  <2>4. l > 1
    BY <2>3
  <2>5. m[2] = u
    BY <2>3, <2>4
  <2>6. u + 3 \in 1 .. l /\ m[u + 3] = 0 /\ o + (u + 3) = o + u + 3
    <3> HIDE DEF u, w
    <3>1. u # 0 /\ l > u + 2 /\ m[u + 3] = 0
      BY <2>3, <2>4, <2>5
    <3> QED
      BY <3>1, <2>3
  <2>7. q[o + (u + 3)] = 0
    BY <2>3, <2>6
  <2> QED
    BY <2>3, <2>6, <2>7
<1>5. CASE d.bad # "auth"
  <2> DEFINE m == d.auth
             x == d.user
             y == d.pass
  <2>1. m = Login(x, y) /\ Len(x) > 0 /\ Len(y) > 0 /\ x \in Seq(Nat) /\ y \in Seq(Nat)
    BY <1>5 DEF SaysWhatItMeans, Dialogue
  <2>2. /\ Len(m) = Len(x) + Len(y) + 3 /\ Len(x) \in Nat /\ Len(y) \in Nat
        /\ m[1] = 1 /\ m[2] = Len(x) /\ m[Len(x) + 3] = Len(y)
        /\ \A i \in 1 .. Len(x) : m[i + 2] = x[i]
        /\ \A i \in 1 .. Len(y) : m[Len(x) + 3 + i] = y[i]
    <3> HIDE DEF m, x, y
    <3> QED
      BY <2>1, LoginBytes
  <2>3. Len(q) \in Nat /\ o + Len(m) <= Len(q) /\ \A i \in 1 .. Len(m) : q[o + i] = m[i]
    BY <1>3 DEF Holds
  <2> HIDE DEF m, x, y
  <2>4. q[o + 1] = 1
    <3>1. 1 \in 1 .. Len(m)
      BY <2>2
    <3> QED
      BY <2>2, <2>3, <3>1
  <2>5. u = Len(x)
    <3>1. 2 \in 1 .. Len(m)
      BY <2>2
    <3> QED
      BY <2>2, <2>3, <3>1
  <2>6. w = Len(y)
    <3>1. Len(x) + 3 \in 1 .. Len(m)
      BY <2>2
    <3>2. q[o + (Len(x) + 3)] = Len(y)
      BY <2>2, <2>3, <3>1
    <3>3. o + (Len(x) + 3) = o + Len(x) + 3
      BY <2>2
    <3> QED
      BY <2>5, <3>2, <3>3
  <2> HIDE DEF u, w
  <2>7. p.state = "DONE"
    BY <1>2, <2>1, <2>4, <2>5, <2>6 DEF Ending
  <2>8. /\ j = Len(m) /\ p.username = SubSeq(q, (o + 2) + 1, (o + 2) + Len(x))
        /\ p.password = SubSeq(q, (o + Len(x) + 3) + 1, (o + Len(x) + 3) + Len(y))
    <3>1. /\ o + 3 = (o + 2) + 1 /\ o + u + 2 = (o + 2) + Len(x)
          /\ o + u + 4 = (o + Len(x) + 3) + 1 /\ o + j = (o + Len(x) + 3) + Len(y)
          /\ j = Len(m)
      BY <1>1, <2>2, <2>5, <2>6, <2>7
    <3> QED
      BY <1>1, <2>7, <3>1
  <2>9. SubSeq(q, (o + 2) + 1, (o + 2) + Len(x)) = x
    <3>1. o + 2 \in Nat /\ o + 2 + Len(x) <= Len(q)
      BY <2>2, <2>3
    <3>2. ASSUME NEW i \in 1 .. Len(x) PROVE q[o + 2 + i] = x[i]
      <4>1. i + 2 \in 1 .. Len(m) /\ o + (i + 2) = o + 2 + i
        BY <2>2
      <4> QED
        BY <2>2, <2>3, <4>1
    <3> QED
      BY <2>1, <3>1, <3>2, PieceIs
  <2>10. SubSeq(q, (o + Len(x) + 3) + 1, (o + Len(x) + 3) + Len(y)) = y
    <3>1. o + Len(x) + 3 \in Nat /\ o + Len(x) + 3 + Len(y) <= Len(q)
      BY <2>2, <2>3
    <3>2. ASSUME NEW i \in 1 .. Len(y) PROVE q[o + Len(x) + 3 + i] = y[i]
      <4>1. Len(x) + 3 + i \in 1 .. Len(m) /\ o + (Len(x) + 3 + i) = o + Len(x) + 3 + i
        BY <2>2
      <4> QED
        BY <2>2, <2>3, <4>1
    <3> QED
      BY <2>1, <3>1, <3>2, PieceIs
  <2> QED
    BY <1>5, <2>7, <2>8, <2>9, <2>10 DEF m, x, y
<1> QED
  BY <1>4, <1>5

(* A request is taken for what it says, and only a malformed one is refused. *)
LEMMA RequestHeard ==
  ASSUME NEW p \in RequestParser, NEW q \in Seq(Nat), NEW o \in Nat, NEW j \in Nat,
         RequestIs(p, q, o, j), p.state \in Ending,
         NEW d \in Dialogue, SaysWhatItMeans(d), Holds(q, o, d.request)
  PROVE  /\ p.state = "ERROR" => d.bad = "request"
         /\ p.state = "DONE" =>
              /\ d.bad # "request" /\ j = Len(d.request)
              /\ p.cmd = d.cmd /\ p.atyp = d.atyp /\ p.addr = d.addr /\ p.port = d.port
<1> DEFINE k == q[o + 4]
           h == HeadLen(k)
           l == AddrLen(k, q[o + 5])
<1>1. p.state = "DONE" =>
        /\ q[o + 1] = 5 /\ p.cmd = q[o + 2] /\ q[o + 3] = 0 /\ k \in Kinds /\ p.atyp = k
        /\ l \in Nat \ {0} /\ h \in {4, 5} /\ j = h + l + 2
        /\ p.addr = SubSeq(q, o + h + 1, o + h + l)
        /\ p.port = PortOf(q[o + (h + l) + 1], q[o + (h + l) + 2])
  <2> SUFFICES ASSUME p.state = "DONE"
               PROVE  /\ q[o + 1] = 5 /\ p.cmd = q[o + 2] /\ q[o + 3] = 0 /\ k \in Kinds
                      /\ p.atyp = k
                      /\ l \in Nat \ {0} /\ h \in {4, 5} /\ j = h + l + 2
                      /\ p.addr = SubSeq(q, o + h + 1, o + h + l)
                      /\ p.port = PortOf(q[o + (h + l) + 1], q[o + (h + l) + 2])
    OBVIOUS
  <2>1. /\ q[o + 1] = 5 /\ p.cmd = q[o + 2] /\ q[o + 3] = 0 /\ TargetIs(p, q, o, j, k)
    BY RequestPhases DEF RequestIs
  <2>2. k \in Kinds /\ p.atyp = k /\ AddressIs(p, q, o, j, h, l)
    BY <2>1 DEF TargetIs
  <2>3. /\ h \in {4, 5} /\ l \in Nat \ {0} /\ p.addr = SubSeq(q, o + h + 1, o + h + l)
        /\ BehindAddress(p, q, o, j, h + l)
    BY <2>2, RequestPhases DEF AddressIs
  <2> HIDE DEF h, l
  <2>4. j = h + l + 2 /\ p.port = PortOf(q[o + (h + l) + 1], q[o + (h + l) + 2])
    BY <2>3 DEF BehindAddress, PortOf
  <2> QED
    BY <2>1, <2>2, <2>3, <2>4 DEF h, l
<1>2. p.state = "ERROR" =>
        \/ q[o + 1] # 5 \/ q[o + 3] # 0 \/ k \notin Kinds
        \/ k = DOMAIN_NAME /\ q[o + 5] = 0
  <2> SUFFICES ASSUME p.state = "ERROR"
               PROVE  \/ q[o + 1] # 5 \/ q[o + 3] # 0 \/ k \notin Kinds
                      \/ k = DOMAIN_NAME /\ q[o + 5] = 0
    OBVIOUS
  <2>1. q[o + 1] # 5 \/ q[o + 3] # 0 \/ TargetIs(p, q, o, j, k)
    BY RequestPhases DEF RequestIs
  <2>2. ~AddressIs(p, q, o, j, h, l)
    BY RequestPhases DEF AddressIs, BehindAddress
  <2> QED
    BY <2>1, <2>2 DEF TargetIs
<1>3. /\ Len(d.request) \in Nat /\ Len(q) \in Nat /\ o + Len(d.request) <= Len(q)
      /\ \A i \in 1 .. Len(d.request) : q[o + i] = d.request[i]
  <2>1. d.request \in Seq(Nat)
    BY DEF Dialogue
  <2>2. Len(d.request) \in Nat /\ Len(q) \in Nat
    BY <2>1
  <2> QED
    BY <2>2 DEF Holds
<1>4. CASE d.bad = "request"
  <2>1. NotRequest(d.request)
    BY <1>4 DEF SaysWhatItMeans
  <2>2. SUFFICES ASSUME p.state = "DONE" PROVE FALSE
    BY <1>4, <1>2 DEF Ending
  <2>3. k = DOMAIN_NAME => l = q[o + 5]
    BY DEF AddrLen, DOMAIN_NAME, IPV4, IPV6
  <2> DEFINE m == d.request
             n == Len(m)
  <2>4. /\ n \in Nat /\ \A i \in 1 .. n : q[o + i] = m[i]
        /\ \/ n > 0 /\ m[1] # 5
           \/ n > 2 /\ m[3] # 0
           \/ n > 3 /\ m[4] \notin Kinds
           \/ n > 4 /\ m[4] = DOMAIN_NAME /\ m[5] = 0
    BY <1>3, <2>1 DEF NotRequest, Kinds
  <2> HIDE DEF m, n, h, l
  <2>5. /\ n > 0 => q[o + 1] = m[1]
        /\ n > 2 => q[o + 3] = m[3]
        /\ n > 3 => q[o + 4] = m[4]
        /\ n > 4 => q[o + 5] = m[5]
    BY ONLY <2>4
  <2>6. /\ q[o + 1] = 5 /\ q[o + 3] = 0 /\ q[o + 4] \in Kinds
        /\ q[o + 4] = DOMAIN_NAME => q[o + 5] # 0
    BY <1>1, <2>2, <2>3
  <2>7. n > 4 /\ m[4] = DOMAIN_NAME /\ m[5] = 0
    <3>1. /\ n > 2 => m[3] = 0
          /\ n > 3 => m[4] \in Kinds
          /\ n > 0 => m[1] = 5
      BY <2>5, <2>6
    <3> QED
      BY <2>4, <3>1
  <2>8. q[o + 4] = DOMAIN_NAME /\ q[o + 5] = 0
    <3>1. n > 3
      BY <2>4, <2>7
    <3> QED
      BY <2>5, <2>7, <3>1
  <2> QED
    BY <2>6, <2>8
<1>5. CASE d.bad # "request"
  <2> DEFINE m == d.request
             x == d.addr
             t == d.atyp
             cmd == d.cmd
             port == d.port
  <2>1. /\ m = RequestFor(cmd, t, x, port) /\ t \in Kinds
        /\ cmd \in Nat /\ t \in Nat /\ x \in Seq(Nat) /\ port \in Nat
        /\ t = IPV4 => Len(x) = IPV4_LEN
        /\ t = IPV6 => Len(x) = IPV6_LEN
        /\ t = DOMAIN_NAME => Len(x) > 0
    BY <1>5 DEF SaysWhatItMeans, Dialogue, Kinds
  <2>2. /\ Len(m) = HeadLen(t) + Len(x) + 2 /\ Len(x) \in Nat
        /\ m[1] = 5 /\ m[2] = cmd /\ m[3] = 0 /\ m[4] = t
        /\ t = DOMAIN_NAME => m[5] = Len(x)
        /\ \A i \in 1 .. Len(x) : m[HeadLen(t) + i] = x[i]
        /\ PortOf(m[HeadLen(t) + Len(x) + 1], m[HeadLen(t) + Len(x) + 2]) = port
    <3> HIDE DEF m, x, t, cmd, port
    <3>1. RequestShape(m, cmd, t, x, port, HeadLen(t))
      BY <2>1, RequestBytes
    <3> QED
      BY ONLY <3>1 DEF RequestShape
  <2>3. HeadLen(t) \in {4, 5} /\ (t = DOMAIN_NAME => HeadLen(t) = 5)
    BY DEF HeadLen
  <2>4. Len(q) \in Nat /\ o + Len(m) <= Len(q) /\ \A i \in 1 .. Len(m) : q[o + i] = m[i]
    BY <1>3
  <2> HIDE DEF m, x, t
  <2>0. cmd = d.cmd /\ port = d.port
    OBVIOUS
  <2> HIDE DEF cmd, port
  <2>5. q[o + 1] = 5 /\ q[o + 2] = cmd /\ q[o + 3] = 0 /\ q[o + 4] = t
    <3>1. 1 \in 1 .. Len(m) /\ 2 \in 1 .. Len(m) /\ 3 \in 1 .. Len(m) /\ 4 \in 1 .. Len(m)
      BY <2>2, <2>3
    <3> QED
      BY <2>2, <2>4, <3>1
  <2>6. t = DOMAIN_NAME => q[o + 5] = Len(x)
    <3>1. 5 \in 1 .. Len(m)
      BY <2>2, <2>3
    <3> QED
      BY <2>2, <2>4, <3>1
  <2>7. k = t /\ h = HeadLen(t) /\ l = Len(x)
    BY <2>1, <2>5, <2>6 DEF AddrLen, Kinds, DOMAIN_NAME, IPV4, IPV6
  <2>8. p.state = "DONE"
    <3>1. k \in Kinds /\ (k = DOMAIN_NAME => q[o + 5] # 0)
      BY <2>1, <2>2, <2>6, <2>7
    <3> QED
      BY <1>2, <2>5, <3>1 DEF Ending
  <2> HIDE DEF k, h, l
  <2>9. /\ h \in {4, 5} /\ l \in Nat /\ j = h + l + 2 /\ Len(m) = h + l + 2
        /\ l = Len(x) /\ p.cmd = cmd /\ p.atyp = t
        /\ p.addr = SubSeq(q, o + h + 1, o + h + l)
        /\ p.port = PortOf(q[o + (h + l) + 1], q[o + (h + l) + 2])
        /\ \A i \in 1 .. l : m[h + i] = x[i]
        /\ PortOf(m[h + l + 1], m[h + l + 2]) = port
    BY <1>1, <2>2, <2>3, <2>5, <2>7, <2>8
  <2>12. o \in Nat /\ h \in {4, 5} /\ l \in Nat /\ Len(m) = h + l + 2 /\ l = Len(x)
    BY ONLY <2>9, o \in Nat
  <2>10. p.addr = x
    <3>1. o + h \in Nat /\ o + h + l <= Len(q)
      BY ONLY <2>4, <2>12
    <3>2. ASSUME NEW i \in 1 .. Len(x) PROVE q[o + h + i] = x[i]
      <4>1. h + i \in 1 .. Len(m) /\ o + (h + i) = o + h + i /\ i \in 1 .. l
        BY ONLY <2>12, i \in 1 .. Len(x)
      <4> QED
        BY <2>4, <2>9, <4>1
    <3> QED
      BY <2>1, <2>9, <3>1, <3>2, PieceIs
  <2>11. p.port = d.port
    <3>1. /\ h + l + 1 \in 1 .. Len(m) /\ o + (h + l + 1) = o + (h + l) + 1
          /\ h + l + 2 \in 1 .. Len(m) /\ o + (h + l + 2) = o + (h + l) + 2
      BY ONLY <2>12
    <3>2. q[o + (h + l) + 1] = m[h + l + 1] /\ q[o + (h + l) + 2] = m[h + l + 2]
      BY ONLY <2>4, <2>12, <3>1
    <3> QED
      BY <2>0, <2>9, <3>2
  <2> QED
    BY <1>5, <2>0, <2>8, <2>9, <2>10, <2>11 DEF m, x, t
<1> QED
  BY <1>4, <1>5

-----------------------------------------------------------------------------
(* The invariant.  c is the connection, d the dialogue, q what was sent, n *)
(* how much of it the parsers have taken.                                  *)

Reading == {"HELLO_READ", "AUTH_READ", "REQUEST_READ"}
Writing == {"HELLO_WRITE", "AUTH_WRITE", "REQUEST_WRITE"}

Conn ==
  [st : Reading \cup Writing \cup {"REQUEST_CONNECTING", "COPY", "DONE", "ERROR_STATE"},
   interest : {"OP_READ", "OP_WRITE", "OP_NOOP"},
   hello : HelloParser, auth : AuthParser, request : RequestParser,
   method : {NO_AUTH, USERPASS, NONE}, auth_ok : BOOLEAN, reply : Nat,
   read_buffer : BufferOf(Nat, DEFAULT_BUFFER),
   write_buffer : BufferOf(Nat, DEFAULT_BUFFER)]

Quiet(c) == c.write_buffer.bytes = <<>>

\* The greeting was answered, and the login if one was asked for.
Admitted(c) ==
  /\ c.hello.state = "DONE"
  /\ \/ c.method = NO_AUTH
     \/ c.method = USERPASS /\ c.auth.state = "DONE" /\ c.auth_ok = TRUE

\* What the state of the state machine says about the parsers.
Staged(c) ==
  /\ c.interest = (IF c.st \in Reading THEN "OP_READ"
                   ELSE IF c.st \in Writing THEN "OP_WRITE" ELSE "OP_NOOP")
  /\ c.st \in Reading \cup {"REQUEST_CONNECTING", "COPY"} => Quiet(c)
  /\ c.st \in Writing => ~Quiet(c)
  /\ c.hello.state # "DONE" =>
       /\ c.st \in {"HELLO_READ", "ERROR_STATE"}
       /\ c.auth = auth_parser_init /\ c.request = request_parser_init
  /\ c.method # USERPASS => c.auth = auth_parser_init
  /\ c.request # request_parser_init => Admitted(c)
  /\ c.st = "HELLO_READ" => c.hello.state \notin Ending
  /\ c.st = "HELLO_WRITE" => c.auth = auth_parser_init /\ c.request = request_parser_init
  /\ c.st = "AUTH_READ" =>
       /\ c.method = USERPASS /\ c.auth.state \notin Ending
       /\ c.request = request_parser_init
  /\ c.st = "AUTH_WRITE" =>
       /\ c.method = USERPASS /\ c.auth.state = "DONE"
       /\ c.request = request_parser_init
  /\ c.st = "REQUEST_READ" => Admitted(c) /\ c.request.state \notin Ending
  /\ c.st \in {"REQUEST_CONNECTING", "COPY"} => c.request.state = "DONE"
  /\ c.st = "REQUEST_WRITE" =>
       c.request.state \in Ending /\ (c.request.state = "ERROR" => c.reply # SUCCESS)
  /\ c.st = "DONE" =>
       \/ c.method = NONE \/ c.request.state \in Ending
       \/ c.method = USERPASS /\ c.auth.state = "DONE" /\ c.auth_ok = FALSE

\* The replies that were due, and nothing else, were written; o is what of it
\* has been sent.
HelloReply(c) == IF c.hello.state = "DONE" THEN <<5, c.method>> ELSE <<>>
AuthReply(c) ==
  IF c.auth.state = "DONE" THEN <<1, IF c.auth_ok THEN 0 ELSE 1>> ELSE <<>>
RequestReply(c, f) == <<5, c.reply, 0>> \o AddressBytes(f)
Decided(c) == c.request.state \in Ending /\ c.st # "REQUEST_CONNECTING"

Answered(c, o) ==
  /\ o \in Seq(Nat)
  /\ \E r \in IF Decided(c) THEN {RequestReply(c, f) : f \in Family} ELSE {<<>>} :
       o \o c.write_buffer.bytes = HelloReply(c) \o AuthReply(c) \o r

\* The buffer b holds what was received last, p bytes in all; the room of a
\* buffer is whole whenever it is empty.
Received(b, q, p) ==
  /\ b.bytes = <<>> => b.read = 0
  /\ q \in Seq(Nat) /\ p \in 0 .. Len(q) /\ Len(b.bytes) <= p
  /\ \A i \in 1 .. Len(b.bytes) : b.bytes[i] = q[p - Len(b.bytes) + i]

AuthMessage(c, d) == IF c.method = USERPASS THEN d.auth ELSE <<>>
Base(c, d) == Len(d.hello) + Len(AuthMessage(c, d))

\* Each parser is where the bytes it was given bring it, and one that is done
\* was given the message whole.
Heard(c, d, q, n) ==
  /\ c.hello.state = "ERROR" => d.bad = "hello"
  /\ c.auth.state = "ERROR" => d.bad = "auth"
  /\ c.request.state = "ERROR" => d.bad = "request"
  /\ c.hello.state = "DONE" =>
       /\ d.bad # "hello"
       /\ c.hello.has_noauth = (NO_AUTH \in d.methods)
       /\ c.hello.has_userpass = (USERPASS \in d.methods)
  /\ c.auth.state = "DONE" =>
       d.bad # "auth" /\ c.auth.username = d.user /\ c.auth.password = d.pass
  /\ c.request.state = "DONE" =>
       /\ d.bad # "request" /\ c.request.cmd = d.cmd /\ c.request.atyp = d.atyp
       /\ c.request.addr = d.addr /\ c.request.port = d.port
  /\ c.st = "HELLO_READ" => HelloIs(c.hello, q, 0, n)
  /\ c.st = "HELLO_WRITE" => n = Len(d.hello)
  /\ c.st = "AUTH_READ" =>
       n >= Len(d.hello) /\ AuthIs(c.auth, q, Len(d.hello), n - Len(d.hello))
  /\ c.st = "AUTH_WRITE" => n = Len(d.hello) + Len(d.auth)
  /\ c.st = "REQUEST_READ" =>
       n >= Base(c, d) /\ RequestIs(c.request, q, Base(c, d), n - Base(c, d))
  /\ /\ c.st \in {"REQUEST_CONNECTING", "REQUEST_WRITE", "COPY"}
     /\ c.request.state = "DONE"
     => n = Base(c, d) + Len(d.request)

\* What the client has sent; t is what it said last, e whether it is eager.
Turns == {"start", "hello", "auth", "request", "payload"}

Utterance(c, d, t) ==
  CASE t = "start"   -> <<>>
    [] t = "hello"   -> d.hello
    [] t = "auth"    -> d.hello \o d.auth
    [] t = "request" -> d.hello \o AuthMessage(c, d) \o d.request
    [] t = "payload" -> d.hello \o AuthMessage(c, d) \o d.request \o d.payload

Spoken(c, d, e, t, q) ==
  /\ e = TRUE =>
       /\ t = "payload" /\ q = Whole(d)
       /\ d.bad = "hello" \/ d.methods = {USERPASS} \/ USERPASS \notin d.methods
  /\ e = FALSE =>
       /\ t \in Turns /\ q = Utterance(c, d, t)
       /\ t = "auth" => c.method = USERPASS
       /\ c.hello.state # "DONE" \/ c.st = "HELLO_WRITE" => t \in {"start", "hello"}
       /\ c.st \in {"AUTH_READ", "AUTH_WRITE"} => t \in {"start", "hello", "auth"}
       /\ c.st \in Reading \cup {"HELLO_WRITE", "AUTH_WRITE"} => c.read_buffer.bytes = <<>>

\* The directory and the configuration there have been, x; the last is current.
Tables == {t \in [Slot -> [used : BOOLEAN, name : Seq(Nat), pass : Seq(Nat)]] : IsTable(t)}

Entry == {[users |-> AsMap(t), required |-> r] : t \in Tables, r \in BOOLEAN}

Kept(t, g, x) ==
  /\ t \in Tables
  /\ g \in [io_buffer_size : {DEFAULT_BUFFER}, conn_timeout_secs : {0},
            auth_required : BOOLEAN, admin : [name : Seq(Nat), pass : Seq(Nat)]]
  /\ x \in Seq(Entry) /\ Len(x) > 0
  /\ x[Len(x)] = [users |-> AsMap(t), required |-> g.auth_required]

\* What a connection was granted or refused was right at some time.
Knows(m, name, pass) == name \in DOMAIN m /\ m[name] = pass

Granted(c, x) ==
  /\ c.hello.state = "DONE" =>
       /\ c.method = NO_AUTH =>
            c.hello.has_noauth = TRUE /\ \E i \in 1 .. Len(x) : x[i].required = FALSE
       /\ c.method = USERPASS => c.hello.has_userpass = TRUE
       /\ c.method = NONE =>
            /\ c.hello.has_userpass = FALSE
            /\ c.hello.has_noauth = FALSE \/ \E i \in 1 .. Len(x) : x[i].required = TRUE
  /\ c.auth.state = "DONE" =>
       \E i \in 1 .. Len(x) :
         (c.auth_ok = TRUE) <=>
           Knows(x[i].users, CString(c.auth.username), CString(c.auth.password))

Caused(c, d, e, g) ==
  c.st = "ERROR_STATE" =>
    \/ g = TRUE \/ d.bad \in {"hello", "auth"}
    \/ e = TRUE /\ WriteSpace(c.read_buffer) = 0

\* The connection as c, p bytes received and o sent to the client.
Good(c, p, o) ==
  /\ c \in Conn /\ Staged(c)
  /\ Answered(c, o)
  /\ Received(c.read_buffer, sent, p)
  /\ Heard(c, dialogue, sent, p - Len(c.read_buffer.bytes))
  /\ Spoken(c, dialogue, eager, turn, sent)
  /\ Granted(c, past)
  /\ Caused(c, dialogue, eager, gone)

HandshakeInv ==
  /\ dialogue \in Dialogues /\ eager \in BOOLEAN /\ gone \in BOOLEAN
  /\ Kept(db, cfg, past)
  /\ Good(conn, pos, out)

-----------------------------------------------------------------------------
(* Buffers and connections.                                                *)

\* The buffer b2 still holds what of the p bytes received was not taken, and k
\* more bytes have been taken than when it was b and m had been received.
Keeps(z, b, b2, q, m, p, k) ==
  /\ b2 \in BufferOf(Nat, z) /\ Received(b2, q, p)
  /\ p - Len(b2.bytes) = m - Len(b.bytes) + k

(* recv puts the next bytes behind those that are there.                   *)
LEMMA ReceivedMore ==
  ASSUME NEW z \in Nat, NEW b \in BufferOf(Nat, z), NEW q, NEW p, Received(b, q, p),
         NEW n \in Nat, n <= Len(q) - p, n <= WriteSpace(b),
         NEW b2, b2 = buffer_write_adv(b, SubSeq(q, p + 1, p + n))
  PROVE  Keeps(z, b, b2, q, p, p + n, 0)
<1> DEFINE f == SubSeq(q, p + 1, p + n)
           s == b.bytes
           t == b2.bytes
<1>0. q \in Seq(Nat) /\ p \in Nat /\ Len(q) \in Nat /\ p <= Len(q) /\ Len(s) <= p
  <2>1. q \in Seq(Nat) /\ p \in 0 .. Len(q) /\ Len(s) <= p
    BY DEF Received
  <2>2. Len(q) \in Nat
    BY <2>1
  <2> HIDE DEF s
  <2> QED
    BY <2>1, <2>2
<1>1. \A i \in 1 .. Len(s) : s[i] = q[p - Len(s) + i]
  BY DEF Received
<1>2. f \in Seq(Nat) /\ Len(f) = n /\ \A i \in 1 .. n : f[i] = q[p + i]
  BY <1>0
<1>3. /\ b.size = z /\ b.read \in Nat /\ s \in Seq(Nat) /\ Len(s) \in Nat
      /\ WriteSpace(b) = z - (b.read + Len(s))
  BY BufferFields
<1> HIDE DEF f
<1>9. b2 \in BufferOf(Nat, z) /\ t = s \o f
  <2>1. b2 = buffer_write_adv(b, f)
    BY DEF f
  <2>2. b.read + Len(s) + Len(f) <= z
    BY <1>2, <1>3
  <2>3. Len(f) <= WriteSpace(b)
    BY <1>2
  <2> QED
    BY <1>2, <2>1, <2>2, <2>3, WriteAdvFits
<1> HIDE DEF s, t
<1>8. /\ Len(t) = Len(s) + n
      /\ \A i \in 1 .. Len(s) : t[i] = s[i]
      /\ \A i \in 1 .. n : t[Len(s) + i] = f[i]
  <2>1. /\ Len(t) = Len(s) + Len(f) /\ \A i \in 1 .. Len(s) : t[i] = s[i]
        /\ \A i \in 1 .. Len(f) : t[Len(s) + i] = f[i]
    <3>1. Joins(s, f, t)
      BY <1>2, <1>3, <1>9, JoinBytes
    <3> QED
      BY ONLY <3>1 DEF Joins
  <2> QED
    BY <1>2, <2>1
<1>4. Len(t) = Len(s) + n
  BY <1>8
<1>5. /\ \A i \in 1 .. Len(s) : t[i] = s[i]
      /\ \A i \in 1 .. n : t[Len(s) + i] = f[i]
  BY <1>8
<1> DEFINE v == p + n
<1>11. v = p + n /\ v \in Nat
  BY <1>0
<1> HIDE DEF v
<1>6. ASSUME NEW i \in 1 .. Len(t) PROVE t[i] = q[v - Len(t) + i]
  <2>1. CASE i <= Len(s)
    <3>1. i \in 1 .. Len(s) /\ v - Len(t) + i = p - Len(s) + i
      BY <1>0, <1>11, <1>3, <1>4, <2>1
    <3> QED
      BY <1>1, <1>5, <3>1
  <2>2. CASE i > Len(s)
    <3> DEFINE j == i - Len(s)
    <3>1. j \in 1 .. n /\ Len(s) + j = i /\ v - Len(t) + i = p + j
      BY <1>0, <1>11, <1>3, <1>4, <2>2
    <3> HIDE DEF j
    <3>2. t[Len(s) + j] = f[j] /\ f[j] = q[p + j]
      BY <1>2, <1>5, <3>1
    <3> QED
      BY <3>1, <3>2
  <2> QED
    BY <1>3, <1>5, <2>1, <2>2
<1>7. p + n \in 0 .. Len(q) /\ Len(t) <= p + n /\ p + n - Len(t) = p - Len(s)
  BY <1>0, <1>3, <1>4
<1>10. Received(b2, q, p + n)
  <2>1. v \in 0 .. Len(q) /\ Len(t) <= v
    BY <1>7, <1>11
  <2>3. t = <<>> => b2.read = 0
    <3>1. b2.read = b.read
      <4>1. b \in [size : {z}, read : Nat, bytes : Seq(Nat)]
        BY BufferFields
      <4> QED
        BY <4>1 DEF buffer_write_adv
    <3>2. t = <<>> => s = <<>>
      <4>1. t = <<>> => Len(t) = 0
        OBVIOUS
      <4> QED
        BY <1>3, <1>4, <4>1
    <3>3. s = <<>> => b.read = 0
      BY DEF Received, s
    <3> QED
      BY <3>1, <3>2, <3>3
  <2>2. Received(b2, q, v)
    BY <1>0, <1>6, <2>1, <2>3 DEF Received, t
  <2> QED
    BY <2>2 DEF v
<1> QED
  <2>1. v - Len(t) = p - Len(s) + 0
    BY <1>0, <1>3, <1>4, <1>11
  <2>2. Received(b2, q, v)
    BY <1>10 DEF v
  <2>3. Keeps(z, b, b2, q, p, v, 0)
    BY <1>9, <2>1, <2>2 DEF Keeps, s, t
  <2> QED
    BY <2>3 DEF v

(* What a parser takes are the first bytes of the buffer.                  *)
LEMMA ReceivedLess ==
  ASSUME NEW z \in Nat, NEW b \in BufferOf(Nat, z), NEW q, NEW p, Received(b, q, p),
         NEW k \in 0 .. Len(b.bytes), NEW b2, b2 = buffer_read_adv(b, k)
  PROVE  Keeps(z, b, b2, q, p, p, k) /\ (k = Len(b.bytes) => b2.bytes = <<>>)
<1> DEFINE s == b.bytes
           t == b2.bytes
           a == SubSeq(s, 1, k)
<1>8. q \in Seq(Nat) /\ p \in Nat /\ Len(q) \in Nat /\ p <= Len(q) /\ Len(s) <= p
  <2>1. q \in Seq(Nat) /\ p \in 0 .. Len(q) /\ Len(s) <= p
    BY DEF Received
  <2>2. Len(q) \in Nat
    BY <2>1
  <2> HIDE DEF s
  <2> QED
    BY <2>1, <2>2
<1>1. \A i \in 1 .. Len(s) : s[i] = q[p - Len(s) + i]
  BY DEF Received
<1>2. /\ b2 \in BufferOf(Nat, z) /\ a \o t = s /\ a \in Seq(Nat) /\ Len(a) = k
  BY ReadAdvDrops, ZenonT(40)
<1>3. t \in Seq(Nat) /\ Len(t) \in Nat /\ s \in Seq(Nat) /\ Len(s) \in Nat
  BY <1>2, BufferFields
<1> HIDE DEF a, s, t
<1>4. Len(s) = k + Len(t) /\ \A i \in 1 .. Len(t) : s[k + i] = t[i]
  <2>1. Len(s) = Len(a) + Len(t) /\ \A i \in 1 .. Len(t) : s[Len(a) + i] = t[i]
    <3>1. Joins(a, t, s)
      BY <1>2, <1>3, JoinBytes
    <3> QED
      BY ONLY <3>1 DEF Joins
  <2> QED
    BY <1>2, <2>1
<1>0. k \in Nat /\ Len(s) = k + Len(t)
  BY <1>4 DEF s
<1>5. ASSUME NEW i \in 1 .. Len(t) PROVE t[i] = q[p - Len(t) + i]
  <2>1. k + i \in 1 .. Len(s) /\ p - Len(s) + (k + i) = p - Len(t) + i
    BY <1>0, <1>3, <1>8
  <2> QED
    BY <1>1, <1>4, <2>1
<1>6. Len(t) <= p /\ p - Len(t) = p - Len(s) + k
  BY <1>0, <1>3, <1>8
<1>7. k = Len(s) => t = <<>>
  <2> SUFFICES ASSUME k = Len(s) PROVE t = <<>>
    OBVIOUS
  <2>1. Len(t) = 0
    BY <1>0, <1>3
  <2> QED
    BY <1>3, <2>1
<1>9. Received(b2, q, p)
  <2>1. p \in 0 .. Len(q)
    BY <1>8
  <2>2. t = <<>> => b2.read = 0
    <3>1. b \in [size : {z}, read : Nat, bytes : Seq(Nat)]
      BY BufferFields
    <3> DEFINE rest == SubSeq(b.bytes, k + 1, Len(b.bytes))
               adv == [b EXCEPT !.read = @ + k, !.bytes = rest]
    <3>2. adv.bytes = rest /\ [adv EXCEPT !.read = 0].bytes = rest
            /\ [adv EXCEPT !.read = 0].read = 0
      BY <3>1
    <3>3. b2 = IF rest = <<>> THEN [adv EXCEPT !.read = 0] ELSE adv
      BY DEF buffer_read_adv, buffer_compact
    <3> HIDE DEF adv, rest
    <3> QED
      BY <3>2, <3>3 DEF t
  <2> QED
    BY <1>5, <1>6, <1>8, <2>1, <2>2 DEF Received, t
<1> QED
  BY <1>2, <1>6, <1>7, <1>9 DEF Keeps, s, t

(* What was received stays when more is sent.                              *)
LEMMA ReceivedStill ==
  ASSUME NEW b, b.bytes \in Seq(Nat), NEW q, NEW p, Received(b, q, p),
         NEW f \in Seq(Nat), NEW q2, q2 = q \o f
  PROVE  Received(b, q2, p)
<1> DEFINE s == b.bytes
<1>1. q \in Seq(Nat) /\ p \in Nat /\ Len(q) \in Nat /\ p <= Len(q)
      /\ Len(s) \in Nat /\ Len(s) <= p
  <2>1. q \in Seq(Nat) /\ p \in 0 .. Len(q) /\ Len(s) <= p
    BY DEF Received
  <2>2. Len(q) \in Nat /\ Len(s) \in Nat
    BY <2>1
  <2> HIDE DEF s
  <2> QED
    BY <2>1, <2>2
<1>2. \A i \in 1 .. Len(s) : s[i] = q[p - Len(s) + i]
  BY DEF Received
<1> HIDE DEF s
<1>3. /\ q2 \in Seq(Nat) /\ Len(q2) = Len(q) + Len(f) /\ Len(f) \in Nat
      /\ \A i \in 1 .. Len(q) : q2[i] = q[i]
  BY <1>1, JoinBytes DEF Joins
<1>4. ASSUME NEW i \in 1 .. Len(s) PROVE s[i] = q2[p - Len(s) + i]
  <2>1. p - Len(s) + i \in 1 .. Len(q)
    BY <1>1
  <2> QED
    BY <1>2, <1>3, <2>1
<1>5. p \in 0 .. Len(q2)
  BY <1>1, <1>3
<1>6. s = <<>> => b.read = 0
  BY DEF Received, s
<1> QED
  BY <1>1, <1>3, <1>4, <1>5, <1>6 DEF Received, s

(* A reply that fits takes the place of what was in the write buffer.      *)
LEMMA ReplyTakesPlace ==
  ASSUME NEW z \in Nat, NEW b \in BufferOf(Nat, z), NEW f \in Seq(Nat), Len(f) <= z,
         NEW b2, b2 = buffer_write(buffer_reset(b), f)
  PROVE  b2 \in BufferOf(Nat, z) /\ b2.bytes = f
<1> DEFINE e == buffer_reset(b)
<1>1. b \in [size : {z}, read : Nat, bytes : Seq(Nat)]
  BY BufferFields
<1>2. e \in [size : {z}, read : Nat, bytes : Seq(Nat)] /\ e.read = 0 /\ e.bytes = <<>>
        /\ e.size = z
  <2>1. <<>> \in Seq(Nat)
    OBVIOUS
  <2>2. e = [b EXCEPT !.read = 0, !.bytes = <<>>]
    BY DEF buffer_reset
  <2> HIDE DEF e
  <2> QED
    BY <1>1, <2>1, <2>2
<1>3. e \in BufferOf(Nat, z)
  <2> HIDE DEF e
  <2> QED
    BY <1>2, BufferIn
<1> HIDE DEF e
<1>4. WriteSpace(e) = z
  <2>1. WriteSpace(e) = z - (0 + Len(<<>>)) /\ Len(<<>>) = 0
    BY <1>2 DEF WriteSpace
  <2> QED
    BY <2>1
<1>5. b2 = buffer_write_adv(e, f)
  BY <1>4 DEF buffer_write, e
<1>6. b2 \in BufferOf(Nat, z) /\ b2.bytes = e.bytes \o f
  <2>1. Len(f) <= WriteSpace(e)
    BY <1>4
  <2> QED
    BY <1>3, <1>5, <2>1, WriteAdvFits
<1> QED
  BY <1>2, <1>6

-----------------------------------------------------------------------------
(* The handlers.                                                           *)

(* What the fields of a connection are.                                    *)
LEMMA ConnFields ==
  ASSUME NEW c \in Conn
  PROVE  /\ c.hello \in HelloParser /\ c.auth \in AuthParser /\ c.request \in RequestParser
         /\ c.read_buffer \in BufferOf(Nat, DEFAULT_BUFFER)
         /\ c.write_buffer \in BufferOf(Nat, DEFAULT_BUFFER)
         /\ c.read_buffer.bytes \in Seq(Nat) /\ c.write_buffer.bytes \in Seq(Nat)
         /\ Len(c.read_buffer.bytes) \in Nat /\ Len(c.write_buffer.bytes) \in Nat
         /\ c.method \in {NO_AUTH, USERPASS, NONE} /\ c.auth_ok \in BOOLEAN
         /\ c.reply \in Nat
<1>1. DEFAULT_BUFFER \in Nat
  BY StartupAssumption
<1>2. /\ c.read_buffer \in BufferOf(Nat, DEFAULT_BUFFER)
      /\ c.write_buffer \in BufferOf(Nat, DEFAULT_BUFFER)
  BY DEF Conn
<1>3. /\ c.read_buffer.bytes \in Seq(Nat) /\ c.write_buffer.bytes \in Seq(Nat)
      /\ Len(c.read_buffer.bytes) \in Nat /\ Len(c.write_buffer.bytes) \in Nat
  BY <1>1, <1>2, BufferFields
<1> QED
  BY <1>2, <1>3 DEF Conn

(* A reply is put into the write buffer; nothing else but st changes.      *)
Other(c, c2) ==
  /\ c2.hello = c.hello /\ c2.auth = c.auth /\ c2.request = c.request
  /\ c2.method = c.method /\ c2.auth_ok = c.auth_ok /\ c2.reply = c.reply
  /\ c2.read_buffer = c.read_buffer

LEMMA RepliesIs ==
  ASSUME NEW c \in Conn, NEW f \in Seq(Nat), Len(f) <= DEFAULT_BUFFER,
         NEW st \in Writing
  PROVE  LET c2 == Replies(c, f, st)
         IN  /\ c2 \in Conn /\ c2.st = st /\ c2.interest = "OP_WRITE"
             /\ c2.write_buffer.bytes = f /\ Other(c, c2)
<1> DEFINE c2 == Replies(c, f, st)
           b2 == buffer_write(buffer_reset(c.write_buffer), f)
<1>1. b2 \in BufferOf(Nat, DEFAULT_BUFFER) /\ b2.bytes = f
  BY ConnFields, ReplyTakesPlace, StartupAssumption
<1>2. c2 = [c EXCEPT !.write_buffer = b2, !.st = st, !.interest = "OP_WRITE"]
  BY DEF Replies
<1> HIDE DEF c2, b2
<1>3. c2 \in Conn
  BY <1>1, <1>2 DEF Conn
<1>4. /\ c2.st = st /\ c2.interest = "OP_WRITE" /\ c2.write_buffer = b2
      /\ Other(c, c2)
  BY <1>2 DEF Conn, Other
<1> QED
  BY <1>1, <1>3, <1>4 DEF c2

LEMMA EndedIs ==
  ASSUME NEW c \in Conn, NEW st \in {"COPY", "DONE", "ERROR_STATE"}
  PROVE  LET c2 == Ended(c, st)
         IN  /\ c2 \in Conn /\ c2.st = st /\ c2.interest = "OP_NOOP"
             /\ c2.write_buffer = c.write_buffer /\ Other(c, c2)
BY DEF Ended, Conn, Other

LEMMA ListensIs ==
  ASSUME NEW c \in Conn, NEW st \in Reading
  PROVE  LET c2 == Listens(c, st)
         IN  /\ c2 \in Conn /\ c2.st = st /\ c2.interest = "OP_READ"
             /\ c2.write_buffer = c.write_buffer /\ Other(c, c2)
BY DEF Listens, Conn, Other

(* The last byte of the reply says nothing about how long it is.           *)
LEMMA AddressFits ==
  ASSUME NEW f \in Family
  PROVE  /\ AddressBytes(f) \in Seq(Nat)
         /\ Len(AddressBytes(f)) \in Nat /\ Len(AddressBytes(f)) >= 1
         /\ Len(AddressBytes(f)) + 3 <= DEFAULT_BUFFER
<1>1. /\ IPV4_LEN \in Nat /\ IPV6_LEN \in Nat /\ BOUND \in Nat /\ DEFAULT_BUFFER \in Nat
      /\ IPV4_LEN + 6 <= DEFAULT_BUFFER /\ IPV6_LEN + 6 <= DEFAULT_BUFFER
  BY HandshakeAssumption, StartupAssumption
<1>2. ASSUME NEW x \in Nat, NEW l \in Nat, NEW y \in Nat, l + 6 <= DEFAULT_BUFFER,
             AddressBytes(f) = <<x>> \o [i \in 1 .. l + 2 |-> y]
      PROVE  /\ AddressBytes(f) \in Seq(Nat)
             /\ Len(AddressBytes(f)) \in Nat /\ Len(AddressBytes(f)) >= 1
             /\ Len(AddressBytes(f)) + 3 <= DEFAULT_BUFFER
  <2> DEFINE g == [i \in 1 .. l + 2 |-> y]
             a == AddressBytes(f)
  <2>1. g \in Seq(Nat) /\ Len(g) = l + 2
    OBVIOUS
  <2>2. a = <<x>> \o g
    BY <1>2
  <2> HIDE DEF g, a
  <2>3. a \in Seq(Nat) /\ Len(a) = l + 3
    BY <2>1, <2>2, FirstByte
  <2>4. Len(a) \in Nat /\ Len(a) >= 1 /\ Len(a) + 3 <= DEFAULT_BUFFER
    BY <1>1, <1>2, <2>3
  <2> QED
    BY <2>3, <2>4 DEF a
<1>3. \/ AddressBytes(f) = <<IPV6>> \o [i \in 1 .. IPV6_LEN + 2 |-> BOUND]
      \/ AddressBytes(f) = <<IPV4>> \o [i \in 1 .. IPV4_LEN + 2 |-> BOUND]
      \/ AddressBytes(f) = <<IPV4>> \o [i \in 1 .. IPV4_LEN + 2 |-> 0]
  <2> DEFINE x == <<IPV6>> \o [i \in 1 .. IPV6_LEN + 2 |-> BOUND]
             y == <<IPV4>> \o [i \in 1 .. IPV4_LEN + 2 |-> BOUND]
             w == <<IPV4>> \o [i \in 1 .. IPV4_LEN + 2 |-> 0]
  <2>1. AddressBytes(f) = CASE f = IPV6 -> x [] f = IPV4 -> y [] OTHER -> w
    BY DEF AddressBytes
  <2> HIDE DEF x, y, w
  <2>2. AddressBytes(f) = x \/ AddressBytes(f) = y \/ AddressBytes(f) = w
    BY <2>1 DEF Family, IPV4, IPV6, NONE
  <2> QED
    BY <2>2 DEF x, y, w
<1>4. IPV4 \in Nat /\ IPV6 \in Nat /\ 0 \in Nat
  BY DEF IPV4, IPV6
<1> QED
  BY <1>1, <1>2, <1>3, <1>4

LEMMA ReplyFits ==
  ASSUME NEW rep \in Nat, NEW f \in Family
  PROVE  LET r == <<5, rep, 0>> \o AddressBytes(f)
         IN  /\ r \in Seq(Nat) /\ Len(r) <= DEFAULT_BUFFER /\ r # <<>>
             /\ Len(r) > 3
<1> DEFINE a == AddressBytes(f)
           b == <<5, rep, 0>>
           r == b \o a
<1>1. a \in Seq(Nat) /\ Len(a) \in Nat /\ Len(a) >= 1 /\ Len(a) + 3 <= DEFAULT_BUFFER
  BY AddressFits
<1>2. b \in Seq(Nat) /\ Len(b) = 3 /\ DEFAULT_BUFFER \in Nat
  BY StartupAssumption
<1> HIDE DEF a, b
<1>6. r = b \o a
  OBVIOUS
<1> HIDE DEF r
<1>3. r \in Seq(Nat) /\ Len(r) = Len(b) + Len(a)
  <2>1. Joins(b, a, r)
    BY <1>1, <1>2, <1>6, JoinBytes
  <2> QED
    BY ONLY <2>1 DEF Joins
<1>4. Len(r) <= DEFAULT_BUFFER /\ Len(r) > 3
  BY <1>1, <1>2, <1>3
<1>5. r # <<>>
  BY <1>4
<1> QED
  BY <1>3, <1>4, <1>5 DEF r, a, b

(* What the client has sent holds the message a parser is about to read.   *)
LEMMA JoinHolds ==
  ASSUME NEW h \in Seq(Nat), NEW a \in Seq(Nat), NEW q, q = h \o a
  PROVE  /\ q \in Seq(Nat) /\ Len(q) = Len(h) + Len(a) /\ Len(h) \in Nat /\ Len(a) \in Nat
         /\ Holds(q, 0, h) /\ Holds(q, Len(h), a)
<1>1. Joins(h, a, q)
  BY JoinBytes
<1>2. /\ q \in Seq(Nat) /\ Len(q) = Len(h) + Len(a) /\ Len(h) \in Nat /\ Len(a) \in Nat
  BY <1>1 DEF Joins
<1>3. \A i \in 1 .. Len(h) : q[0 + i] = h[i]
  BY <1>1, <1>2 DEF Joins
<1>4. Holds(q, 0, h)
  BY <1>2, <1>3 DEF Holds
<1>5. Holds(q, Len(h), a)
  BY <1>1, <1>2 DEF Joins, Holds
<1> QED
  BY <1>2, <1>4, <1>5

LEMMA JoinNothing ==
  ASSUME NEW a \in Seq(Nat), NEW b \in Seq(Nat)
  PROVE  /\ a \o b \in Seq(Nat) /\ a \o <<>> = a /\ <<>> \o a = a
         /\ (a \o b) \o <<>> = a \o b
<1>1. \A x \in Seq(Nat) : x \o <<>> = x /\ <<>> \o x = x
  OBVIOUS
<1>2. a \o b \in Seq(Nat)
  OBVIOUS
<1> QED
  BY <1>1, <1>2

LEMMA HoldsStill ==
  ASSUME NEW q \in Seq(Nat), NEW f \in Seq(Nat), NEW q2, q2 = q \o f,
         NEW o \in Nat, NEW m \in Seq(Nat), Holds(q, o, m)
  PROVE  Holds(q2, o, m)
<1>1. Joins(q, f, q2)
  BY JoinBytes
<1>2. /\ o + Len(m) <= Len(q) /\ Len(m) \in Nat /\ Len(q) \in Nat
  BY DEF Holds
<1>3. ASSUME NEW i \in 1 .. Len(m) PROVE q2[o + i] = m[i]
  <2>1. o + i \in 1 .. Len(q)
    BY <1>2
  <2> QED
    BY <1>1, <2>1 DEF Joins, Holds
<1>4. Len(q2) = Len(q) + Len(f) /\ Len(f) \in Nat
  BY <1>1 DEF Joins
<1> QED
  BY <1>2, <1>3, <1>4 DEF Holds

\* The messages h, a and r, as far as they have been sent.
Messages(q, h, a, r) ==
  /\ q \in Seq(Nat)
  /\ Len(q) > 0 => Holds(q, 0, h)
  /\ Len(q) > Len(h) => Holds(q, Len(h), a)
  /\ Len(q) > Len(h) + Len(a) => Holds(q, Len(h) + Len(a), r)

LEMMA SaidMessages ==
  ASSUME NEW h \in Seq(Nat), NEW a \in Seq(Nat), NEW r \in Seq(Nat), NEW f \in Seq(Nat),
         NEW q, q \in {<<>>, h, h \o a, h \o a \o r, h \o a \o r \o f}
  PROVE  Messages(q, h, a, r)
<1> DEFINE x == h \o a
           y == x \o r
           z == y \o f
<1>1. /\ x \in Seq(Nat) /\ Len(x) = Len(h) + Len(a) /\ Len(h) \in Nat /\ Len(a) \in Nat
      /\ Holds(x, 0, h) /\ Holds(x, Len(h), a)
  BY JoinHolds
<1>2. q \in {<<>>, h, x, y, z}
  OBVIOUS
<1> HIDE DEF x
<1>3. /\ y \in Seq(Nat) /\ Holds(y, Len(x), r) /\ Holds(y, 0, h) /\ Holds(y, Len(h), a)
  <2>1. y \in Seq(Nat) /\ Holds(y, Len(x), r)
    BY <1>1, JoinHolds
  <2>2. Holds(y, 0, h) /\ Holds(y, Len(h), a)
    BY <1>1, HoldsStill
  <2> QED
    BY <2>1, <2>2
<1> HIDE DEF y
<1>4. /\ z \in Seq(Nat) /\ Holds(z, Len(x), r) /\ Holds(z, 0, h) /\ Holds(z, Len(h), a)
  <2>1. z \in Seq(Nat)
    BY <1>3, JoinHolds
  <2>3. Len(x) \in Nat /\ Len(h) \in Nat /\ 0 \in Nat /\ z = y \o f
    BY <1>1
  <2> HIDE DEF z
  <2>2. Holds(z, 0, h) /\ Holds(z, Len(h), a) /\ Holds(z, Len(x), r)
    BY <1>3, <2>3, HoldsStill
  <2> QED
    BY <2>1, <2>2
<1> HIDE DEF z
<1>5. Holds(h, 0, h)
  BY <1>1 DEF Holds
<1>6. CASE q = <<>>
  BY <1>1, <1>6 DEF Messages
<1>7. CASE q = h
  BY <1>1, <1>5, <1>7 DEF Messages
<1>8. CASE q = x
  BY <1>1, <1>8 DEF Messages
<1>9. CASE q \in {y, z}
  BY <1>1, <1>3, <1>4, <1>9 DEF Messages
<1> QED
  BY <1>2, <1>6, <1>7, <1>8, <1>9

\* The method suits what the client offers; the one of an eager client is the
\* only one it offers.
Suits(c, d) ==
  /\ c.hello.state = "DONE" /\ d.bad # "hello"
  /\ \/ c.method = NO_AUTH /\ NO_AUTH \in d.methods
     \/ c.method = USERPASS /\ USERPASS \in d.methods

LEMMA SpokenMessages ==
  ASSUME NEW c \in Conn, NEW d \in Dialogue, NEW e \in BOOLEAN, NEW t, NEW q,
         Spoken(c, d, e, t, q)
  PROVE  /\ q \in Seq(Nat)
         /\ Len(q) > 0 => Holds(q, 0, d.hello)
         /\ Suits(c, d) => Messages(q, d.hello, AuthMessage(c, d), d.request)
<1>1. /\ d.hello \in Seq(Nat) /\ d.auth \in Seq(Nat) /\ d.request \in Seq(Nat)
      /\ d.payload \in Seq(Nat) /\ AuthMessage(c, d) \in Seq(Nat)
  BY DEF Dialogue, AuthMessage
<1>2. CASE e = TRUE
  <2> DEFINE a == IF d.methods = {USERPASS} THEN d.auth ELSE <<>>
  <2>4. q = Whole(d)
    BY <1>2 DEF Spoken
  <2>5. Whole(d) = d.hello \o a \o d.request \o d.payload
    BY DEF Whole
  <2>6. a \in Seq(Nat)
    BY <1>1
  <2>1. q = d.hello \o a \o d.request \o d.payload /\ a \in Seq(Nat)
    BY <2>4, <2>5, <2>6
  <2>2. Suits(c, d) => AuthMessage(c, d) = a
    BY <1>2 DEF Spoken, Suits, AuthMessage, NO_AUTH, USERPASS
  <2> HIDE DEF a
  <2>3. Messages(q, d.hello, a, d.request)
    BY <1>1, <2>1, SaidMessages
  <2> QED
    BY <2>2, <2>3 DEF Messages
<1>3. CASE e = FALSE
  <2> DEFINE a == AuthMessage(c, d)
  <2>1. q \in {<<>>, d.hello, d.hello \o a, d.hello \o a \o d.request,
               d.hello \o a \o d.request \o d.payload}
    BY <1>3 DEF Spoken, Utterance, Turns, AuthMessage
  <2> HIDE DEF a
  <2>2. Messages(q, d.hello, a, d.request)
    BY <1>1, <2>1, SaidMessages, ZenonT(40) DEF a
  <2> QED
    BY <2>2 DEF Messages, a
<1> QED
  BY <1>2, <1>3

-----------------------------------------------------------------------------
(* The steps of a connection.                                              *)

\* The connection c with n bytes more received, which are now in its buffer.
Receives(c, p) ==
  /\ c \in Conn /\ p \in Nat /\ Other([c EXCEPT !.read_buffer = conn.read_buffer], conn)
  /\ c.st = conn.st /\ c.interest = conn.interest /\ c.write_buffer = conn.write_buffer
  /\ Received(c.read_buffer, sent, p)
  /\ p - Len(c.read_buffer.bytes) = pos - Len(conn.read_buffer.bytes)

LEMMA DialogueMeans ==
  HandshakeInv => dialogue \in Dialogue /\ SaysWhatItMeans(dialogue)
BY HandshakeAssumption DEF HandshakeInv

(* What has been sent suffices for the bytes that are fed to a parser.     *)
LEMMA BytesAt ==
  ASSUME NEW b, b.bytes \in Seq(Nat), NEW q, NEW p, Received(b, q, p),
         NEW o \in Nat, NEW j \in Nat, o + j = p - Len(b.bytes)
  PROVE  q \in Seq(Nat) /\ Holds(q, o + j, b.bytes)
<1> DEFINE s == b.bytes
<1>1. q \in Seq(Nat) /\ p \in 0 .. Len(q) /\ Len(s) <= p
  BY DEF Received
<1>2. Len(q) \in Nat /\ Len(s) \in Nat
  BY <1>1
<1>3. \A i \in 1 .. Len(s) : s[i] = q[p - Len(s) + i]
  BY DEF Received
<1>4. o + j = p - Len(s)
  OBVIOUS
<1> HIDE DEF s
<1>5. o + j + Len(s) <= Len(q)
  BY <1>1, <1>2, <1>4
<1>6. ASSUME NEW i \in 1 .. Len(s) PROVE q[o + j + i] = s[i]
  BY <1>3, <1>4
<1> QED
  BY <1>1, <1>5, <1>6 DEF s, Holds

(* The greeting is read.                                                   *)
LEMMA HelloReads ==
  ASSUME HandshakeInv, conn.st = "HELLO_READ", NEW c, NEW p, Receives(c, p),
         NEW c2 \in hello_read(c)
  PROVE  Good(c2, p, out)
<1> DEFINE r == hello_parser_consume(c.hello, c.read_buffer)
           d == [c EXCEPT !.hello = r.parser, !.read_buffer = r.buf]
           m == choose_method(r.parser)
           b == c.read_buffer
           n == p - Len(b.bytes)
<1>1. /\ Good(conn, pos, out) /\ dialogue \in Dialogue /\ SaysWhatItMeans(dialogue)
      /\ eager \in BOOLEAN /\ gone \in BOOLEAN /\ Kept(db, cfg, past)
  BY DialogueMeans DEF HandshakeInv
<1>2. /\ c.hello = conn.hello /\ c.auth = conn.auth /\ c.request = conn.request
      /\ c.method = conn.method /\ c.auth_ok = conn.auth_ok /\ c.reply = conn.reply
      /\ c.st = "HELLO_READ" /\ c.interest = conn.interest
      /\ c.write_buffer = conn.write_buffer
      /\ c \in Conn /\ p \in Nat /\ Received(b, sent, p)
      /\ n = pos - Len(conn.read_buffer.bytes)
  BY DEF Receives, Other, Conn
<1>3. /\ conn.hello.state \notin Ending /\ conn.auth = auth_parser_init
      /\ conn.request = request_parser_init /\ conn.write_buffer.bytes = <<>>
      /\ conn.interest = "OP_READ"
  BY <1>1 DEF Good, Staged, Reading, Quiet, Ending
<1>4. n \in Nat /\ HelloIs(c.hello, sent, 0, n) /\ c.hello \in HelloParser
      /\ b \in BufferOf(Nat, DEFAULT_BUFFER) /\ b.bytes \in Seq(Nat) /\ Len(b.bytes) \in Nat
  <2>1. /\ c.hello \in HelloParser /\ b \in BufferOf(Nat, DEFAULT_BUFFER)
        /\ b.bytes \in Seq(Nat) /\ Len(b.bytes) \in Nat
    BY <1>2, ConnFields
  <2>2. Len(b.bytes) <= p
    BY <1>2 DEF Received
  <2>3. HelloIs(c.hello, sent, 0, n)
    BY <1>1, <1>2 DEF Good, Heard
  <2> HIDE DEF b
  <2> QED
    BY <1>2, <2>1, <2>2, <2>3
<1> HIDE DEF r, n
<1>5. PICK k \in 0 .. Len(b.bytes) :
        /\ Takes(b, r, k) /\ HelloIs(r.parser, sent, 0, n + k)
        /\ r.parser \in HelloParser
  <2>1. 0 + n = p - Len(b.bytes)
    BY <1>4 DEF n
  <2>2. /\ sent \in Seq(Nat) /\ 0 + n + Len(b.bytes) <= Len(sent)
        /\ \A i \in 1 .. Len(b.bytes) : b.bytes[i] = sent[0 + n + i]
    <3>1. sent \in Seq(Nat) /\ Holds(sent, 0 + n, b.bytes)
      <4> HIDE DEF b
      <4> QED
        BY <1>2, <1>4, <2>1, BytesAt
    <3> QED
      BY <3>1 DEF Holds
  <2>3. c.hello.state \notin Ending /\ DEFAULT_BUFFER \in Nat
    BY <1>2, <1>3, StartupAssumption
  <2> HIDE DEF b
  <2>4. LET x == hello_parser_consume(c.hello, b)
        IN  x.parser \in HelloParser /\ \E k \in 0 .. Len(b.bytes) :
              Takes(b, x, k) /\ HelloIs(x.parser, sent, 0, n + k)
    BY <1>4, <2>2, <2>3, HelloConsumed
  <2> QED
    BY <2>4 DEF r, b
<1>6. /\ r.buf \in BufferOf(Nat, DEFAULT_BUFFER) /\ Received(r.buf, sent, p)
      /\ p - Len(r.buf.bytes) = n + k
      /\ r.parser.state \notin Ending => r.buf.bytes = <<>>
  <2>1. r.buf = buffer_read_adv(b, k) /\ DEFAULT_BUFFER \in Nat
    BY <1>5, StartupAssumption DEF Takes
  <2>2. r.parser.state \notin Ending => k = Len(b.bytes)
    BY <1>5 DEF Takes
  <2> HIDE DEF b
  <2>3. /\ Keeps(DEFAULT_BUFFER, b, r.buf, sent, p, p, k)
        /\ k = Len(b.bytes) => r.buf.bytes = <<>>
    BY <1>2, <1>4, <2>1, ReceivedLess
  <2> QED
    BY <2>2, <2>3 DEF n, Keeps
<1>7. /\ d \in Conn /\ d.hello = r.parser /\ d.read_buffer = r.buf
      /\ d.auth = auth_parser_init /\ d.request = request_parser_init
      /\ d.method = c.method /\ d.write_buffer.bytes = <<>>
      /\ d.st = "HELLO_READ" /\ d.interest = "OP_READ"
  <2>1. d \in Conn
    BY <1>2, <1>5, <1>6 DEF Conn
  <2>2. /\ d.hello = r.parser /\ d.read_buffer = r.buf /\ d.auth = c.auth
        /\ d.request = c.request /\ d.method = c.method
        /\ d.write_buffer = c.write_buffer /\ d.st = c.st /\ d.interest = c.interest
    BY <1>2 DEF Conn
  <2> QED
    BY <1>2, <1>3, <2>1, <2>2
<1>8. /\ out = <<>> /\ out \in Seq(Nat) /\ c.hello.state # "DONE"
  <2>1. c.hello.state # "DONE" /\ conn.hello = c.hello
    BY <1>2, <1>3 DEF Ending
  <2>2. AuthReply(conn) = <<>> /\ HelloReply(conn) = <<>> /\ ~Decided(conn)
    BY <1>3, <2>1, RequestPhases DEF AuthReply, HelloReply, Decided, auth_parser_init, Ending
  <2>3. out \in Seq(Nat) /\ out \o conn.write_buffer.bytes = <<>> \o <<>> \o <<>>
    BY <1>1, <2>2 DEF Good, Answered
  <2> QED
    BY <1>3, <2>1, <2>3
<1>9. r.parser.state \in Ending =>
        /\ r.parser.state = "ERROR" => dialogue.bad = "hello"
        /\ r.parser.state = "DONE" =>
             /\ dialogue.bad # "hello" /\ n + k = Len(dialogue.hello)
             /\ r.parser.has_noauth = (NO_AUTH \in dialogue.methods)
             /\ r.parser.has_userpass = (USERPASS \in dialogue.methods)
  <2> SUFFICES ASSUME r.parser.state \in Ending
               PROVE  /\ r.parser.state = "ERROR" => dialogue.bad = "hello"
                      /\ r.parser.state = "DONE" =>
                           /\ dialogue.bad # "hello" /\ n + k = Len(dialogue.hello)
                           /\ r.parser.has_noauth = (NO_AUTH \in dialogue.methods)
                           /\ r.parser.has_userpass = (USERPASS \in dialogue.methods)
    OBVIOUS
  <2>1. sent \in Seq(Nat) /\ (Len(sent) > 0 => Holds(sent, 0, dialogue.hello))
    <3>1. Spoken(conn, dialogue, eager, turn, sent) /\ conn \in Conn
      BY <1>1 DEF Good
    <3> QED
      BY <1>1, <3>1, SpokenMessages
  <2>2. n + k \in Nat /\ n + k > 0
    <3>1. n + k \in Nat
      BY <1>4, <1>5
    <3>2. n + k # 0
      BY <1>5 DEF HelloIs, hello_parser_init, Ending
    <3> QED
      BY <3>1, <3>2
  <2>3. Len(sent) > 0
    <3>1. Len(sent) \in Nat /\ p <= Len(sent) /\ Len(r.buf.bytes) \in Nat
      <4>1. r.buf.bytes \in Seq(Nat) /\ p \in 0 .. Len(sent)
        BY <1>6, BufferFields, StartupAssumption DEF Received
      <4> QED
        BY <2>1, <4>1
    <3> QED
      BY <1>2, <1>6, <2>2, <3>1
  <2> QED
    BY <1>1, <1>5, <2>1, <2>2, <2>3, HelloHeard
<1>10. p \in Nat /\ p - Len(r.buf.bytes) = n + k /\ n + k \in Nat
        /\ Len(r.buf.bytes) \in Nat /\ r.buf.bytes \in Seq(Nat)
  <2>1. r.buf.bytes \in Seq(Nat)
    BY <1>6, BufferFields, StartupAssumption
  <2> QED
    BY <1>2, <1>4, <1>5, <1>6, <2>1, SMTT(30)
<1>11. c2 = CASE r.parser.state = "DONE" ->
                  Replies([d EXCEPT !.method = m], <<5, m>>, "HELLO_WRITE")
             [] r.parser.state = "ERROR" -> Ended(d, "ERROR_STATE")
             [] OTHER -> d
  BY DEF hello_read, r, d, m
<1>12. /\ Spoken(conn, dialogue, eager, turn, sent) /\ Answered(conn, out)
       /\ Granted(conn, past)
  BY <1>1 DEF Good
<1>13. m \in {NO_AUTH, USERPASS, NONE}
  BY DEF m, choose_method
<1> HIDE DEF d, b, m
<1>14. CASE r.parser.state = "DONE"
  <2> DEFINE e == [d EXCEPT !.method = m]
             f == <<5, m>>
  <2>1. e \in Conn
    BY <1>7, <1>13 DEF Conn
  <2>2. /\ e.hello = r.parser /\ e.read_buffer = r.buf /\ e.auth = auth_parser_init
        /\ e.request = request_parser_init /\ e.method = m
    BY <1>7 DEF Conn
  <2>3. c2 = Replies(e, f, "HELLO_WRITE")
    BY <1>11, <1>14
  <2>4. f \in Seq(Nat) /\ Len(f) <= DEFAULT_BUFFER /\ f # <<>>
    <3>1. m \in Nat
      BY <1>13 DEF NO_AUTH, USERPASS, NONE
    <3>2. 2 <= DEFAULT_BUFFER
      BY HandshakeAssumption, StartupAssumption
    <3> QED
      BY <3>1, <3>2
  <2>5. "HELLO_WRITE" \in Writing
    BY DEF Writing
  <2>11. f = <<5, m>>
    OBVIOUS
  <2> HIDE DEF e, f
  <2>6. /\ c2 \in Conn /\ c2.st = "HELLO_WRITE" /\ c2.interest = "OP_WRITE"
        /\ c2.write_buffer.bytes = f /\ c2.hello = r.parser /\ c2.read_buffer = r.buf
        /\ c2.auth = auth_parser_init /\ c2.request = request_parser_init
        /\ c2.method = m
    <3>1. /\ c2 \in Conn /\ c2.st = "HELLO_WRITE" /\ c2.interest = "OP_WRITE"
          /\ c2.write_buffer.bytes = f /\ Other(e, c2)
      BY <2>1, <2>3, <2>4, <2>5, RepliesIs
    <3> QED
      BY <2>2, <3>1 DEF Other
  <2>7. Staged(c2)
    BY <1>14, <2>4, <2>6 DEF Staged, Reading, Writing, Quiet, auth_parser_init
  <2>8. Answered(c2, out)
    <3>1. HelloReply(c2) = f /\ AuthReply(c2) = <<>> /\ ~Decided(c2)
      BY <1>14, <2>6, <2>11
         DEF HelloReply, AuthReply, Decided, Ending, auth_parser_init, request_parser_init
    <3>2. out \o c2.write_buffer.bytes = HelloReply(c2) \o AuthReply(c2) \o <<>>
      BY <1>8, <2>4, <2>6, <3>1
    <3> QED
      BY <1>8, <3>1, <3>2 DEF Answered
  <2>9. /\ dialogue.bad # "hello" /\ n + k = Len(dialogue.hello)
        /\ r.parser.has_noauth = (NO_AUTH \in dialogue.methods)
        /\ r.parser.has_userpass = (USERPASS \in dialogue.methods)
    BY <1>9, <1>14 DEF Ending
  <2>10. Heard(c2, dialogue, sent, n + k)
    BY <1>14, <2>6, <2>9 DEF Heard, auth_parser_init, request_parser_init
  <2>12. Spoken(c2, dialogue, eager, turn, sent)
    <3>1. CASE eager = TRUE
      BY <1>12, <3>1 DEF Spoken
    <3>2. CASE eager = FALSE
      <4>1. turn \in {"start", "hello"} /\ sent = Utterance(conn, dialogue, turn)
        BY <1>2, <1>8, <1>12, <3>2 DEF Spoken
      <4>2. sent = Utterance(c2, dialogue, turn) /\ sent \in {<<>>, dialogue.hello}
        BY <4>1 DEF Utterance
      <4>3. Len(sent) \in Nat /\ Len(sent) <= n + k
        BY <1>10, <2>9, <4>2
      <4>4. r.buf.bytes = <<>>
        <5>1. p \in 0 .. Len(sent)
          BY <1>6 DEF Received
        <5>2. Len(r.buf.bytes) = 0
          BY <1>10, <4>3, <5>1
        <5> QED
          BY <1>10, <5>2
      <4> QED
        BY <2>6, <3>2, <4>1, <4>2, <4>4 DEF Spoken, Turns
    <3> QED
      BY <1>1, <3>1, <3>2
  <2>13. Granted(c2, past)
    <3>1. Len(past) \in Nat /\ Len(past) \in 1 .. Len(past)
            /\ past[Len(past)].required = cfg.auth_required /\ cfg.auth_required \in BOOLEAN
      <4>1. /\ past \in Seq(Entry) /\ Len(past) > 0
            /\ past[Len(past)] = [users |-> AsMap(db), required |-> cfg.auth_required]
            /\ cfg.auth_required \in BOOLEAN
        BY <1>1 DEF Kept
      <4>2. Len(past) \in Nat
        BY <4>1
      <4> QED
        BY <4>1, <4>2
    <3>2. r.parser.has_noauth \in BOOLEAN /\ r.parser.has_userpass \in BOOLEAN
      BY <1>5 DEF HelloParser
    <3>3. /\ m = NO_AUTH => r.parser.has_noauth = TRUE /\ cfg.auth_required = FALSE
          /\ m = USERPASS => r.parser.has_userpass = TRUE
          /\ m = NONE => r.parser.has_userpass = FALSE
                          /\ (r.parser.has_noauth = FALSE \/ cfg.auth_required = TRUE)
      BY <3>1, <3>2 DEF m, choose_method, NO_AUTH, USERPASS, NONE
    <3> QED
      BY <2>6, <3>1, <3>3 DEF Granted, auth_parser_init
  <2>14. Caused(c2, dialogue, eager, gone)
    BY <2>6 DEF Caused
  <2> QED
    BY <1>6, <2>6, <2>7, <2>8, <2>10, <2>12, <2>13, <2>14 DEF Good
<1>15. CASE r.parser.state = "ERROR"
  <2>1. c2 = Ended(d, "ERROR_STATE")
    BY <1>11, <1>15
  <2>2. /\ c2 \in Conn /\ c2.st = "ERROR_STATE" /\ c2.interest = "OP_NOOP"
        /\ c2.write_buffer.bytes = <<>> /\ c2.hello = r.parser /\ c2.read_buffer = r.buf
        /\ c2.auth = auth_parser_init /\ c2.request = request_parser_init
        /\ c2.method = c.method
    BY <1>7, <2>1, EndedIs DEF Other
  <2>3. dialogue.bad = "hello"
    BY <1>9, <1>15 DEF Ending
  <2>7. Staged(c2)
    BY <1>15, <2>2 DEF Staged, Reading, Writing, Quiet, auth_parser_init
  <2>8. Answered(c2, out)
    <3>1. HelloReply(c2) = <<>> /\ AuthReply(c2) = <<>> /\ ~Decided(c2)
      BY <1>15, <2>2
         DEF HelloReply, AuthReply, Decided, Ending, auth_parser_init, request_parser_init
    <3>2. out \o c2.write_buffer.bytes = HelloReply(c2) \o AuthReply(c2) \o <<>>
      BY <1>8, <2>2, <3>1
    <3> QED
      BY <1>8, <3>1, <3>2 DEF Answered
  <2>10. Heard(c2, dialogue, sent, n + k)
    BY <1>15, <2>2, <2>3 DEF Heard, auth_parser_init, request_parser_init
  <2>12. Spoken(c2, dialogue, eager, turn, sent)
    <3>1. AuthMessage(c2, dialogue) = AuthMessage(conn, dialogue)
      BY <1>2, <2>2 DEF AuthMessage
    <3> QED
      BY <1>1, <1>2, <1>8, <1>12, <1>15, <2>2, <3>1 DEF Spoken, Utterance, Reading
  <2>13. Granted(c2, past)
    BY <1>15, <2>2 DEF Granted, auth_parser_init
  <2>14. Caused(c2, dialogue, eager, gone)
    BY <2>3 DEF Caused
  <2> QED
    BY <1>6, <2>2, <2>7, <2>8, <2>10, <2>12, <2>13, <2>14 DEF Good
<1>16. CASE r.parser.state \notin Ending
  <2>1. c2 = d /\ r.parser.state # "DONE" /\ r.parser.state # "ERROR" /\ r.buf.bytes = <<>>
    BY <1>6, <1>11, <1>16 DEF Ending
  <2>7. Staged(c2)
    BY <1>7, <1>16, <2>1 DEF Staged, Reading, Writing, Quiet, auth_parser_init
  <2>8. Answered(c2, out)
    <3>1. HelloReply(c2) = <<>> /\ AuthReply(c2) = <<>> /\ ~Decided(c2)
      BY <1>7, <2>1
         DEF HelloReply, AuthReply, Decided, Ending, auth_parser_init, request_parser_init
    <3>2. out \o c2.write_buffer.bytes = HelloReply(c2) \o AuthReply(c2) \o <<>>
      BY <1>7, <1>8, <2>1, <3>1
    <3> QED
      BY <1>8, <3>1, <3>2 DEF Answered
  <2> DEFINE v == n + k
  <2>2. HelloIs(c2.hello, sent, 0, v)
    BY <1>5, <1>7, <2>1
  <2> HIDE DEF v
  <2>3. Heard(c2, dialogue, sent, v)
    <3>1. /\ c2.st = "HELLO_READ" /\ c2.auth.state = "VERSION" /\ c2.request.state = "VERSION"
          /\ c2.hello.state # "DONE" /\ c2.hello.state # "ERROR"
      BY <1>7, <2>1 DEF auth_parser_init, request_parser_init
    <3> QED
      BY ONLY <2>2, <3>1 DEF Heard
  <2>10. Heard(c2, dialogue, sent, n + k)
    BY <2>3 DEF v
  <2>12. Spoken(c2, dialogue, eager, turn, sent)
    <3>1. AuthMessage(c2, dialogue) = AuthMessage(conn, dialogue)
      BY <1>2, <1>7, <2>1 DEF AuthMessage
    <3> QED
      BY <1>1, <1>2, <1>7, <1>8, <1>12, <2>1, <3>1 DEF Spoken, Utterance, Reading
  <2>13. Granted(c2, past)
    BY <1>7, <2>1 DEF Granted, auth_parser_init
  <2>14. Caused(c2, dialogue, eager, gone)
    BY <1>7, <2>1 DEF Caused
  <2> QED
    BY <1>6, <1>7, <2>1, <2>7, <2>8, <2>10, <2>12, <2>13, <2>14 DEF Good
<1> QED
  BY <1>14, <1>15, <1>16 DEF Ending
(* The messages that have been asked for are in what the client sent.      *)
LEMMA MessagesSent ==
  ASSUME HandshakeInv, conn.hello.state = "DONE", conn.method # NONE
  PROVE  /\ dialogue.bad # "hello" /\ dialogue.hello \in Seq(Nat)
         /\ AuthMessage(conn, dialogue) \in Seq(Nat)
         /\ Messages(sent, dialogue.hello, AuthMessage(conn, dialogue), dialogue.request)
<1>1. /\ Good(conn, pos, out) /\ dialogue \in Dialogue /\ eager \in BOOLEAN
  BY DialogueMeans DEF HandshakeInv
<1>2. /\ conn \in Conn /\ Heard(conn, dialogue, sent, pos - Len(conn.read_buffer.bytes))
      /\ Spoken(conn, dialogue, eager, turn, sent) /\ Granted(conn, past)
  BY <1>1 DEF Good
<1>3. conn.method \in {NO_AUTH, USERPASS, NONE}
  BY <1>2, ConnFields
<1>4. Suits(conn, dialogue)
  BY <1>2, <1>3 DEF Suits, Heard, Granted
<1>5. Messages(sent, dialogue.hello, AuthMessage(conn, dialogue), dialogue.request)
  BY <1>1, <1>2, <1>4, SpokenMessages
<1>6. dialogue.hello \in Seq(Nat) /\ AuthMessage(conn, dialogue) \in Seq(Nat)
  BY <1>1 DEF Dialogue, AuthMessage
<1> QED
  BY <1>4, <1>5, <1>6 DEF Suits

(* The login is read.                                                      *)
LEMMA AuthReads ==
  ASSUME HandshakeInv, conn.st = "AUTH_READ", NEW c, NEW p, Receives(c, p),
         NEW c2 \in auth_read(c)
  PROVE  Good(c2, p, out)
<1> DEFINE r == auth_parser_consume(c.auth, c.read_buffer)
           d == [c EXCEPT !.auth = r.parser, !.read_buffer = r.buf]
           ok == users_check(db, CString(r.parser.username), CString(r.parser.password))
           b == c.read_buffer
           n == p - Len(b.bytes)
           o == Len(dialogue.hello)
           j == n - o
<1>1. /\ Good(conn, pos, out) /\ dialogue \in Dialogue /\ SaysWhatItMeans(dialogue)
      /\ eager \in BOOLEAN /\ gone \in BOOLEAN /\ Kept(db, cfg, past)
  BY DialogueMeans DEF HandshakeInv
<1>2. /\ c.hello = conn.hello /\ c.auth = conn.auth /\ c.request = conn.request
      /\ c.method = conn.method /\ c.auth_ok = conn.auth_ok /\ c.reply = conn.reply
      /\ c.st = "AUTH_READ" /\ c.interest = conn.interest
      /\ c.write_buffer = conn.write_buffer
      /\ c \in Conn /\ p \in Nat /\ Received(b, sent, p)
      /\ n = pos - Len(conn.read_buffer.bytes)
  BY DEF Receives, Other, Conn
<1>3. /\ conn.hello.state = "DONE" /\ conn.auth.state \notin Ending
      /\ conn.method = USERPASS
      /\ conn.request = request_parser_init /\ conn.write_buffer.bytes = <<>>
      /\ conn.interest = "OP_READ"
  BY <1>1 DEF Good, Staged, Reading, Quiet, Ending
<1>4. /\ n \in Nat /\ n >= o /\ o \in Nat /\ AuthIs(c.auth, sent, o, j)
      /\ c.auth \in AuthParser
      /\ b \in BufferOf(Nat, DEFAULT_BUFFER) /\ b.bytes \in Seq(Nat) /\ Len(b.bytes) \in Nat
  <2>1. /\ c.auth \in AuthParser /\ b \in BufferOf(Nat, DEFAULT_BUFFER)
        /\ b.bytes \in Seq(Nat) /\ Len(b.bytes) \in Nat
    BY <1>2, ConnFields
  <2>2. Len(b.bytes) <= p
    BY <1>2 DEF Received
  <2>3. n >= o /\ AuthIs(c.auth, sent, o, j)
    BY <1>1, <1>2 DEF Good, Heard
  <2>4. o \in Nat
    BY <1>1 DEF Dialogue
  <2> HIDE DEF b
  <2> QED
    BY <1>2, <2>1, <2>2, <2>3, <2>4
<1> HIDE DEF r, n, o
<1>0. j \in Nat /\ o + j = n
  BY <1>4
<1> HIDE DEF j
<1>5. PICK k \in 0 .. Len(b.bytes) :
        /\ Takes(b, r, k) /\ AuthIs(r.parser, sent, o, j + k)
        /\ r.parser \in AuthParser
  <2>1. o + j = p - Len(b.bytes)
    BY <1>0 DEF n
  <2>2. /\ sent \in Seq(Nat) /\ o + j + Len(b.bytes) <= Len(sent)
        /\ \A i \in 1 .. Len(b.bytes) : b.bytes[i] = sent[o + j + i]
    <3>1. sent \in Seq(Nat) /\ Holds(sent, o + j, b.bytes)
      <4> HIDE DEF b
      <4> QED
        BY <1>0, <1>2, <1>4, <2>1, BytesAt
    <3> QED
      BY <3>1 DEF Holds
  <2>3. c.auth.state \notin Ending /\ DEFAULT_BUFFER \in Nat
    BY <1>2, <1>3, StartupAssumption
  <2> HIDE DEF b
  <2>4. LET x == auth_parser_consume(c.auth, b)
        IN  x.parser \in AuthParser /\ \E k \in 0 .. Len(b.bytes) :
              Takes(b, x, k) /\ AuthIs(x.parser, sent, o, j + k)
    BY <1>0, <1>4, <2>2, <2>3, AuthConsumed
  <2> QED
    BY <2>4 DEF r, b
<1>6. /\ r.buf \in BufferOf(Nat, DEFAULT_BUFFER) /\ Received(r.buf, sent, p)
      /\ p - Len(r.buf.bytes) = n + k
      /\ r.parser.state \notin Ending => r.buf.bytes = <<>>
  <2>1. r.buf = buffer_read_adv(b, k) /\ DEFAULT_BUFFER \in Nat
    BY <1>5, StartupAssumption DEF Takes
  <2>2. r.parser.state \notin Ending => k = Len(b.bytes)
    BY <1>5 DEF Takes
  <2> HIDE DEF b
  <2>3. /\ Keeps(DEFAULT_BUFFER, b, r.buf, sent, p, p, k)
        /\ k = Len(b.bytes) => r.buf.bytes = <<>>
    BY <1>2, <1>4, <2>1, ReceivedLess
  <2> QED
    BY <2>2, <2>3 DEF n, Keeps
<1>7. /\ d \in Conn /\ d.auth = r.parser /\ d.read_buffer = r.buf
      /\ d.hello = conn.hello /\ d.request = request_parser_init
      /\ d.method = USERPASS /\ d.write_buffer.bytes = <<>>
      /\ d.st = "AUTH_READ" /\ d.interest = "OP_READ"
  <2>1. d \in Conn
    BY <1>2, <1>5, <1>6 DEF Conn
  <2>2. /\ d.auth = r.parser /\ d.read_buffer = r.buf /\ d.hello = c.hello
        /\ d.request = c.request /\ d.method = c.method
        /\ d.write_buffer = c.write_buffer /\ d.st = c.st /\ d.interest = c.interest
    BY <1>2 DEF Conn
  <2> QED
    BY <1>2, <1>3, <2>1, <2>2
<1>8. out = HelloReply(conn) /\ out \in Seq(Nat) /\ HelloReply(conn) = <<5, USERPASS>>
  <2>1. AuthReply(conn) = <<>> /\ ~Decided(conn)
    BY <1>3 DEF AuthReply, Decided, request_parser_init, Ending
  <2>2. out \in Seq(Nat) /\ out \o conn.write_buffer.bytes = HelloReply(conn) \o <<>> \o <<>>
    BY <1>1, <2>1 DEF Good, Answered
  <2>3. HelloReply(conn) = <<5, USERPASS>> /\ <<5, USERPASS>> \in Seq(Nat)
    BY <1>3 DEF HelloReply, USERPASS
  <2> QED
    BY <1>3, <2>2, <2>3
<1>10. /\ p - Len(r.buf.bytes) = n + k /\ n + k \in Nat
       /\ Len(r.buf.bytes) \in Nat /\ r.buf.bytes \in Seq(Nat)
  <2>1. r.buf.bytes \in Seq(Nat)
    BY <1>6, BufferFields, StartupAssumption
  <2>2. k \in Nat
    BY <1>4, <1>5
  <2> QED
    BY ONLY <1>4, <1>6, <2>1, <2>2
<1>17. /\ dialogue.bad # "hello" /\ sent \in Seq(Nat)
       /\ Len(sent) > o => Holds(sent, o, dialogue.auth)
       /\ AuthMessage(conn, dialogue) = dialogue.auth
  <2>1. conn.method # NONE /\ AuthMessage(conn, dialogue) = dialogue.auth
    BY <1>3 DEF USERPASS, NONE, AuthMessage
  <2>2. /\ dialogue.bad # "hello"
        /\ Messages(sent, dialogue.hello, dialogue.auth, dialogue.request)
    BY <1>3, <2>1, MessagesSent
  <2> QED
    BY <2>1, <2>2 DEF Messages, o
<1>9. r.parser.state \in Ending =>
        /\ r.parser.state = "ERROR" => dialogue.bad = "auth"
        /\ r.parser.state = "DONE" =>
             /\ dialogue.bad # "auth" /\ n + k = o + Len(dialogue.auth)
             /\ r.parser.username = dialogue.user /\ r.parser.password = dialogue.pass
  <2> SUFFICES ASSUME r.parser.state \in Ending
               PROVE  /\ r.parser.state = "ERROR" => dialogue.bad = "auth"
                      /\ r.parser.state = "DONE" =>
                           /\ dialogue.bad # "auth" /\ n + k = o + Len(dialogue.auth)
                           /\ r.parser.username = dialogue.user
                           /\ r.parser.password = dialogue.pass
    OBVIOUS
  <2> DEFINE v == j + k
  <2>2. v \in Nat /\ v > 0 /\ n + k = o + v /\ AuthIs(r.parser, sent, o, v)
    <3>1. v \in Nat /\ n + k = o + v
      BY <1>0, <1>4, <1>5
    <3>2. AuthIs(r.parser, sent, o, v)
      BY <1>5
    <3>4. r.parser.state # "VERSION"
      BY DEF Ending
    <3> HIDE DEF v
    <3>3. v # 0
      BY <3>2, <3>4, PhaseStates DEF AuthIs, auth_parser_init, InName, BehindName, InPassword
    <3> QED
      BY <3>1, <3>2, <3>3
  <2> HIDE DEF v
  <2>3. Len(sent) > o
    <3>1. Len(sent) \in Nat /\ p <= Len(sent)
      <4>1. p \in 0 .. Len(sent)
        BY <1>6 DEF Received
      <4> QED
        BY <1>17, <4>1
    <3> QED
      BY <1>2, <1>4, <1>10, <2>2, <3>1
  <2>4. /\ r.parser.state = "ERROR" => dialogue.bad = "auth"
        /\ r.parser.state = "DONE" =>
             /\ dialogue.bad # "auth" /\ v = Len(dialogue.auth)
             /\ r.parser.username = dialogue.user /\ r.parser.password = dialogue.pass
    BY <1>1, <1>4, <1>5, <1>17, <2>2, <2>3, AuthHeard
  <2> QED
    BY <2>2, <2>4
<1>11. c2 = CASE r.parser.state = "DONE" ->
                   Replies([d EXCEPT !.auth_ok = ok], <<1, IF ok THEN 0 ELSE 1>>, "AUTH_WRITE")
             [] r.parser.state = "ERROR" -> Ended(d, "ERROR_STATE")
             [] OTHER -> d
  BY DEF auth_read, r, d, ok
<1>12. /\ Spoken(conn, dialogue, eager, turn, sent) /\ Answered(conn, out)
       /\ Granted(conn, past)
       /\ Heard(conn, dialogue, sent, pos - Len(conn.read_buffer.bytes)) /\ Staged(conn)
  BY <1>1 DEF Good
<1>13. ok \in BOOLEAN
  BY DEF users_check, ok
<1> HIDE DEF d, b, ok
<1>14. CASE r.parser.state = "DONE"
  <2> DEFINE e == [d EXCEPT !.auth_ok = ok]
             f == <<1, IF ok THEN 0 ELSE 1>>
  <2>1. e \in Conn
    BY <1>7, <1>13 DEF Conn
  <2>2. /\ e.auth = r.parser /\ e.read_buffer = r.buf /\ e.hello = conn.hello
        /\ e.request = request_parser_init /\ e.method = USERPASS /\ e.auth_ok = ok
    BY <1>7 DEF Conn
  <2>3. c2 = Replies(e, f, "AUTH_WRITE")
    BY <1>11, <1>14
  <2>4. f \in Seq(Nat) /\ Len(f) <= DEFAULT_BUFFER /\ f # <<>>
    <3>1. (IF ok THEN 0 ELSE 1) \in Nat
      BY <1>13
    <3>2. 2 <= DEFAULT_BUFFER
      BY HandshakeAssumption, StartupAssumption
    <3> QED
      BY <3>1, <3>2
  <2>5. "AUTH_WRITE" \in Writing
    BY DEF Writing
  <2>11. f = <<1, IF ok THEN 0 ELSE 1>>
    OBVIOUS
  <2> HIDE DEF e, f
  <2>6. /\ c2 \in Conn /\ c2.st = "AUTH_WRITE" /\ c2.interest = "OP_WRITE"
        /\ c2.write_buffer.bytes = f /\ c2.auth = r.parser /\ c2.read_buffer = r.buf
        /\ c2.hello = conn.hello /\ c2.request = request_parser_init
        /\ c2.method = USERPASS /\ c2.auth_ok = ok
    <3>1. /\ c2 \in Conn /\ c2.st = "AUTH_WRITE" /\ c2.interest = "OP_WRITE"
          /\ c2.write_buffer.bytes = f /\ Other(e, c2)
      BY <2>1, <2>3, <2>4, <2>5, RepliesIs
    <3> QED
      BY <2>2, <3>1 DEF Other
  <2>7. Staged(c2)
    BY <1>3, <1>14, <2>4, <2>6 DEF Staged, Reading, Writing, Quiet
  <2>8. Answered(c2, out)
    <3>1. HelloReply(c2) = out /\ AuthReply(c2) = f /\ ~Decided(c2)
      BY <1>3, <1>8, <1>14, <2>6, <2>11
         DEF HelloReply, AuthReply, Decided, Ending, request_parser_init
    <3>2. out \o f \in Seq(Nat) /\ (out \o f) \o <<>> = out \o f
      BY <1>8, <2>4, JoinNothing
    <3>3. out \o c2.write_buffer.bytes = HelloReply(c2) \o AuthReply(c2) \o <<>>
      BY <2>6, <3>1, <3>2
    <3> QED
      BY <1>8, <3>1, <3>3 DEF Answered
  <2>9. /\ dialogue.bad # "auth" /\ n + k = o + Len(dialogue.auth)
        /\ r.parser.username = dialogue.user /\ r.parser.password = dialogue.pass
    BY <1>9, <1>14 DEF Ending
  <2>10. Heard(c2, dialogue, sent, n + k)
    BY <1>3, <1>12, <1>14, <2>6, <2>9 DEF Heard, request_parser_init, o
  <2>15. AuthMessage(c2, dialogue) = AuthMessage(conn, dialogue)
    BY <1>3, <2>6 DEF AuthMessage
  <2>12. Spoken(c2, dialogue, eager, turn, sent)
    <3>1. CASE eager = TRUE
      BY <1>12, <3>1 DEF Spoken
    <3>2. CASE eager = FALSE
      <4>1. turn \in {"start", "hello", "auth"} /\ sent = Utterance(conn, dialogue, turn)
        BY <1>2, <1>12, <3>2 DEF Spoken
      <4>2. /\ sent = Utterance(c2, dialogue, turn)
            /\ sent \in {<<>>, dialogue.hello, dialogue.hello \o dialogue.auth}
        BY <4>1, <2>15 DEF Utterance
      <4>3. Len(sent) \in Nat /\ Len(sent) <= n + k
        <5>1. /\ dialogue.hello \in Seq(Nat) /\ dialogue.auth \in Seq(Nat)
          BY <1>1 DEF Dialogue
        <5>2. Len(sent) <= o + Len(dialogue.auth)
          <6>1. Len(dialogue.auth) \in Nat /\ o \in Nat
            BY <1>4, <5>1
          <6>2. Len(sent) = 0 \/ Len(sent) = o \/ Len(sent) = o + Len(dialogue.auth)
            <7>1. CASE sent = dialogue.hello \o dialogue.auth
              BY <5>1, <7>1, JoinHolds DEF o
            <7>2. CASE sent = dialogue.hello
              BY <7>2 DEF o
            <7>3. CASE sent = <<>>
              BY <7>3
            <7> QED
              BY <4>2, <7>1, <7>2, <7>3
          <6> QED
            BY <6>1, <6>2
        <5> QED
          BY <1>17, <2>9, <5>2
      <4>4. r.buf.bytes = <<>>
        <5>1. p \in 0 .. Len(sent)
          BY <1>6 DEF Received
        <5>2. Len(r.buf.bytes) = 0
          BY <1>10, <4>3, <5>1
        <5> QED
          BY <1>10, <5>2
      <4> QED
        BY <1>3, <2>6, <3>2, <4>1, <4>2, <4>4 DEF Spoken, Turns
    <3> QED
      BY <1>1, <3>1, <3>2
  <2>13. Granted(c2, past)
    <3>1. Len(past) \in 1 .. Len(past) /\ past[Len(past)].users = AsMap(db) /\ IsTable(db)
      <4>1. /\ past \in Seq(Entry) /\ Len(past) > 0 /\ IsTable(db)
            /\ past[Len(past)] = [users |-> AsMap(db), required |-> cfg.auth_required]
        BY <1>1 DEF Kept, Tables
      <4>2. Len(past) \in Nat
        BY <4>1
      <4> QED
        BY <4>1, <4>2
    <3>2. ok <=> Knows(AsMap(db), CString(r.parser.username), CString(r.parser.password))
      BY <3>1, UsersCheck DEF ok, Knows
    <3>3. (c2.auth_ok = TRUE) <=> Knows(past[Len(past)].users, CString(c2.auth.username),
                                         CString(c2.auth.password))
      BY <1>13, <2>6, <3>1, <3>2
    <3> QED
      BY <1>3, <1>12, <2>6, <3>1, <3>3 DEF Granted
  <2>14. Caused(c2, dialogue, eager, gone)
    BY <2>6 DEF Caused
  <2> QED
    BY <1>6, <2>6, <2>7, <2>8, <2>10, <2>12, <2>13, <2>14 DEF Good
<1>15. CASE r.parser.state = "ERROR"
  <2>1. c2 = Ended(d, "ERROR_STATE")
    BY <1>11, <1>15
  <2>2. /\ c2 \in Conn /\ c2.st = "ERROR_STATE" /\ c2.interest = "OP_NOOP"
        /\ c2.write_buffer.bytes = <<>> /\ c2.auth = r.parser /\ c2.read_buffer = r.buf
        /\ c2.hello = conn.hello /\ c2.request = request_parser_init
        /\ c2.method = USERPASS
    BY <1>7, <2>1, EndedIs DEF Other
  <2>3. dialogue.bad = "auth"
    BY <1>9, <1>15 DEF Ending
  <2>7. Staged(c2)
    BY <1>3, <1>15, <2>2 DEF Staged, Reading, Writing, Quiet
  <2>8. Answered(c2, out)
    <3>1. HelloReply(c2) = out /\ AuthReply(c2) = <<>> /\ ~Decided(c2)
      BY <1>3, <1>8, <1>15, <2>2
         DEF HelloReply, AuthReply, Decided, Ending, request_parser_init
    <3>2. out \o c2.write_buffer.bytes = HelloReply(c2) \o AuthReply(c2) \o <<>>
      BY <1>8, <2>2, <3>1
    <3> QED
      BY <1>8, <3>1, <3>2 DEF Answered
  <2>10. Heard(c2, dialogue, sent, n + k)
    BY <1>3, <1>12, <1>15, <2>2, <2>3 DEF Heard, request_parser_init
  <2>12. Spoken(c2, dialogue, eager, turn, sent)
    <3>1. AuthMessage(c2, dialogue) = AuthMessage(conn, dialogue)
      BY <1>3, <2>2 DEF AuthMessage
    <3> QED
      BY <1>1, <1>2, <1>3, <1>12, <2>2, <3>1 DEF Spoken, Utterance, Reading
  <2>13. Granted(c2, past)
    BY <1>3, <1>12, <1>15, <2>2 DEF Granted
  <2>14. Caused(c2, dialogue, eager, gone)
    BY <2>3 DEF Caused
  <2> QED
    BY <1>6, <2>2, <2>7, <2>8, <2>10, <2>12, <2>13, <2>14 DEF Good
<1>16. CASE r.parser.state \notin Ending
  <2>1. c2 = d /\ r.parser.state # "DONE" /\ r.parser.state # "ERROR" /\ r.buf.bytes = <<>>
    BY <1>6, <1>11, <1>16 DEF Ending
  <2>7. Staged(c2)
    BY <1>3, <1>7, <1>16, <2>1 DEF Staged, Reading, Writing, Quiet
  <2>8. Answered(c2, out)
    <3>1. HelloReply(c2) = out /\ AuthReply(c2) = <<>> /\ ~Decided(c2)
      BY <1>3, <1>7, <1>8, <2>1
         DEF HelloReply, AuthReply, Decided, Ending, request_parser_init
    <3>2. out \o c2.write_buffer.bytes = HelloReply(c2) \o AuthReply(c2) \o <<>>
      BY <1>7, <1>8, <2>1, <3>1
    <3> QED
      BY <1>8, <3>1, <3>2 DEF Answered
  <2> DEFINE v == n + k
             w == v - o
  <2>2. AuthIs(c2.auth, sent, o, w) /\ v >= o
    <3>1. k \in Nat
      BY <1>4, <1>5
    <3>2. w = j + k /\ v >= o
      BY <1>0, <1>4, <3>1
    <3>3. AuthIs(r.parser, sent, o, w)
      BY <1>5, <3>2
    <3> HIDE DEF w, v
    <3> QED
      BY <1>7, <2>1, <3>2, <3>3
  <2>3. w = v - o
    OBVIOUS
  <2> HIDE DEF v, w
  <2>4. Heard(c2, dialogue, sent, v)
    <3>1. /\ c2.st = "AUTH_READ" /\ c2.hello = conn.hello /\ c2.request.state = "VERSION"
          /\ c2.auth.state # "DONE" /\ c2.auth.state # "ERROR"
      BY <1>7, <2>1 DEF request_parser_init
    <3>2. v >= Len(dialogue.hello)
          /\ AuthIs(c2.auth, sent, Len(dialogue.hello), v - Len(dialogue.hello))
      BY <2>2, <2>3 DEF o
    <3> QED
      BY ONLY <1>12, <3>1, <3>2 DEF Heard
  <2>10. Heard(c2, dialogue, sent, n + k)
    BY <2>4 DEF v
  <2>12. Spoken(c2, dialogue, eager, turn, sent)
    <3>1. AuthMessage(c2, dialogue) = AuthMessage(conn, dialogue)
      BY <1>3, <1>7, <2>1 DEF AuthMessage
    <3> QED
      BY <1>1, <1>2, <1>3, <1>7, <1>12, <2>1, <3>1 DEF Spoken, Utterance, Reading
  <2>13. Granted(c2, past)
    BY <1>3, <1>7, <1>12, <2>1 DEF Granted
  <2>14. Caused(c2, dialogue, eager, gone)
    BY <1>7, <2>1 DEF Caused
  <2> QED
    BY <1>6, <1>7, <2>1, <2>7, <2>8, <2>10, <2>12, <2>13, <2>14 DEF Good
<1> QED
  BY <1>14, <1>15, <1>16 DEF Ending
LEMMA ReplyBytes ==
  ASSUME NEW c \in Conn
  PROVE  HelloReply(c) \in Seq(Nat) /\ AuthReply(c) \in Seq(Nat)
<1>1. c.method \in Nat /\ <<>> \in Seq(Nat)
  BY ConnFields DEF NO_AUTH, USERPASS, NONE
<1>2. <<5, c.method>> \in Seq(Nat)
  BY <1>1
<1>3. <<1, IF c.auth_ok THEN 0 ELSE 1>> \in Seq(Nat)
  <2>1. (IF c.auth_ok THEN 0 ELSE 1) \in Nat
    BY ConnFields
  <2> QED
    BY <2>1
<1> QED
  BY <1>1, <1>2, <1>3 DEF HelloReply, AuthReply

\* The connection d with its request complete, and no reply to it yet.
Asked(d, p) ==
  /\ d \in Conn /\ d.write_buffer.bytes = <<>>
  /\ d.hello = conn.hello /\ d.auth = conn.auth /\ d.method = conn.method
  /\ d.auth_ok = conn.auth_ok
  /\ Received(d.read_buffer, sent, p)
  /\ d.request.state \in Ending
  /\ d.request.state = "ERROR" => dialogue.bad = "request"
  /\ d.request.state = "DONE" =>
       /\ dialogue.bad # "request" /\ d.request.cmd = dialogue.cmd
       /\ d.request.atyp = dialogue.atyp /\ d.request.addr = dialogue.addr
       /\ d.request.port = dialogue.port
       /\ p - Len(d.read_buffer.bytes) = Base(conn, dialogue) + Len(dialogue.request)

\* All that is known of a connection whose request is awaited or attempted.
Awaited(c) ==
  /\ c \in Conn /\ Admitted(c) /\ (c.method # USERPASS => c.auth = auth_parser_init)
  /\ c.auth.state # "ERROR"
  /\ out \in Seq(Nat) /\ out = HelloReply(c) \o AuthReply(c)
  /\ dialogue \in Dialogue /\ eager \in BOOLEAN
  /\ Spoken(c, dialogue, eager, turn, sent) /\ Granted(c, past)
  /\ Heard(c, dialogue, sent, pos - Len(c.read_buffer.bytes))

LEMMA RequestAwaited ==
  ASSUME HandshakeInv, conn.st \in {"REQUEST_READ", "REQUEST_CONNECTING"}
  PROVE  Awaited(conn)
<1>1. /\ Good(conn, pos, out) /\ dialogue \in Dialogue /\ eager \in BOOLEAN
  BY DialogueMeans DEF HandshakeInv
<1>2. /\ conn \in Conn /\ Staged(conn) /\ Answered(conn, out)
      /\ Heard(conn, dialogue, sent, pos - Len(conn.read_buffer.bytes))
      /\ Spoken(conn, dialogue, eager, turn, sent) /\ Granted(conn, past)
  BY <1>1 DEF Good
<1>3. /\ Admitted(conn) /\ conn.write_buffer.bytes = <<>> /\ ~Decided(conn)
      /\ conn.method # USERPASS => conn.auth = auth_parser_init
  BY <1>2 DEF Staged, Reading, Quiet, Decided, Ending, request_parser_init
<1>4. conn.auth.state # "ERROR"
  BY <1>3 DEF Admitted, auth_parser_init, NO_AUTH, USERPASS
<1>5. out \in Seq(Nat) /\ out = HelloReply(conn) \o AuthReply(conn)
  <2>1. /\ out \in Seq(Nat)
        /\ out \o <<>> = HelloReply(conn) \o AuthReply(conn) \o <<>>
    BY <1>2, <1>3 DEF Answered
  <2>2. HelloReply(conn) \in Seq(Nat) /\ AuthReply(conn) \in Seq(Nat)
    BY <1>2, ReplyBytes
  <2> QED
    BY <2>1, <2>2, JoinNothing
<1> QED
  BY <1>1, <1>2, <1>3, <1>4, <1>5 DEF Awaited

(* What of a connection is left to show once its request is complete.      *)
LEMMA RequestAnswered ==
  ASSUME Awaited(conn), NEW d, NEW p, Asked(d, p), NEW c2 \in Conn,
         c2.hello = d.hello, c2.auth = d.auth, c2.request = d.request,
         c2.method = d.method, c2.auth_ok = d.auth_ok, c2.read_buffer = d.read_buffer,
         c2.st \in {"REQUEST_WRITE", "REQUEST_CONNECTING"}
  PROVE  /\ Received(c2.read_buffer, sent, p)
         /\ Heard(c2, dialogue, sent, p - Len(c2.read_buffer.bytes))
         /\ Spoken(c2, dialogue, eager, turn, sent)
         /\ Granted(c2, past) /\ Caused(c2, dialogue, eager, gone)
         /\ HelloReply(c2) = HelloReply(conn) /\ AuthReply(c2) = AuthReply(conn)
<1>1. /\ c2.hello = conn.hello /\ c2.auth = conn.auth /\ c2.method = conn.method
      /\ c2.auth_ok = conn.auth_ok
  BY DEF Asked
<1>2. AuthMessage(c2, dialogue) = AuthMessage(conn, dialogue)
        /\ Base(c2, dialogue) = Base(conn, dialogue)
  BY <1>1 DEF AuthMessage, Base
<1>3. conn.hello.state = "DONE" /\ conn.auth.state # "ERROR"
  BY DEF Awaited, Admitted
<1> DEFINE v == p - Len(c2.read_buffer.bytes)
<1>4. c2.request.state = "DONE" => v = Base(c2, dialogue) + Len(dialogue.request)
  BY <1>2 DEF Asked
<1> HIDE DEF v
<1>5. Heard(c2, dialogue, sent, v)
  <2>1. Heard(conn, dialogue, sent, pos - Len(conn.read_buffer.bytes))
    BY DEF Awaited
  <2>2. /\ c2.request.state = "ERROR" => dialogue.bad = "request"
        /\ c2.request.state = "DONE" =>
             /\ dialogue.bad # "request" /\ c2.request.cmd = dialogue.cmd
             /\ c2.request.atyp = dialogue.atyp /\ c2.request.addr = dialogue.addr
             /\ c2.request.port = dialogue.port
    BY DEF Asked
  <2>3. /\ conn.hello.state = "ERROR" => dialogue.bad = "hello"
        /\ conn.auth.state = "ERROR" => dialogue.bad = "auth"
        /\ conn.hello.state = "DONE" =>
             /\ dialogue.bad # "hello"
             /\ conn.hello.has_noauth = (NO_AUTH \in dialogue.methods)
             /\ conn.hello.has_userpass = (USERPASS \in dialogue.methods)
        /\ conn.auth.state = "DONE" =>
             /\ dialogue.bad # "auth" /\ conn.auth.username = dialogue.user
             /\ conn.auth.password = dialogue.pass
    BY <2>1 DEF Heard
  <2> QED
    <3>1. /\ c2.st # "HELLO_READ" /\ c2.st # "HELLO_WRITE" /\ c2.st # "AUTH_READ"
          /\ c2.st # "AUTH_WRITE" /\ c2.st # "REQUEST_READ"
      OBVIOUS
    <3> QED
      BY ONLY <1>1, <1>4, <2>2, <2>3, <3>1 DEF Heard
<1>6. Spoken(c2, dialogue, eager, turn, sent)
  BY <1>1, <1>2, <1>3 DEF Awaited, Spoken, Utterance, Reading
<1>7. Granted(c2, past)
  BY <1>1 DEF Awaited, Granted
<1>8. Caused(c2, dialogue, eager, gone)
  BY DEF Caused
<1>9. HelloReply(c2) = HelloReply(conn) /\ AuthReply(c2) = AuthReply(conn)
  BY <1>1 DEF HelloReply, AuthReply
<1>10. Received(c2.read_buffer, sent, p)
  BY DEF Asked
<1> QED
  BY <1>5, <1>6, <1>7, <1>8, <1>9, <1>10 DEF v

(* The reply to a request.                                                 *)
LEMMA RequestDecided ==
  ASSUME Awaited(conn), NEW d, NEW p, Asked(d, p), NEW rep \in Nat, NEW f \in Family,
         d.request.state = "ERROR" => rep # SUCCESS
  PROVE  Good(build_reply(d, rep, f), p, out)
<1> DEFINE r == <<5, rep, 0>> \o AddressBytes(f)
           e == [d EXCEPT !.reply = rep]
           c2 == build_reply(d, rep, f)
<1>1. d \in Conn /\ d.request.state \in Ending
  BY DEF Asked
<1>2. /\ e \in Conn /\ e.reply = rep /\ Other([e EXCEPT !.reply = d.reply], d)
      /\ e.hello = d.hello /\ e.auth = d.auth /\ e.request = d.request
      /\ e.method = d.method /\ e.auth_ok = d.auth_ok /\ e.read_buffer = d.read_buffer
  BY <1>1 DEF Conn, Other
<1>3. r \in Seq(Nat) /\ Len(r) <= DEFAULT_BUFFER /\ r # <<>>
  BY ReplyFits
<1>4. c2 = Replies(e, r, "REQUEST_WRITE") /\ "REQUEST_WRITE" \in Writing
  BY DEF build_reply, Writing
<1>5. r = <<5, rep, 0>> \o AddressBytes(f)
  OBVIOUS
<1> HIDE DEF r, e, c2
<1>6. /\ c2 \in Conn /\ c2.st = "REQUEST_WRITE" /\ c2.interest = "OP_WRITE"
      /\ c2.write_buffer.bytes = r /\ Other(e, c2)
  BY <1>2, <1>3, <1>4, RepliesIs
<1>7. /\ c2.hello = d.hello /\ c2.auth = d.auth /\ c2.request = d.request
      /\ c2.method = d.method /\ c2.auth_ok = d.auth_ok /\ c2.read_buffer = d.read_buffer
      /\ c2.reply = rep
  BY <1>2, <1>6 DEF Other
<1>8. /\ Received(c2.read_buffer, sent, p)
      /\ Heard(c2, dialogue, sent, p - Len(c2.read_buffer.bytes))
      /\ Spoken(c2, dialogue, eager, turn, sent)
      /\ Granted(c2, past) /\ Caused(c2, dialogue, eager, gone)
      /\ HelloReply(c2) = HelloReply(conn) /\ AuthReply(c2) = AuthReply(conn)
  BY <1>6, <1>7, RequestAnswered
<1>9. Staged(c2)
  <2>1. /\ c2.hello = conn.hello /\ c2.auth = conn.auth /\ c2.method = conn.method
        /\ c2.auth_ok = conn.auth_ok
    BY <1>7 DEF Asked
  <2>2. Admitted(conn) /\ (conn.method # USERPASS => conn.auth = auth_parser_init)
    BY DEF Awaited
  <2>3. Admitted(c2) /\ (c2.method # USERPASS => c2.auth = auth_parser_init)
          /\ c2.hello.state = "DONE"
    BY <2>1, <2>2 DEF Admitted
  <2> QED
    BY <1>1, <1>3, <1>6, <1>7, <2>3 DEF Staged, Reading, Writing, Quiet
<1>10. Answered(c2, out)
  <2>1. out \in Seq(Nat) /\ out = HelloReply(conn) \o AuthReply(conn)
    BY DEF Awaited
  <2>2. Decided(c2) /\ r = RequestReply(c2, f)
    BY <1>1, <1>5, <1>6, <1>7 DEF Decided, RequestReply
  <2>3. out \o c2.write_buffer.bytes = HelloReply(c2) \o AuthReply(c2) \o r
    BY <1>6, <1>8, <2>1
  <2> QED
    BY <2>1, <2>2, <2>3 DEF Answered
<1> QED
  BY <1>6, <1>8, <1>9, <1>10 DEF Good, c2

(* The wait for the connection.                                            *)
LEMMA RequestWaits ==
  ASSUME Awaited(conn), NEW d, NEW p, Asked(d, p), d.request.state = "DONE"
  PROVE  Good([d EXCEPT !.st = "REQUEST_CONNECTING", !.interest = "OP_NOOP"], p, out)
<1> DEFINE c2 == [d EXCEPT !.st = "REQUEST_CONNECTING", !.interest = "OP_NOOP"]
<1>1. d \in Conn /\ d.write_buffer.bytes = <<>>
  BY DEF Asked
<1>2. /\ c2 \in Conn /\ c2.st = "REQUEST_CONNECTING" /\ c2.interest = "OP_NOOP"
      /\ c2.write_buffer = d.write_buffer
      /\ c2.hello = d.hello /\ c2.auth = d.auth /\ c2.request = d.request
      /\ c2.method = d.method /\ c2.auth_ok = d.auth_ok /\ c2.read_buffer = d.read_buffer
  BY <1>1 DEF Conn
<1> HIDE DEF c2
<1>3. /\ Received(c2.read_buffer, sent, p)
      /\ Heard(c2, dialogue, sent, p - Len(c2.read_buffer.bytes))
      /\ Spoken(c2, dialogue, eager, turn, sent)
      /\ Granted(c2, past) /\ Caused(c2, dialogue, eager, gone)
      /\ HelloReply(c2) = HelloReply(conn) /\ AuthReply(c2) = AuthReply(conn)
  BY <1>2, RequestAnswered
<1>4. Staged(c2)
  <2>1. /\ c2.hello = conn.hello /\ c2.auth = conn.auth /\ c2.method = conn.method
        /\ c2.auth_ok = conn.auth_ok
    BY <1>2 DEF Asked
  <2>2. Admitted(conn) /\ (conn.method # USERPASS => conn.auth = auth_parser_init)
    BY DEF Awaited
  <2>3. Admitted(c2) /\ (c2.method # USERPASS => c2.auth = auth_parser_init)
          /\ c2.hello.state = "DONE"
    BY <2>1, <2>2 DEF Admitted
  <2> QED
    BY <1>1, <1>2, <2>3 DEF Staged, Reading, Writing, Quiet
<1>5. Answered(c2, out)
  <2>1. out \in Seq(Nat) /\ out = HelloReply(conn) \o AuthReply(conn) /\ conn \in Conn
    BY DEF Awaited
  <2>2. HelloReply(conn) \in Seq(Nat) /\ AuthReply(conn) \in Seq(Nat)
    BY <2>1, ReplyBytes
  <2>3. ~Decided(c2) /\ c2.write_buffer.bytes = <<>>
    BY <1>1, <1>2 DEF Decided
  <2>4. out \o c2.write_buffer.bytes = HelloReply(c2) \o AuthReply(c2) \o <<>>
    BY <1>3, <2>1, <2>3
  <2> QED
    BY <2>1, <2>3, <2>4 DEF Answered
<1> QED
  BY <1>2, <1>3, <1>4, <1>5 DEF Good, c2

LEMMA RequestAttempted ==
  ASSUME Awaited(conn), NEW d, NEW p, Asked(d, p), d.request.state = "DONE",
         NEW c2 \in ConnectionAttempt(d)
  PROVE  Good(c2, p, out)
<1>1. Failures \subseteq Nat /\ SUCCESS \in Nat /\ NONE \in Family
  BY HandshakeAssumption DEF SUCCESS, NONE, Family
<1>2. PICK rep \in Nat, f \in Family : c2 = build_reply(d, rep, f)
  BY <1>1 DEF ConnectionAttempt
<1> QED
  BY <1>2, RequestDecided
(* The request is read.                                                    *)
LEMMA RequestReads ==
  ASSUME HandshakeInv, conn.st = "REQUEST_READ", NEW c, NEW p, Receives(c, p),
         NEW c2 \in request_read(c)
  PROVE  Good(c2, p, out)
<1> DEFINE r == request_parser_consume(c.request, c.read_buffer)
           d == [c EXCEPT !.request = r.parser, !.read_buffer = r.buf]
           b == c.read_buffer
           n == p - Len(b.bytes)
           o == Base(conn, dialogue)
           j == n - o
<1>1. /\ Good(conn, pos, out) /\ dialogue \in Dialogue /\ SaysWhatItMeans(dialogue)
      /\ eager \in BOOLEAN /\ gone \in BOOLEAN
  BY DialogueMeans DEF HandshakeInv
<1>2. /\ c.hello = conn.hello /\ c.auth = conn.auth /\ c.request = conn.request
      /\ c.method = conn.method /\ c.auth_ok = conn.auth_ok /\ c.reply = conn.reply
      /\ c.st = "REQUEST_READ" /\ c.interest = conn.interest
      /\ c.write_buffer = conn.write_buffer
      /\ c \in Conn /\ p \in Nat /\ Received(b, sent, p)
      /\ n = pos - Len(conn.read_buffer.bytes)
  BY DEF Receives, Other, Conn
<1>3. /\ Admitted(conn) /\ conn.request.state \notin Ending
      /\ conn.write_buffer.bytes = <<>> /\ conn.interest = "OP_READ"
      /\ conn.method # USERPASS => conn.auth = auth_parser_init
      /\ conn.hello.state = "DONE" /\ conn.method # NONE
  BY <1>1 DEF Good, Staged, Reading, Quiet, Ending, Admitted, NO_AUTH, USERPASS, NONE
<1>17. /\ dialogue.bad # "hello" /\ sent \in Seq(Nat) /\ o \in Nat
       /\ Len(sent) > o => Holds(sent, o, dialogue.request)
  <2>1. /\ dialogue.bad # "hello" /\ dialogue.hello \in Seq(Nat)
        /\ AuthMessage(conn, dialogue) \in Seq(Nat)
        /\ Messages(sent, dialogue.hello, AuthMessage(conn, dialogue), dialogue.request)
    BY <1>3, MessagesSent
  <2>2. o = Len(dialogue.hello) + Len(AuthMessage(conn, dialogue))
    BY DEF Base
  <2>3. Len(dialogue.hello) \in Nat /\ Len(AuthMessage(conn, dialogue)) \in Nat
    BY <2>1
  <2> HIDE DEF o
  <2>4. o \in Nat
    BY <2>2, <2>3
  <2>5. sent \in Seq(Nat) /\ (Len(sent) > o => Holds(sent, o, dialogue.request))
    BY <2>1, <2>2 DEF Messages
  <2> QED
    BY <2>1, <2>4, <2>5
<1>4. /\ n \in Nat /\ n >= o /\ RequestIs(c.request, sent, o, j)
      /\ c.request \in RequestParser
      /\ b \in BufferOf(Nat, DEFAULT_BUFFER) /\ b.bytes \in Seq(Nat) /\ Len(b.bytes) \in Nat
  <2>1. /\ c.request \in RequestParser /\ b \in BufferOf(Nat, DEFAULT_BUFFER)
        /\ b.bytes \in Seq(Nat) /\ Len(b.bytes) \in Nat
    BY <1>2, ConnFields
  <2>2. Len(b.bytes) <= p
    BY <1>2 DEF Received
  <2>4. conn.st = "REQUEST_READ" /\ conn.request = c.request
    BY <1>2
  <2>3. n >= o /\ RequestIs(c.request, sent, o, j)
    <3>1. Heard(conn, dialogue, sent, n)
      BY <1>1, <1>2 DEF Good
    <3> HIDE DEF n
    <3> QED
      BY <2>4, <3>1 DEF Heard
  <2> HIDE DEF b
  <2> QED
    BY <1>2, <2>1, <2>2, <2>3
<1> HIDE DEF r, n, o
<1>0. j \in Nat /\ o + j = n
  BY <1>4, <1>17
<1> HIDE DEF j
<1>5. PICK k \in 0 .. Len(b.bytes) :
        /\ Takes(b, r, k) /\ RequestIs(r.parser, sent, o, j + k)
        /\ r.parser \in RequestParser
  <2>1. o + j = p - Len(b.bytes)
    BY <1>0 DEF n
  <2>2. /\ sent \in Seq(Nat) /\ o + j + Len(b.bytes) <= Len(sent)
        /\ \A i \in 1 .. Len(b.bytes) : b.bytes[i] = sent[o + j + i]
    <3>1. sent \in Seq(Nat) /\ Holds(sent, o + j, b.bytes)
      <4> HIDE DEF b
      <4> QED
        BY <1>0, <1>2, <1>4, <1>17, <2>1, BytesAt
    <3> QED
      BY <3>1 DEF Holds
  <2>3. c.request.state \notin Ending /\ DEFAULT_BUFFER \in Nat
    BY <1>2, <1>3, StartupAssumption
  <2> HIDE DEF b
  <2>4. LET x == request_parser_consume(c.request, b)
        IN  x.parser \in RequestParser /\ \E k \in 0 .. Len(b.bytes) :
              Takes(b, x, k) /\ RequestIs(x.parser, sent, o, j + k)
    BY <1>0, <1>4, <1>17, <2>2, <2>3, RequestConsumed
  <2> QED
    BY <2>4 DEF r, b
<1>6. /\ r.buf \in BufferOf(Nat, DEFAULT_BUFFER) /\ Received(r.buf, sent, p)
      /\ p - Len(r.buf.bytes) = n + k
      /\ r.parser.state \notin Ending => r.buf.bytes = <<>>
  <2>1. r.buf = buffer_read_adv(b, k) /\ DEFAULT_BUFFER \in Nat
    BY <1>5, StartupAssumption DEF Takes
  <2>2. r.parser.state \notin Ending => k = Len(b.bytes)
    BY <1>5 DEF Takes
  <2> HIDE DEF b
  <2>3. /\ Keeps(DEFAULT_BUFFER, b, r.buf, sent, p, p, k)
        /\ k = Len(b.bytes) => r.buf.bytes = <<>>
    BY <1>2, <1>4, <2>1, ReceivedLess
  <2> QED
    BY <2>2, <2>3 DEF n, Keeps
<1>7. /\ d \in Conn /\ d.request = r.parser /\ d.read_buffer = r.buf
      /\ d.hello = conn.hello /\ d.auth = conn.auth /\ d.auth_ok = conn.auth_ok
      /\ d.method = conn.method /\ d.write_buffer.bytes = <<>>
      /\ d.st = "REQUEST_READ" /\ d.interest = "OP_READ"
  <2>1. d \in Conn
    BY <1>2, <1>5, <1>6 DEF Conn
  <2>2. /\ d.request = r.parser /\ d.read_buffer = r.buf /\ d.hello = c.hello
        /\ d.auth = c.auth /\ d.method = c.method /\ d.auth_ok = c.auth_ok
        /\ d.write_buffer = c.write_buffer /\ d.st = c.st /\ d.interest = c.interest
    BY <1>2 DEF Conn
  <2> QED
    BY <1>2, <1>3, <2>1, <2>2
<1>8. Awaited(conn)
  BY RequestAwaited
<1>10. k \in Nat /\ n + k \in Nat /\ Len(r.buf.bytes) \in Nat
  <2>1. r.buf.bytes \in Seq(Nat)
    BY <1>6, BufferFields, StartupAssumption
  <2>2. k \in Nat
    BY <1>4, <1>5
  <2> QED
    BY ONLY <1>4, <2>1, <2>2
<1>9. r.parser.state \in Ending =>
        /\ r.parser.state = "ERROR" => dialogue.bad = "request"
        /\ r.parser.state = "DONE" =>
             /\ dialogue.bad # "request" /\ n + k = o + Len(dialogue.request)
             /\ r.parser.cmd = dialogue.cmd /\ r.parser.atyp = dialogue.atyp
             /\ r.parser.addr = dialogue.addr /\ r.parser.port = dialogue.port
  <2> SUFFICES ASSUME r.parser.state \in Ending
               PROVE  /\ r.parser.state = "ERROR" => dialogue.bad = "request"
                      /\ r.parser.state = "DONE" =>
                           /\ dialogue.bad # "request" /\ n + k = o + Len(dialogue.request)
                           /\ r.parser.cmd = dialogue.cmd /\ r.parser.atyp = dialogue.atyp
                           /\ r.parser.addr = dialogue.addr /\ r.parser.port = dialogue.port
    OBVIOUS
  <2> DEFINE v == j + k
  <2>2. v \in Nat /\ v > 0 /\ n + k = o + v /\ RequestIs(r.parser, sent, o, v)
    <3>1. v \in Nat /\ n + k = o + v
      BY <1>0, <1>10, <1>17
    <3>2. RequestIs(r.parser, sent, o, v)
      BY <1>5
    <3>4. r.parser.state # "VERSION"
      BY DEF Ending
    <3> HIDE DEF v
    <3>3. v # 0
      BY <3>2, <3>4, RequestPhases
         DEF RequestIs, TargetIs, AddressIs, InAddress, BehindAddress, request_parser_init
    <3> QED
      BY <3>1, <3>2, <3>3
  <2> HIDE DEF v
  <2>3. Len(sent) > o
    <3>1. Len(sent) \in Nat /\ p <= Len(sent)
      <4>1. p \in 0 .. Len(sent)
        BY <1>6 DEF Received
      <4> QED
        BY <1>17, <4>1
    <3> QED
      BY <1>2, <1>6, <1>10, <1>17, <2>2, <3>1
  <2>4. /\ r.parser.state = "ERROR" => dialogue.bad = "request"
        /\ r.parser.state = "DONE" =>
             /\ dialogue.bad # "request" /\ v = Len(dialogue.request)
             /\ r.parser.cmd = dialogue.cmd /\ r.parser.atyp = dialogue.atyp
             /\ r.parser.addr = dialogue.addr /\ r.parser.port = dialogue.port
    BY <1>1, <1>5, <1>17, <2>2, <2>3, RequestHeard
  <2> QED
    BY <2>2, <2>4
<1>11. c2 \in CASE r.parser.state = "DONE"  -> process_request(d)
                [] r.parser.state = "ERROR" -> {build_reply(d, GENERAL_FAILURE, NONE)}
                [] OTHER                    -> {d}
  BY DEF request_read, r, d
<1>12. r.parser.state \in Ending => Asked(d, p)
  <2> SUFFICES ASSUME r.parser.state \in Ending PROVE Asked(d, p)
    OBVIOUS
  <2> HIDE DEF d
  <2>1. Received(d.read_buffer, sent, p) /\ p - Len(d.read_buffer.bytes) = n + k
    BY <1>6, <1>7
  <2> QED
    BY <1>7, <1>9, <2>1 DEF Asked, o
<1>18. NONE \in Family /\ GENERAL_FAILURE \in Nat /\ GENERAL_FAILURE # SUCCESS
       /\ COMMAND_NOT_SUPPORTED \in Nat
  BY DEF NONE, Family, GENERAL_FAILURE, SUCCESS, COMMAND_NOT_SUPPORTED
<1> HIDE DEF d, b
<1>14. CASE r.parser.state = "DONE"
  <2>1. Asked(d, p) /\ d.request.state = "DONE" /\ c2 \in process_request(d)
    BY <1>7, <1>11, <1>12, <1>14 DEF Ending
  <2>2. CASE c2 \in ConnectionAttempt(d)
    BY <1>8, <2>1, <2>2, RequestAttempted
  <2>3. CASE c2 = build_reply(d, COMMAND_NOT_SUPPORTED, NONE)
    BY <1>8, <1>18, <2>1, <2>3, RequestDecided
  <2>4. CASE c2 = [d EXCEPT !.st = "REQUEST_CONNECTING", !.interest = "OP_NOOP"]
    BY <1>8, <2>1, <2>4, RequestWaits
  <2> QED
    BY <2>1, <2>2, <2>3, <2>4 DEF process_request
<1>15. CASE r.parser.state = "ERROR"
  <2>1. Asked(d, p) /\ c2 = build_reply(d, GENERAL_FAILURE, NONE)
    BY <1>11, <1>12, <1>15 DEF Ending
  <2> QED
    BY <1>8, <1>18, <2>1, RequestDecided
<1>16. CASE r.parser.state \notin Ending
  <2>1. c2 = d /\ r.parser.state # "DONE" /\ r.parser.state # "ERROR" /\ r.buf.bytes = <<>>
    BY <1>6, <1>11, <1>16 DEF Ending
  <2>5. /\ Spoken(conn, dialogue, eager, turn, sent) /\ Granted(conn, past)
        /\ Heard(conn, dialogue, sent, pos - Len(conn.read_buffer.bytes))
        /\ out \in Seq(Nat) /\ out = HelloReply(conn) \o AuthReply(conn) /\ conn \in Conn
        /\ conn.auth.state # "ERROR"
    BY <1>8 DEF Awaited
  <2>6. Admitted(c2)
    BY <1>3, <1>7, <2>1 DEF Admitted
  <2>7. Staged(c2)
    BY <1>3, <1>7, <1>16, <2>1, <2>6 DEF Staged, Reading, Writing, Quiet
  <2>8. Answered(c2, out)
    <3>1. HelloReply(c2) = HelloReply(conn) /\ AuthReply(c2) = AuthReply(conn) /\ ~Decided(c2)
      BY <1>7, <2>1 DEF HelloReply, AuthReply, Decided, Ending
    <3>2. HelloReply(conn) \in Seq(Nat) /\ AuthReply(conn) \in Seq(Nat)
      BY <2>5, ReplyBytes
    <3>3. out \o c2.write_buffer.bytes = HelloReply(c2) \o AuthReply(c2) \o <<>>
      BY <1>7, <2>1, <2>5, <3>1
    <3> QED
      BY <2>5, <3>1, <3>3 DEF Answered
  <2> DEFINE v == n + k
             w == v - o
  <2>2. RequestIs(c2.request, sent, o, w) /\ v >= o
    <3>2. w = j + k /\ v >= o
      BY <1>0, <1>4, <1>10, <1>17
    <3>3. RequestIs(r.parser, sent, o, w)
      BY <1>5, <3>2
    <3> HIDE DEF w, v
    <3> QED
      BY <1>7, <2>1, <3>2, <3>3
  <2>3. w = v - o
    OBVIOUS
  <2> HIDE DEF v, w
  <2>4. Heard(c2, dialogue, sent, v)
    <3>1. /\ c2.st = "REQUEST_READ" /\ c2.hello = conn.hello /\ c2.auth = conn.auth
          /\ c2.request.state # "DONE" /\ c2.request.state # "ERROR"
      BY <1>7, <2>1
    <3>2. v >= Base(c2, dialogue)
          /\ RequestIs(c2.request, sent, Base(c2, dialogue), v - Base(c2, dialogue))
      <4>1. Base(c2, dialogue) = o
        BY <1>7, <2>1 DEF Base, AuthMessage, o
      <4> QED
        BY <2>2, <2>3, <4>1
    <3>4. /\ conn.hello.state = "ERROR" => dialogue.bad = "hello"
          /\ conn.auth.state = "ERROR" => dialogue.bad = "auth"
          /\ conn.hello.state = "DONE" =>
               /\ dialogue.bad # "hello"
               /\ conn.hello.has_noauth = (NO_AUTH \in dialogue.methods)
               /\ conn.hello.has_userpass = (USERPASS \in dialogue.methods)
          /\ conn.auth.state = "DONE" =>
               /\ dialogue.bad # "auth" /\ conn.auth.username = dialogue.user
               /\ conn.auth.password = dialogue.pass
      BY <2>5 DEF Heard
    <3> QED
      BY ONLY <3>1, <3>2, <3>4 DEF Heard
  <2>10. Heard(c2, dialogue, sent, n + k)
    BY <2>4 DEF v
  <2>12. Spoken(c2, dialogue, eager, turn, sent)
    <3>1. AuthMessage(c2, dialogue) = AuthMessage(conn, dialogue)
      BY <1>7, <2>1 DEF AuthMessage
    <3> QED
      BY <1>1, <1>3, <1>7, <2>1, <2>5, <3>1 DEF Spoken, Utterance, Reading
  <2>13. Granted(c2, past)
    BY <1>7, <2>1, <2>5 DEF Granted
  <2>14. Caused(c2, dialogue, eager, gone)
    BY <1>7, <2>1 DEF Caused
  <2> QED
    BY <1>6, <1>7, <2>1, <2>7, <2>8, <2>10, <2>12, <2>13, <2>14 DEF Good
<1> QED
  BY <1>14, <1>15, <1>16 DEF Ending
(* What does not change as long as no message is taken.                    *)
Continues(c2, o2) ==
  /\ c2 \in Conn /\ Other(conn, c2) /\ o2 \in Seq(Nat)
  /\ o2 \o c2.write_buffer.bytes = out \o conn.write_buffer.bytes

LEMMA NothingTaken ==
  ASSUME Good(conn, pos, out), dialogue \in Dialogue, NEW c2, NEW o2, Continues(c2, o2),
         conn.st # "REQUEST_CONNECTING", c2.st # "REQUEST_CONNECTING"
  PROVE  /\ Answered(c2, o2) /\ Received(c2.read_buffer, sent, pos) /\ Granted(c2, past)
         /\ AuthMessage(c2, dialogue) = AuthMessage(conn, dialogue)
         /\ Base(c2, dialogue) = Base(conn, dialogue)
<1>1. /\ c2.hello = conn.hello /\ c2.auth = conn.auth /\ c2.request = conn.request
      /\ c2.method = conn.method /\ c2.auth_ok = conn.auth_ok /\ c2.reply = conn.reply
      /\ c2.read_buffer = conn.read_buffer
  BY DEF Continues, Other
<1>2. Answered(conn, out) /\ Received(conn.read_buffer, sent, pos) /\ Granted(conn, past)
  BY DEF Good
<1>3. Answered(c2, o2)
  <2>1. Decided(c2) = Decided(conn)
    BY <1>1 DEF Decided
  <2>2. \A f : RequestReply(c2, f) = RequestReply(conn, f)
    BY <1>1 DEF RequestReply
  <2>3. HelloReply(c2) = HelloReply(conn) /\ AuthReply(c2) = AuthReply(conn)
    BY <1>1 DEF HelloReply, AuthReply
  <2>4. PICK r \in IF Decided(conn) THEN {RequestReply(conn, f) : f \in Family} ELSE {<<>>} :
          out \o conn.write_buffer.bytes = HelloReply(conn) \o AuthReply(conn) \o r
    BY <1>2 DEF Answered
  <2>5. r \in IF Decided(c2) THEN {RequestReply(c2, f) : f \in Family} ELSE {<<>>}
    BY <2>1, <2>2, <2>4
  <2>6. o2 \in Seq(Nat) /\ o2 \o c2.write_buffer.bytes = HelloReply(c2) \o AuthReply(c2) \o r
    BY <2>3, <2>4 DEF Continues
  <2> QED
    BY <2>5, <2>6 DEF Answered
<1>4. Received(c2.read_buffer, sent, pos) /\ Granted(c2, past)
  BY <1>1, <1>2 DEF Granted
<1>5. /\ AuthMessage(c2, dialogue) = AuthMessage(conn, dialogue)
      /\ Base(c2, dialogue) = Base(conn, dialogue)
  BY <1>1 DEF AuthMessage, Base
<1> QED
  BY <1>3, <1>4, <1>5

(* The connection is lost, or its buffer is full.                          *)
LEMMA BreaksOff ==
  ASSUME HandshakeInv, conn.interest \in {"OP_READ", "OP_WRITE"},
         gone \/ (eager /\ Space = 0)
  PROVE  Good(Ended(conn, "ERROR_STATE"), pos, out)
<1> DEFINE c2 == Ended(conn, "ERROR_STATE")
<1>1. /\ Good(conn, pos, out) /\ dialogue \in Dialogue /\ eager \in BOOLEAN
      /\ gone \in BOOLEAN
  BY DialogueMeans DEF HandshakeInv
<1>2. /\ conn \in Conn /\ Staged(conn) /\ Spoken(conn, dialogue, eager, turn, sent)
      /\ Heard(conn, dialogue, sent, pos - Len(conn.read_buffer.bytes)) /\ out \in Seq(Nat)
  BY <1>1 DEF Good, Answered
<1>3. /\ c2 \in Conn /\ c2.st = "ERROR_STATE" /\ c2.interest = "OP_NOOP"
      /\ c2.write_buffer = conn.write_buffer /\ Other(conn, c2)
  BY <1>2, EndedIs
<1> HIDE DEF c2
<1>4. /\ c2.hello = conn.hello /\ c2.auth = conn.auth /\ c2.request = conn.request
      /\ c2.method = conn.method /\ c2.auth_ok = conn.auth_ok
      /\ c2.read_buffer = conn.read_buffer
  BY <1>3 DEF Other
<1>5. conn.st # "REQUEST_CONNECTING" /\ c2.st # "REQUEST_CONNECTING"
  BY <1>2, <1>3 DEF Staged, Reading, Writing
<1>6. /\ Answered(c2, out) /\ Received(c2.read_buffer, sent, pos) /\ Granted(c2, past)
      /\ AuthMessage(c2, dialogue) = AuthMessage(conn, dialogue)
  <2>1. Continues(c2, out)
    BY <1>2, <1>3 DEF Continues
  <2> QED
    BY <1>1, <1>5, <2>1, NothingTaken
<1>7. Staged(c2)
  <2>1. /\ conn.hello.state # "DONE" =>
             conn.auth = auth_parser_init /\ conn.request = request_parser_init
        /\ conn.method # USERPASS => conn.auth = auth_parser_init
        /\ conn.request # request_parser_init => Admitted(conn)
    BY <1>2 DEF Staged
  <2>2. Admitted(c2) = Admitted(conn)
    BY <1>4 DEF Admitted
  <2> QED
    BY <1>3, <1>4, <2>1, <2>2 DEF Staged, Reading, Writing
<1> DEFINE v == pos - Len(conn.read_buffer.bytes)
<1>8. Heard(c2, dialogue, sent, v)
  <2>1. Heard(conn, dialogue, sent, v)
    BY <1>2
  <2> HIDE DEF v
  <2>2. /\ c2.st # "HELLO_READ" /\ c2.st # "HELLO_WRITE" /\ c2.st # "AUTH_READ"
        /\ c2.st # "AUTH_WRITE" /\ c2.st # "REQUEST_READ" /\ c2.st # "REQUEST_WRITE"
        /\ c2.st # "COPY" /\ c2.st # "REQUEST_CONNECTING"
    BY <1>3
  <2> QED
    BY ONLY <1>4, <2>1, <2>2 DEF Heard
<1>9. Spoken(c2, dialogue, eager, turn, sent)
  BY <1>1, <1>2, <1>3, <1>4, <1>6 DEF Spoken, Utterance, Reading
<1>10. Caused(c2, dialogue, eager, gone)
  BY <1>1, <1>4 DEF Caused, Space
<1>11. Heard(c2, dialogue, sent, pos - Len(c2.read_buffer.bytes))
  BY <1>4, <1>8 DEF v
<1> QED
  BY <1>3, <1>6, <1>7, <1>9, <1>10, <1>11 DEF Good, c2

(* The bytes that recv gives are put into the buffer.                      *)
LEMMA Receiving ==
  ASSUME HandshakeInv, NEW n \in Nat, n <= Unreceived, n <= Space, NEW p, p = pos + n
  PROVE  Receives([conn EXCEPT !.read_buffer =
                     buffer_write_adv(@, SubSeq(sent, pos + 1, pos + n))], p)
<1> DEFINE b == conn.read_buffer
           b2 == buffer_write_adv(b, SubSeq(sent, pos + 1, pos + n))
           c == [conn EXCEPT !.read_buffer = b2]
<1>1. conn \in Conn /\ Received(b, sent, pos)
  BY DEF HandshakeInv, Good
<1>2. b \in BufferOf(Nat, DEFAULT_BUFFER) /\ DEFAULT_BUFFER \in Nat
  BY <1>1, ConnFields, StartupAssumption
<1>3. pos \in Nat /\ p \in Nat
  <2>1. pos \in 0 .. Len(sent) /\ sent \in Seq(Nat)
    BY <1>1 DEF Received
  <2>2. pos \in Nat
    BY <2>1
  <2> QED
    BY <2>2
<1>4. Keeps(DEFAULT_BUFFER, b, b2, sent, pos, p, 0)
  <2>1. n <= Len(sent) - pos /\ n <= WriteSpace(b)
    BY DEF Unreceived, Space
  <2> HIDE DEF b
  <2>2. b2 = buffer_write_adv(b, SubSeq(sent, pos + 1, pos + n))
    OBVIOUS
  <2> HIDE DEF b2
  <2>3. Keeps(DEFAULT_BUFFER, b, b2, sent, pos, pos + n, 0)
    BY <1>1, <1>2, <2>1, <2>2, ReceivedMore
  <2> QED
    BY <2>3
<1> HIDE DEF b2
<1>5. /\ b2 \in BufferOf(Nat, DEFAULT_BUFFER) /\ Received(b2, sent, p)
      /\ p - Len(b2.bytes) = pos - Len(b.bytes)
  <2>1. /\ b2 \in BufferOf(Nat, DEFAULT_BUFFER) /\ Received(b2, sent, p)
        /\ p - Len(b2.bytes) = pos - Len(b.bytes) + 0
    BY <1>4 DEF Keeps
  <2>2. Len(b.bytes) \in Nat
    BY <1>1, ConnFields
  <2>3. pos - Len(b.bytes) + 0 = pos - Len(b.bytes)
    <3> HIDE DEF b
    <3> QED
      BY ONLY <1>3, <2>2
  <2> QED
    BY ONLY <2>1, <2>3
<1>6. /\ c \in Conn /\ c.read_buffer = b2 /\ c.hello = conn.hello /\ c.auth = conn.auth
      /\ c.request = conn.request /\ c.method = conn.method /\ c.auth_ok = conn.auth_ok
      /\ c.reply = conn.reply /\ c.st = conn.st /\ c.interest = conn.interest
      /\ c.write_buffer = conn.write_buffer
  BY <1>1, <1>5 DEF Conn
<1>7. Other([c EXCEPT !.read_buffer = conn.read_buffer], conn)
  BY <1>1 DEF Conn, Other
<1>8. Receives(c, p)
  <2> HIDE DEF c
  <2> QED
    BY <1>3, <1>5, <1>6, <1>7 DEF Receives
<1> QED
  BY <1>8 DEF c, b2

(* What keeps the invariant is to leave the connection good.               *)
LEMMA KeepsGood ==
  ASSUME HandshakeInv, Good(conn', pos', out'),
         UNCHANGED <<db, cfg, past, dialogue, eager, turn, sent, gone>>
  PROVE  HandshakeInv'
<1>1. Good(conn, pos, out)'
  BY DEF Good
<1> QED
  BY <1>1 DEF HandshakeInv

LEMMA ReadKeepsInv ==
  ASSUME HandshakeInv, socksv5_read PROVE HandshakeInv'
<1>1. /\ conn.interest = "OP_READ"
      /\ UNCHANGED <<db, cfg, past, dialogue, eager, turn, sent, out, gone>>
  BY DEF socksv5_read
<1>2. /\ conn \in Conn /\ Staged(conn) /\ eager \in BOOLEAN
      /\ Spoken(conn, dialogue, eager, turn, sent) /\ Received(conn.read_buffer, sent, pos)
  BY DEF HandshakeInv, Good
<1>3. conn.st \in Reading
  BY <1>1, <1>2 DEF Staged, Writing
<1>4. CASE Space = 0 /\ conn' = Ended(conn, "ERROR_STATE") /\ UNCHANGED pos
  <2>1. eager = TRUE
    <3> SUFFICES ASSUME eager = FALSE PROVE FALSE
      BY <1>2
    <3>1. conn.read_buffer.bytes = <<>>
      BY <1>2, <1>3 DEF Spoken
    <3>2. conn.read_buffer.read = 0
      BY <1>2, <3>1 DEF Received
    <3>3. DEFAULT_BUFFER \in Nat \ {0} /\ WriteSpace(conn.read_buffer) = DEFAULT_BUFFER
      <4>1. DEFAULT_BUFFER \in Nat \ {0}
        BY StartupAssumption
      <4>2. conn.read_buffer \in BufferOf(Nat, DEFAULT_BUFFER)
        BY <1>2, ConnFields
      <4>3. WriteSpace(conn.read_buffer) = DEFAULT_BUFFER - (0 + Len(<<>>))
        BY <3>1, <3>2, <4>1, <4>2, BufferFields
      <4> QED
        BY <4>1, <4>3
    <3> QED
      BY <1>4, <3>3 DEF Space
  <2>2. Good(conn', pos', out')
    BY <1>1, <1>4, <2>1, BreaksOff
  <2> QED
    BY <1>1, <2>2, KeepsGood
<1>5. CASE \E n \in RecvCuts \cup {Unreceived, Space} :
             /\ n > 0 /\ n <= Unreceived /\ n <= Space
             /\ pos' = pos + n
             /\ LET c == [conn EXCEPT !.read_buffer =
                            buffer_write_adv(@, SubSeq(sent, pos + 1, pos + n))]
                IN  conn' \in CASE conn.st = "HELLO_READ"   -> hello_read(c)
                                [] conn.st = "AUTH_READ"    -> auth_read(c)
                                [] conn.st = "REQUEST_READ" -> request_read(c)
  <2>1. PICK n \in RecvCuts \cup {Unreceived, Space} :
             /\ n > 0 /\ n <= Unreceived /\ n <= Space
             /\ pos' = pos + n
             /\ LET c == [conn EXCEPT !.read_buffer =
                            buffer_write_adv(@, SubSeq(sent, pos + 1, pos + n))]
                IN  conn' \in CASE conn.st = "HELLO_READ"   -> hello_read(c)
                                [] conn.st = "AUTH_READ"    -> auth_read(c)
                                [] conn.st = "REQUEST_READ" -> request_read(c)
    BY <1>5
  <2> DEFINE c == [conn EXCEPT !.read_buffer =
                     buffer_write_adv(@, SubSeq(sent, pos + 1, pos + n))]
  <2>2. n \in Nat
    <3>1. RecvCuts \subseteq Nat /\ DEFAULT_BUFFER \in Nat
      BY HandshakeAssumption, StartupAssumption
    <3>2. Unreceived \in Int
      <4>1. pos \in 0 .. Len(sent) /\ sent \in Seq(Nat)
        BY <1>2 DEF Received
      <4> QED
        BY <4>1 DEF Unreceived
    <3>3. Space \in Int
      <4>1. conn.read_buffer \in BufferOf(Nat, DEFAULT_BUFFER)
        BY <1>2, ConnFields
      <4>2. /\ Space = DEFAULT_BUFFER - (conn.read_buffer.read + Len(conn.read_buffer.bytes))
            /\ conn.read_buffer.read \in Nat /\ Len(conn.read_buffer.bytes) \in Nat
        BY <3>1, <4>1, BufferFields DEF Space
      <4> QED
        BY <3>1, <4>2
    <3> QED
      BY <2>1, <3>1, <3>2, <3>3
  <2>3. Receives(c, pos')
    BY <2>1, <2>2, Receiving
  <2>4. conn' \in CASE conn.st = "HELLO_READ"   -> hello_read(c)
                    [] conn.st = "AUTH_READ"    -> auth_read(c)
                    [] conn.st = "REQUEST_READ" -> request_read(c)
    BY <2>1
  <2> HIDE DEF c
  <2>5. Good(conn', pos', out)
    <3>1. CASE conn.st = "HELLO_READ"
      BY <2>3, <2>4, <3>1, HelloReads
    <3>2. CASE conn.st = "AUTH_READ"
      BY <2>3, <2>4, <3>2, AuthReads
    <3>3. CASE conn.st = "REQUEST_READ"
      BY <2>3, <2>4, <3>3, RequestReads
    <3> QED
      BY <1>3, <3>1, <3>2, <3>3 DEF Reading
  <2>6. Good(conn', pos', out')
    BY <1>1, <2>5
  <2> QED
    BY <1>1, <2>6, KeepsGood
<1> QED
  BY <1>4, <1>5 DEF socksv5_read
(* send takes the first bytes of the reply; what is said stays the same.   *)
SendsOn(c, o, c2, o2) ==
  /\ c2 \in Conn /\ Other(c, c2) /\ c2.st = c.st /\ c2.interest = c.interest
  /\ o2 \in Seq(Nat)
  /\ o2 \o c2.write_buffer.bytes = o \o c.write_buffer.bytes
  /\ buffer_can_read(c2.write_buffer) <=> c2.write_buffer.bytes # <<>>

LEMMA SendTakes ==
  ASSUME NEW c \in Conn, NEW o \in Seq(Nat), NEW w \in 0 .. Len(c.write_buffer.bytes),
         NEW c2, c2 = Sent(c, w),
         NEW o2, o2 = o \o SubSeq(c.write_buffer.bytes, 1, w)
  PROVE  SendsOn(c, o, c2, o2)
<1> DEFINE b == c.write_buffer
           b2 == buffer_read_adv(b, w)
           f == SubSeq(b.bytes, 1, w)
<1>1. b \in BufferOf(Nat, DEFAULT_BUFFER) /\ DEFAULT_BUFFER \in Nat
  BY ConnFields, StartupAssumption
<1>2. /\ b2 \in BufferOf(Nat, DEFAULT_BUFFER) /\ f \o b2.bytes = b.bytes /\ f \in Seq(Nat)
  BY <1>1, ReadAdvDrops
<1>3. b2.bytes \in Seq(Nat) /\ (buffer_can_read(b2) <=> b2.bytes # <<>>)
  <2>1. b2 \in BufferOf(Nat, DEFAULT_BUFFER)
    BY <1>2
  <2> HIDE DEF b2
  <2> QED
    BY ONLY <1>1, <2>1, BufferFields
<1>4. c2 = [c EXCEPT !.write_buffer = b2]
  BY DEF Sent
<1>5. o2 = o \o f
  OBVIOUS
<1> HIDE DEF b2, f
<1>6. /\ c2 \in Conn /\ Other(c, c2) /\ c2.st = c.st /\ c2.interest = c.interest
      /\ c2.write_buffer = b2
  BY <1>2, <1>4 DEF Conn, Other
<1>7. o2 \in Seq(Nat) /\ o2 \o b2.bytes = o \o b.bytes
  <2> DEFINE g == b2.bytes
  <2>3. f \in Seq(Nat) /\ g \in Seq(Nat)
    BY <1>2, <1>3
  <2> HIDE DEF g
  <2>4. (o \o f) \o g = o \o (f \o g)
    BY ONLY o \in Seq(Nat), <2>3, ConcatAssociative, SMTT(40)
  <2>5. o \o f \in Seq(Nat)
    BY <2>3
  <2>1. (o \o f) \o b2.bytes = o \o (f \o b2.bytes) /\ o \o f \in Seq(Nat)
    BY <2>4, <2>5 DEF g
  <2> QED
    BY <1>2, <1>5, <2>1
<1> QED
  BY <1>3, <1>6, <1>7 DEF SendsOn

(* What the parsers have heard does not depend on where the connection is, *)
(* except for the message they are reading.                                *)
LEMMA HeardStill ==
  ASSUME NEW c, NEW c2, NEW d, NEW q, NEW n, Heard(c, d, q, n), Other(c, c2),
         c2.st = "AUTH_READ" =>
           n >= Len(d.hello) /\ AuthIs(c.auth, q, Len(d.hello), n - Len(d.hello)),
         c2.st = "REQUEST_READ" =>
           n >= Base(c, d) /\ RequestIs(c.request, q, Base(c, d), n - Base(c, d)),
         c2.st = "COPY" /\ c.request.state = "DONE" => n = Base(c, d) + Len(d.request),
         c2.st \in {"AUTH_READ", "REQUEST_READ", "COPY", "DONE"}
  PROVE  Heard(c2, d, q, n)
<1>1. c2.hello = c.hello /\ c2.auth = c.auth /\ c2.request = c.request
        /\ Base(c2, d) = Base(c, d)
  BY DEF Other, Base, AuthMessage
<1>2. /\ c2.st # "HELLO_READ" /\ c2.st # "HELLO_WRITE" /\ c2.st # "AUTH_WRITE"
      /\ c2.st # "REQUEST_WRITE" /\ c2.st # "REQUEST_CONNECTING"
  OBVIOUS
<1>3. /\ c2.hello.state = "ERROR" => d.bad = "hello"
      /\ c2.auth.state = "ERROR" => d.bad = "auth"
      /\ c2.request.state = "ERROR" => d.bad = "request"
      /\ c2.hello.state = "DONE" =>
           /\ d.bad # "hello"
           /\ c2.hello.has_noauth = (NO_AUTH \in d.methods)
           /\ c2.hello.has_userpass = (USERPASS \in d.methods)
      /\ c2.auth.state = "DONE" =>
           d.bad # "auth" /\ c2.auth.username = d.user /\ c2.auth.password = d.pass
      /\ c2.request.state = "DONE" =>
           /\ d.bad # "request" /\ c2.request.cmd = d.cmd /\ c2.request.atyp = d.atyp
           /\ c2.request.addr = d.addr /\ c2.request.port = d.port
  BY <1>1 DEF Heard
<1>4. /\ c2.st = "AUTH_READ" =>
           n >= Len(d.hello) /\ AuthIs(c2.auth, q, Len(d.hello), n - Len(d.hello))
      /\ c2.st = "REQUEST_READ" =>
           n >= Base(c2, d) /\ RequestIs(c2.request, q, Base(c2, d), n - Base(c2, d))
      /\ c2.st = "COPY" /\ c2.request.state = "DONE" => n = Base(c2, d) + Len(d.request)
  BY <1>1
<1> QED
  BY ONLY <1>2, <1>3, <1>4 DEF Heard

(* What of a connection is left to show when its reply is out.             *)
LEMMA ReplyIsOut ==
  ASSUME HandshakeInv, conn.st \in Writing, NEW c2, NEW o2, Continues(c2, o2),
         c2.write_buffer.bytes = <<>>, c2.st \in {"AUTH_READ", "REQUEST_READ", "COPY", "DONE"},
         Staged(c2),
         Heard(c2, dialogue, sent, pos - Len(conn.read_buffer.bytes)),
         c2.st = "AUTH_READ" => conn.st = "HELLO_WRITE",
         c2.st = "REQUEST_READ" => conn.st \in {"HELLO_WRITE", "AUTH_WRITE"}
  PROVE  Good(c2, pos, o2)
<1>1. /\ Good(conn, pos, out) /\ dialogue \in Dialogue /\ eager \in BOOLEAN
  BY DialogueMeans DEF HandshakeInv
<1>2. Spoken(conn, dialogue, eager, turn, sent) /\ Staged(conn)
  BY <1>1 DEF Good
<1>3. conn.st # "REQUEST_CONNECTING" /\ c2.st # "REQUEST_CONNECTING"
  BY DEF Writing
<1>4. /\ Answered(c2, o2) /\ Received(c2.read_buffer, sent, pos) /\ Granted(c2, past)
      /\ AuthMessage(c2, dialogue) = AuthMessage(conn, dialogue)
  BY <1>1, <1>3, NothingTaken
<1>5. /\ c2 \in Conn /\ c2.hello = conn.hello /\ c2.method = conn.method
      /\ c2.read_buffer = conn.read_buffer
  BY DEF Continues, Other
<1>6. conn.hello.state = "DONE"
  BY <1>2 DEF Staged, Writing
<1>7. Spoken(c2, dialogue, eager, turn, sent)
  <2>1. eager = TRUE => Spoken(c2, dialogue, eager, turn, sent)
    BY <1>2 DEF Spoken
  <2>2. ASSUME eager = FALSE PROVE Spoken(c2, dialogue, eager, turn, sent)
    <3>1. /\ turn \in Turns /\ sent = Utterance(conn, dialogue, turn)
          /\ turn = "auth" => conn.method = USERPASS
          /\ conn.st = "HELLO_WRITE" => turn \in {"start", "hello"}
          /\ conn.st \in {"HELLO_WRITE", "AUTH_WRITE"} => conn.read_buffer.bytes = <<>>
      BY <1>2, <2>2 DEF Spoken
    <3>2. sent = Utterance(c2, dialogue, turn)
      BY <1>4, <3>1 DEF Utterance, Turns
    <3> QED
      BY <1>5, <1>6, <2>2, <3>1, <3>2 DEF Spoken, Reading
  <2> QED
    BY <1>1, <2>1, <2>2
<1>8. Caused(c2, dialogue, eager, gone)
  BY DEF Caused
<1>9. Heard(c2, dialogue, sent, pos - Len(c2.read_buffer.bytes))
  BY <1>5
<1> QED
  BY <1>4, <1>5, <1>7, <1>8, <1>9 DEF Good
\* The connection once the last byte of its reply is out.
Said(c, o2) ==
  /\ Continues(c, o2) /\ c.st = conn.st /\ c.interest = conn.interest
  /\ c.write_buffer.bytes = <<>>

(* The answer to the greeting is out.                                      *)
LEMMA HelloWrites ==
  ASSUME HandshakeInv, conn.st = "HELLO_WRITE", NEW c, NEW o2, Said(c, o2)
  PROVE  Good(hello_write(c), pos, o2)
<1> DEFINE n == pos - Len(conn.read_buffer.bytes)
           c2 == hello_write(c)
<1>1. /\ conn \in Conn /\ Staged(conn) /\ Heard(conn, dialogue, sent, n)
      /\ dialogue \in Dialogue
  BY DialogueMeans DEF HandshakeInv, Good
<1>2. /\ conn.auth = auth_parser_init /\ conn.request = request_parser_init
      /\ conn.hello.state = "DONE"
  BY <1>1 DEF Staged, Writing
<1>3. n = Len(dialogue.hello) /\ Len(dialogue.hello) \in Nat
  <2>1. Len(dialogue.hello) \in Nat
    BY <1>1 DEF Dialogue
  <2> HIDE DEF n
  <2> QED
    BY <1>1, <2>1 DEF Heard
<1>4. /\ c \in Conn /\ Other(conn, c) /\ o2 \in Seq(Nat) /\ c.write_buffer.bytes = <<>>
      /\ o2 \o c.write_buffer.bytes = out \o conn.write_buffer.bytes
  BY DEF Said, Continues
<1>5. c.method = conn.method /\ conn.method \in {NO_AUTH, USERPASS, NONE}
  BY <1>1, <1>4, ConnFields DEF Other
<1>6. /\ c2 \in Conn /\ Other(c, c2) /\ c2.write_buffer = c.write_buffer
      /\ \/ conn.method = NONE /\ c2.st = "DONE" /\ c2.interest = "OP_NOOP"
         \/ conn.method = USERPASS /\ c2.st = "AUTH_READ" /\ c2.interest = "OP_READ"
         \/ conn.method = NO_AUTH /\ c2.st = "REQUEST_READ" /\ c2.interest = "OP_READ"
  <2>1. CASE conn.method = NONE
    <3>1. c2 = Ended(c, "DONE")
      BY <1>5, <2>1 DEF hello_write, NONE, USERPASS, NO_AUTH
    <3> QED
      BY <1>4, <2>1, <3>1, EndedIs
  <2>2. CASE conn.method = USERPASS
    <3>1. c2 = Listens(c, "AUTH_READ") /\ "AUTH_READ" \in Reading
      BY <1>5, <2>2 DEF hello_write, NONE, USERPASS, NO_AUTH, Reading
    <3> QED
      BY <1>4, <2>2, <3>1, ListensIs
  <2>3. CASE conn.method = NO_AUTH
    <3>1. c2 = Listens(c, "REQUEST_READ") /\ "REQUEST_READ" \in Reading
      BY <1>5, <2>3 DEF hello_write, NONE, USERPASS, NO_AUTH, Reading
    <3> QED
      BY <1>4, <2>3, <3>1, ListensIs
  <2> QED
    BY <1>5, <2>1, <2>2, <2>3
<1> HIDE DEF c2
<1>7. Other(conn, c2) /\ Continues(c2, o2) /\ c2.write_buffer.bytes = <<>>
  <2>1. Other(conn, c2)
    BY <1>4, <1>6 DEF Other
  <2> QED
    BY <1>4, <1>6, <2>1 DEF Continues
<1>8. Staged(c2)
  BY <1>2, <1>6, <1>7 DEF Staged, Reading, Writing, Quiet, Other, Admitted, Ending,
       auth_parser_init, request_parser_init, NONE, USERPASS, NO_AUTH
<1>9. Heard(c2, dialogue, sent, n)
  <2>1. AuthIs(conn.auth, sent, Len(dialogue.hello), 0)
    BY <1>2 DEF AuthIs
  <2>2. conn.method = NO_AUTH =>
          Base(conn, dialogue) = n /\ RequestIs(conn.request, sent, Base(conn, dialogue), 0)
    <3>1. conn.method = NO_AUTH => Base(conn, dialogue) = Len(dialogue.hello) + Len(<<>>)
      BY DEF Base, AuthMessage, NO_AUTH, USERPASS
    <3>2. Len(<<>>) = 0
      OBVIOUS
    <3> HIDE DEF n
    <3>3. conn.method = NO_AUTH => Base(conn, dialogue) = n
      BY <1>3, <3>1, <3>2
    <3> QED
      BY <1>2, <3>3 DEF RequestIs
  <2>3. n \in Nat /\ n - Len(dialogue.hello) = 0
    BY <1>3
  <2>4. c2.st = "AUTH_READ" =>
          n >= Len(dialogue.hello)
            /\ AuthIs(conn.auth, sent, Len(dialogue.hello), n - Len(dialogue.hello))
    BY <1>3, <2>1, <2>3
  <2>5. c2.st = "REQUEST_READ" =>
          n >= Base(conn, dialogue)
            /\ RequestIs(conn.request, sent, Base(conn, dialogue), n - Base(conn, dialogue))
    <3> HIDE DEF n
    <3>1. conn.method = NO_AUTH => n >= Base(conn, dialogue) /\ n - Base(conn, dialogue) = 0
      BY <2>2, <2>3
    <3> QED
      BY <1>6, <2>2, <3>1
  <2> HIDE DEF n
  <2>6. c2.st \in {"AUTH_READ", "REQUEST_READ", "COPY", "DONE"} /\ c2.st # "COPY"
    BY <1>6
  <2> QED
    BY <1>1, <1>7, <2>4, <2>5, <2>6, HeardStill
<1>10. /\ c2.st \in {"AUTH_READ", "REQUEST_READ", "COPY", "DONE"} /\ conn.st \in Writing
  BY <1>6 DEF Writing
<1>11. Good(c2, pos, o2)
  BY <1>7, <1>8, <1>9, <1>10, ReplyIsOut DEF n
<1> QED
  BY <1>11 DEF c2

(* The answer to the login is out.                                         *)
LEMMA AuthWrites ==
  ASSUME HandshakeInv, conn.st = "AUTH_WRITE", NEW c, NEW o2, Said(c, o2)
  PROVE  Good(auth_write(c), pos, o2)
<1> DEFINE n == pos - Len(conn.read_buffer.bytes)
           c2 == auth_write(c)
<1>1. /\ conn \in Conn /\ Staged(conn) /\ Heard(conn, dialogue, sent, n)
      /\ dialogue \in Dialogue
  BY DialogueMeans DEF HandshakeInv, Good
<1>2. /\ conn.auth.state = "DONE" /\ conn.request = request_parser_init
      /\ conn.hello.state = "DONE" /\ conn.method = USERPASS /\ conn.auth_ok \in BOOLEAN
  BY <1>1, ConnFields DEF Staged, Writing
<1>3. n = Base(conn, dialogue) /\ n \in Nat
  <2>1. Len(dialogue.hello) \in Nat /\ Len(dialogue.auth) \in Nat
    BY <1>1 DEF Dialogue
  <2>2. Base(conn, dialogue) = Len(dialogue.hello) + Len(dialogue.auth)
    BY <1>2 DEF Base, AuthMessage
  <2> HIDE DEF n
  <2>3. n = Len(dialogue.hello) + Len(dialogue.auth)
    BY <1>1 DEF Heard
  <2>5. \A x, y \in Nat : x + y \in Nat
    OBVIOUS
  <2>4. Len(dialogue.hello) + Len(dialogue.auth) \in Nat
    BY ONLY <2>1, <2>5
  <2> QED
    BY ONLY <2>2, <2>3, <2>4
<1>4. /\ c \in Conn /\ Other(conn, c) /\ o2 \in Seq(Nat) /\ c.write_buffer.bytes = <<>>
      /\ o2 \o c.write_buffer.bytes = out \o conn.write_buffer.bytes
  BY DEF Said, Continues
<1>5. c.auth_ok = conn.auth_ok
  BY <1>4 DEF Other
<1>6. /\ c2 \in Conn /\ Other(c, c2) /\ c2.write_buffer = c.write_buffer
      /\ \/ conn.auth_ok = FALSE /\ c2.st = "DONE" /\ c2.interest = "OP_NOOP"
         \/ conn.auth_ok = TRUE /\ c2.st = "REQUEST_READ" /\ c2.interest = "OP_READ"
  <2>1. CASE conn.auth_ok = FALSE
    <3>1. c2 = Ended(c, "DONE")
      BY <1>5, <2>1 DEF auth_write
    <3> QED
      BY <1>4, <2>1, <3>1, EndedIs
  <2>2. CASE conn.auth_ok = TRUE
    <3>1. c2 = Listens(c, "REQUEST_READ") /\ "REQUEST_READ" \in Reading
      BY <1>5, <2>2 DEF auth_write, Reading
    <3> QED
      BY <1>4, <2>2, <3>1, ListensIs
  <2> QED
    BY <1>2, <2>1, <2>2
<1> HIDE DEF c2
<1>7. Other(conn, c2) /\ Continues(c2, o2) /\ c2.write_buffer.bytes = <<>>
  <2>1. Other(conn, c2)
    BY <1>4, <1>6 DEF Other
  <2> QED
    BY <1>4, <1>6, <2>1 DEF Continues
<1>8. Staged(c2)
  BY <1>2, <1>6, <1>7 DEF Staged, Reading, Writing, Quiet, Other, Admitted, Ending,
       request_parser_init
<1>9. Heard(c2, dialogue, sent, n)
  <2>1. n - Base(conn, dialogue) = 0 /\ n >= Base(conn, dialogue)
    <3> HIDE DEF n
    <3> QED
      BY <1>3
  <2>2. RequestIs(conn.request, sent, Base(conn, dialogue), 0)
    BY <1>2 DEF RequestIs
  <2>3. RequestIs(conn.request, sent, Base(conn, dialogue), n - Base(conn, dialogue))
    BY <2>1, <2>2
  <2> HIDE DEF n
  <2>6. /\ c2.st \in {"AUTH_READ", "REQUEST_READ", "COPY", "DONE"}
        /\ c2.st # "COPY" /\ c2.st # "AUTH_READ"
    BY <1>6
  <2> QED
    BY <1>1, <1>7, <2>1, <2>3, <2>6, HeardStill
<1>10. /\ c2.st \in {"AUTH_READ", "REQUEST_READ", "COPY", "DONE"} /\ conn.st \in Writing
       /\ c2.st # "AUTH_READ"
  BY <1>6 DEF Writing
<1>11. Good(c2, pos, o2)
  BY <1>7, <1>8, <1>9, <1>10, ReplyIsOut DEF n
<1> QED
  BY <1>11 DEF c2

(* The reply to the request is out.                                        *)
LEMMA RequestWrites ==
  ASSUME HandshakeInv, conn.st = "REQUEST_WRITE", NEW c, NEW o2, Said(c, o2)
  PROVE  Good(request_write(c), pos, o2)
<1> DEFINE n == pos - Len(conn.read_buffer.bytes)
           c2 == request_write(c)
<1>1. /\ conn \in Conn /\ Staged(conn) /\ Heard(conn, dialogue, sent, n)
  BY DEF HandshakeInv, Good
<1>2. /\ conn.request.state \in Ending /\ (conn.request.state = "ERROR" => conn.reply # SUCCESS)
      /\ Admitted(conn) /\ (conn.method # USERPASS => conn.auth = auth_parser_init)
  BY <1>1 DEF Staged, Writing, Ending, request_parser_init
<1>4. /\ c \in Conn /\ Other(conn, c) /\ o2 \in Seq(Nat) /\ c.write_buffer.bytes = <<>>
      /\ o2 \o c.write_buffer.bytes = out \o conn.write_buffer.bytes
  BY DEF Said, Continues
<1>5. c.reply = conn.reply
  BY <1>4 DEF Other
<1>6. /\ c2 \in Conn /\ Other(c, c2) /\ c2.write_buffer = c.write_buffer
      /\ c2.interest = "OP_NOOP"
      /\ \/ conn.reply = SUCCESS /\ c2.st = "COPY"
         \/ conn.reply # SUCCESS /\ c2.st = "DONE"
  <2>1. c2 = Ended(c, IF conn.reply = SUCCESS THEN "COPY" ELSE "DONE")
    BY <1>5 DEF request_write
  <2>2. CASE conn.reply = SUCCESS
    BY <1>4, <2>1, <2>2, EndedIs
  <2>3. CASE conn.reply # SUCCESS
    BY <1>4, <2>1, <2>3, EndedIs
  <2> QED
    BY <2>2, <2>3
<1> HIDE DEF c2
<1>7. Other(conn, c2) /\ Continues(c2, o2) /\ c2.write_buffer.bytes = <<>>
  <2>1. Other(conn, c2)
    BY <1>4, <1>6 DEF Other
  <2> QED
    BY <1>4, <1>6, <2>1 DEF Continues
<1>8. Staged(c2)
  <2>1. Admitted(c2) /\ c2.hello.state = "DONE"
    BY <1>2, <1>7 DEF Other, Admitted
  <2> QED
    BY <1>2, <1>6, <1>7, <2>1 DEF Staged, Reading, Writing, Quiet, Other, Ending
<1>9. Heard(c2, dialogue, sent, n)
  <2> HIDE DEF n
  <2>1. conn.request.state = "DONE" => n = Base(conn, dialogue) + Len(dialogue.request)
    BY <1>1 DEF Heard
  <2>6. /\ c2.st \in {"AUTH_READ", "REQUEST_READ", "COPY", "DONE"}
        /\ c2.st # "REQUEST_READ" /\ c2.st # "AUTH_READ"
    BY <1>6
  <2> QED
    BY <1>1, <1>7, <2>1, <2>6, HeardStill
<1>10. /\ c2.st \in {"AUTH_READ", "REQUEST_READ", "COPY", "DONE"} /\ conn.st \in Writing
       /\ c2.st # "REQUEST_READ" /\ c2.st # "AUTH_READ"
  BY <1>6 DEF Writing
<1>11. Good(c2, pos, o2)
  BY <1>7, <1>8, <1>9, <1>10, ReplyIsOut DEF n
<1> QED
  BY <1>11 DEF c2
(* Part of the reply is out.                                               *)
LEMMA PartlyWritten ==
  ASSUME HandshakeInv, conn.st \in Writing, NEW c, NEW o2, Continues(c, o2),
         c.st = conn.st, c.interest = conn.interest, c.write_buffer.bytes # <<>>
  PROVE  Good(c, pos, o2)
<1> DEFINE n == pos - Len(conn.read_buffer.bytes)
<1>1. /\ Good(conn, pos, out) /\ dialogue \in Dialogue /\ eager \in BOOLEAN
  BY DialogueMeans DEF HandshakeInv
<1>2. /\ Staged(conn) /\ Spoken(conn, dialogue, eager, turn, sent)
      /\ Heard(conn, dialogue, sent, n)
  BY <1>1 DEF Good
<1>3. conn.st # "REQUEST_CONNECTING" /\ c.st # "REQUEST_CONNECTING"
  BY DEF Writing
<1>4. /\ Answered(c, o2) /\ Received(c.read_buffer, sent, pos) /\ Granted(c, past)
      /\ AuthMessage(c, dialogue) = AuthMessage(conn, dialogue)
      /\ Base(c, dialogue) = Base(conn, dialogue)
  BY <1>1, <1>3, NothingTaken
<1>5. /\ c \in Conn /\ c.hello = conn.hello /\ c.auth = conn.auth /\ c.request = conn.request
      /\ c.method = conn.method /\ c.auth_ok = conn.auth_ok /\ c.reply = conn.reply
      /\ c.read_buffer = conn.read_buffer
  BY DEF Continues, Other
<1>6. Staged(c)
  <2>1. Admitted(c) = Admitted(conn)
    BY <1>5 DEF Admitted
  <2> QED
    BY <1>2, <1>5, <2>1 DEF Staged, Reading, Writing, Quiet
<1>7. Heard(c, dialogue, sent, n)
  <2> HIDE DEF n
  <2> QED
    BY ONLY <1>2, <1>4, <1>5, c.st = conn.st, ZenonT(40) DEF Heard
<1>8. Spoken(c, dialogue, eager, turn, sent)
  BY <1>1, <1>2, <1>4, <1>5 DEF Spoken, Utterance
<1>9. Caused(c, dialogue, eager, gone)
  BY DEF Caused, Writing
<1>10. Heard(c, dialogue, sent, pos - Len(c.read_buffer.bytes))
  BY <1>5, <1>7 DEF n
<1> QED
  BY <1>4, <1>5, <1>6, <1>8, <1>9, <1>10 DEF Good

LEMMA WriteKeepsInv ==
  ASSUME HandshakeInv, socksv5_write PROVE HandshakeInv'
<1>1. /\ conn.interest = "OP_WRITE"
      /\ UNCHANGED <<db, cfg, past, dialogue, eager, turn, sent, pos, gone>>
  BY DEF socksv5_write
<1>2. /\ conn \in Conn /\ Staged(conn) /\ out \in Seq(Nat)
  BY DEF HandshakeInv, Good, Answered
<1>3. conn.st \in Writing
  BY <1>1, <1>2 DEF Staged, Reading
<1>4. PICK w \in SendCuts \cup {Len(conn.write_buffer.bytes)} :
        /\ w <= Len(conn.write_buffer.bytes)
        /\ out' = out \o SubSeq(conn.write_buffer.bytes, 1, w)
        /\ LET c == Sent(conn, w)
           IN  conn' = IF buffer_can_read(c.write_buffer) THEN c
                       ELSE CASE conn.st = "HELLO_WRITE"   -> hello_write(c)
                              [] conn.st = "AUTH_WRITE"    -> auth_write(c)
                              [] conn.st = "REQUEST_WRITE" -> request_write(c)
  BY DEF socksv5_write
<1>5. w \in 0 .. Len(conn.write_buffer.bytes)
  <2>1. Len(conn.write_buffer.bytes) \in Nat /\ SendCuts \subseteq Nat
    BY <1>2, ConnFields, HandshakeAssumption
  <2> QED
    BY <1>4, <2>1
<1> DEFINE c == Sent(conn, w)
<1>11. c = Sent(conn, w) /\ out' = out \o SubSeq(conn.write_buffer.bytes, 1, w)
  BY <1>4
<1> HIDE DEF c
<1>6. /\ c \in Conn /\ Other(conn, c) /\ c.st = conn.st /\ c.interest = conn.interest
      /\ out' \in Seq(Nat)
      /\ out' \o c.write_buffer.bytes = out \o conn.write_buffer.bytes
      /\ buffer_can_read(c.write_buffer) <=> c.write_buffer.bytes # <<>>
  <2>1. SendsOn(conn, out, c, out')
    BY <1>2, <1>5, <1>11, SendTakes
  <2> QED
    BY <2>1 DEF SendsOn
<1>7. conn' = IF buffer_can_read(c.write_buffer) THEN c
              ELSE CASE conn.st = "HELLO_WRITE"   -> hello_write(c)
                     [] conn.st = "AUTH_WRITE"    -> auth_write(c)
                     [] conn.st = "REQUEST_WRITE" -> request_write(c)
  BY <1>4 DEF c
<1>8. Continues(c, out')
  BY <1>6 DEF Continues
<1>9. Good(conn', pos, out')
  <2>1. CASE c.write_buffer.bytes # <<>>
    <3>1. buffer_can_read(c.write_buffer)
      BY <1>6, <2>1
    <3>2. conn' = c
      BY <1>3, <1>7, <3>1 DEF Writing
    <3> QED
      BY <1>3, <1>6, <1>8, <2>1, <3>2, PartlyWritten
  <2>2. CASE c.write_buffer.bytes = <<>>
    <3>1. ~buffer_can_read(c.write_buffer) /\ Said(c, out')
      BY <1>6, <1>8, <2>2 DEF Said
    <3>2. CASE conn.st = "HELLO_WRITE"
      BY <1>7, <3>1, <3>2, HelloWrites
    <3>3. CASE conn.st = "AUTH_WRITE"
      BY <1>7, <3>1, <3>3, AuthWrites
    <3>4. CASE conn.st = "REQUEST_WRITE"
      BY <1>7, <3>1, <3>4, RequestWrites
    <3> QED
      BY <1>3, <3>2, <3>3, <3>4 DEF Writing
  <2> QED
    BY <2>1, <2>2
<1>10. Good(conn', pos', out')
  BY <1>1, <1>9
<1> QED
  BY <1>1, <1>10, KeepsGood

LEMMA DecideKeepsInv ==
  ASSUME HandshakeInv, ConnectionDecided PROVE HandshakeInv'
<1>1. /\ conn.st = "REQUEST_CONNECTING" /\ conn' \in ConnectionAttempt(conn)
      /\ UNCHANGED <<db, cfg, past, dialogue, eager, turn, sent, pos, out, gone>>
  BY DEF ConnectionDecided
<1>2. Awaited(conn)
  BY <1>1, RequestAwaited
<1>3. /\ conn \in Conn /\ Staged(conn) /\ Received(conn.read_buffer, sent, pos)
      /\ Heard(conn, dialogue, sent, pos - Len(conn.read_buffer.bytes))
  BY DEF HandshakeInv, Good
<1>4. conn.request.state = "DONE" /\ conn.write_buffer.bytes = <<>>
  BY <1>1, <1>3 DEF Staged, Quiet
<1>5. Asked(conn, pos)
  <2> DEFINE n == pos - Len(conn.read_buffer.bytes)
  <2>1. Heard(conn, dialogue, sent, n)
    BY <1>3
  <2> HIDE DEF n
  <2>2. /\ dialogue.bad # "request" /\ conn.request.cmd = dialogue.cmd
        /\ conn.request.atyp = dialogue.atyp /\ conn.request.addr = dialogue.addr
        /\ conn.request.port = dialogue.port
        /\ n = Base(conn, dialogue) + Len(dialogue.request)
    BY <1>1, <1>4, <2>1 DEF Heard
  <2> QED
    BY <1>3, <1>4, <2>2 DEF Asked, Ending, n
<1>6. Good(conn', pos, out)
  BY <1>1, <1>2, <1>4, <1>5, RequestAttempted
<1>7. Good(conn', pos', out')
  BY <1>1, <1>6
<1> QED
  BY <1>1, <1>7, KeepsGood

LEMMA LossKeepsInv ==
  ASSUME HandshakeInv, ConnectionLost PROVE HandshakeInv'
<1>1. /\ gone /\ conn.interest \in {"OP_READ", "OP_WRITE"}
      /\ conn' = Ended(conn, "ERROR_STATE")
      /\ UNCHANGED <<db, cfg, past, dialogue, eager, turn, sent, pos, out, gone>>
  BY DEF ConnectionLost
<1>2. Good(conn', pos, out)
  BY <1>1, BreaksOff
<1>3. Good(conn', pos', out')
  BY <1>1, <1>2
<1> QED
  BY <1>1, <1>3, KeepsGood
-----------------------------------------------------------------------------
(* The client goes on.                                                     *)

(* How far the replies have come shows in how long they are.               *)
LEMMA RepliesTell ==
  ASSUME HandshakeInv
  PROVE  /\ Len(out) \in Nat
         /\ conn.hello.state # "DONE" => Len(out) = 0
         /\ conn.st = "HELLO_WRITE" => Len(out) < 2
         /\ conn.st = "AUTH_READ" => Len(out) = 2
         /\ conn.st = "AUTH_WRITE" => Len(out) < 4
         /\ conn.st = "REQUEST_READ" => Len(out) <= 4
         /\ Len(out) >= 2 => conn.hello.state = "DONE" /\ out[2] = conn.method
<1> DEFINE h == HelloReply(conn)
           a == AuthReply(conn)
           b == conn.write_buffer.bytes
           s == out \o b
<1>1. conn \in Conn /\ Staged(conn) /\ Answered(conn, out)
  BY DEF HandshakeInv, Good
<1>2. /\ h \in Seq(Nat) /\ a \in Seq(Nat) /\ b \in Seq(Nat) /\ out \in Seq(Nat)
  BY <1>1, ReplyBytes, ConnFields DEF Answered
<1>3. PICK r \in IF Decided(conn) THEN {RequestReply(conn, f) : f \in Family} ELSE {<<>>} :
        out \o conn.write_buffer.bytes = HelloReply(conn) \o AuthReply(conn) \o r
  BY <1>1 DEF Answered
<1>4. r \in Seq(Nat)
  <2>1. <<>> \in Seq(Nat)
    OBVIOUS
  <2>2. \A f \in Family : RequestReply(conn, f) \in Seq(Nat)
    BY <1>1, ConnFields, ReplyFits DEF RequestReply
  <2> QED
    BY <1>3, <2>1, <2>2
<1>5. s = h \o a \o r
  BY <1>3
<1>6. /\ conn.hello.state = "DONE" => h = <<5, conn.method>>
      /\ conn.hello.state # "DONE" => h = <<>>
  BY DEF HelloReply
<1>11. /\ conn.hello.state = "DONE" => Len(h) = 2 /\ h[2] = conn.method
       /\ conn.hello.state # "DONE" => Len(h) = 0
  BY <1>6
<1>7. /\ conn.auth.state = "DONE" => Len(a) = 2
      /\ conn.auth.state # "DONE" => Len(a) = 0
  BY DEF AuthReply
<1>8. conn.request.state \notin Ending => Len(r) = 0
  <2>1. conn.request.state \notin Ending => r = <<>>
    BY <1>3 DEF Decided
  <2> QED
    BY <2>1
<1>9. Joins(out, b, s)
  BY <1>2, JoinBytes
<1>10. Joins(h \o a, r, s) /\ Joins(h, a, h \o a)
  <2> HIDE DEF h, a, s, b
  <2>1. Joins(h, a, h \o a)
    BY <1>2, JoinBytes
  <2>2. h \o a \in Seq(Nat)
    BY <1>2
  <2> QED
    BY <1>4, <1>5, <2>1, <2>2, JoinBytes
<1> HIDE DEF h, a, s, b
<1>12. /\ Len(out) + Len(b) = Len(h) + Len(a) + Len(r)
       /\ Len(out) \in Nat /\ Len(b) \in Nat /\ Len(h) \in Nat /\ Len(a) \in Nat
       /\ Len(r) \in Nat
  BY ONLY <1>9, <1>10 DEF Joins
<1>13. conn.hello.state # "DONE" => Len(a) = 0 /\ Len(r) = 0
  BY <1>1, <1>7, <1>8 DEF Staged, auth_parser_init, request_parser_init, Ending
<1>14. conn.st \in Writing => Len(b) > 0
  <2>1. conn.st \in Writing => b # <<>>
    BY <1>1 DEF Staged, Quiet, b
  <2> QED
    BY <1>2, <2>1
<1>15. conn.st \in Reading => Len(b) = 0
  <2>1. conn.st \in Reading => b = <<>>
    BY <1>1 DEF Staged, Quiet, b
  <2> QED
    BY <2>1
<1>16. conn.hello.state # "DONE" => Len(out) = 0
  BY ONLY <1>11, <1>12, <1>13
<1>22. Len(h) <= 2 /\ Len(a) <= 2
  <2>1. \A x : x = 0 \/ x = 2 => x <= 2
    OBVIOUS
  <2>2. Len(h) = 0 \/ Len(h) = 2
    BY ONLY <1>11
  <2>3. Len(a) = 0 \/ Len(a) = 2
    BY ONLY <1>7
  <2> QED
    BY ONLY <2>1, <2>2, <2>3
<1>17. conn.st = "HELLO_WRITE" => Len(out) < 2
  <2> SUFFICES ASSUME conn.st = "HELLO_WRITE" PROVE Len(out) < 2
    OBVIOUS
  <2>1. Len(b) > 0 /\ Len(a) = 0 /\ Len(r) = 0
    BY <1>1, <1>7, <1>8, <1>14 DEF Staged, Writing, auth_parser_init, request_parser_init, Ending
  <2> QED
    BY ONLY <1>22, <1>12, <2>1
<1>18. conn.st = "AUTH_READ" => Len(out) = 2
  <2> SUFFICES ASSUME conn.st = "AUTH_READ" PROVE Len(out) = 2
    OBVIOUS
  <2>1. Len(b) = 0 /\ Len(a) = 0 /\ Len(r) = 0 /\ Len(h) = 2
    BY <1>1, <1>7, <1>8, <1>11, <1>15 DEF Staged, Reading, request_parser_init, Ending
  <2> QED
    BY ONLY <1>12, <2>1
<1>19. conn.st = "AUTH_WRITE" => Len(out) < 4
  <2> SUFFICES ASSUME conn.st = "AUTH_WRITE" PROVE Len(out) < 4
    OBVIOUS
  <2>1. Len(b) > 0 /\ Len(r) = 0
    BY <1>1, <1>8, <1>14 DEF Staged, Writing, request_parser_init, Ending
  <2> QED
    BY ONLY <1>22, <1>12, <2>1
<1>20. conn.st = "REQUEST_READ" => Len(out) <= 4
  <2> SUFFICES ASSUME conn.st = "REQUEST_READ" PROVE Len(out) <= 4
    OBVIOUS
  <2>1. Len(r) = 0
    BY <1>1, <1>8 DEF Staged
  <2> QED
    BY ONLY <1>22, <1>12, <2>1
<1>21. Len(out) >= 2 => conn.hello.state = "DONE" /\ out[2] = conn.method
  <2> SUFFICES ASSUME Len(out) >= 2 PROVE conn.hello.state = "DONE" /\ out[2] = conn.method
    OBVIOUS
  <2>1. conn.hello.state = "DONE"
    BY <1>16
  <2>2. Len(h) = 2 /\ h[2] = conn.method
    BY <1>11, <2>1
  <2>3. 2 \in 1 .. Len(out) /\ 2 \in 1 .. Len(h) /\ 2 \in 1 .. Len(h \o a)
    <3>1. Len(h \o a) = Len(h) + Len(a)
      BY <1>10 DEF Joins
    <3> QED
      BY <1>12, <2>2, <3>1
  <2>4. s[2] = out[2]
    BY <1>9, <2>3 DEF Joins
  <2>5. s[2] = (h \o a)[2] /\ (h \o a)[2] = h[2]
    BY ONLY <1>10, <2>3 DEF Joins
  <2> QED
    BY <2>1, <2>2, <2>4, <2>5
<1> QED
  BY <1>12, <1>16, <1>17, <1>18, <1>19, <1>20, <1>21

(* A parser that has taken nothing has taken nothing of what comes.        *)
LEMMA NothingHeard ==
  ASSUME NEW q, NEW q2, NEW o
  PROVE  /\ \A p : HelloIs(p, q, o, 0) => HelloIs(p, q2, o, 0)
         /\ \A p : AuthIs(p, q, o, 0) => AuthIs(p, q2, o, 0)
         /\ \A p : RequestIs(p, q, o, 0) => RequestIs(p, q2, o, 0)
<1>1. ASSUME NEW p, HelloIs(p, q, o, 0) PROVE HelloIs(p, q2, o, 0)
  BY <1>1 DEF HelloIs
<1>2. ASSUME NEW p, AuthIs(p, q, o, 0) PROVE AuthIs(p, q2, o, 0)
  <2>1. ~InName(p, q, o, 0, q[o + 2])
    BY DEF InName
  <2>2. ASSUME NEW u PROVE ~BehindName(p, q, o, 0, u)
    BY DEF BehindName, InPassword
  <2>3. p = auth_parser_init
    BY <1>2, <2>1, <2>2 DEF AuthIs
  <2> QED
    BY <2>3 DEF AuthIs
<1>3. ASSUME NEW p, RequestIs(p, q, o, 0) PROVE RequestIs(p, q2, o, 0)
  <2>1. ASSUME NEW h \in {4, 5}, NEW l \in Nat \ {0} PROVE ~AddressIs(p, q, o, 0, h, l)
    BY DEF AddressIs, InAddress, BehindAddress
  <2>2. ASSUME NEW h, NEW l PROVE ~AddressIs(p, q, o, 0, h, l)
    BY <2>1 DEF AddressIs
  <2>3. ASSUME NEW atyp PROVE ~TargetIs(p, q, o, 0, atyp)
    BY <2>2 DEF TargetIs
  <2>4. p = request_parser_init
    BY <1>3, <2>3 DEF RequestIs
  <2> QED
    BY <2>4 DEF RequestIs
<1> QED
  BY <1>1, <1>2, <1>3

\* The parser that is at work has not taken anything yet.
Untouched(c, d, n) ==
  /\ c.st = "HELLO_READ" => n = 0
  /\ c.st = "AUTH_READ" => n = Len(d.hello)
  /\ c.st = "REQUEST_READ" => n = Base(c, d)

LEMMA HeardNothing ==
  ASSUME NEW c, NEW d, NEW q, NEW q2, NEW n, Heard(c, d, q, n), Untouched(c, d, n),
         Len(d.hello) \in Nat, Base(c, d) \in Nat
  PROVE  Heard(c, d, q2, n)
<1>1. c.st = "HELLO_READ" => HelloIs(c.hello, q2, 0, n)
  <2> SUFFICES ASSUME c.st = "HELLO_READ" PROVE HelloIs(c.hello, q2, 0, n)
    OBVIOUS
  <2>1. n = 0 /\ HelloIs(c.hello, q, 0, n)
    BY DEF Heard, Untouched
  <2> QED
    BY <2>1, NothingHeard
<1>2. c.st = "AUTH_READ" =>
        n >= Len(d.hello) /\ AuthIs(c.auth, q2, Len(d.hello), n - Len(d.hello))
  <2> SUFFICES ASSUME c.st = "AUTH_READ"
               PROVE  n >= Len(d.hello) /\ AuthIs(c.auth, q2, Len(d.hello), n - Len(d.hello))
    OBVIOUS
  <2>1. n = Len(d.hello) /\ AuthIs(c.auth, q, Len(d.hello), n - Len(d.hello))
        /\ n >= Len(d.hello)
    BY DEF Heard, Untouched
  <2>2. n - Len(d.hello) = 0
    BY <2>1
  <2> QED
    BY <2>1, <2>2, NothingHeard
<1>3. c.st = "REQUEST_READ" =>
        n >= Base(c, d) /\ RequestIs(c.request, q2, Base(c, d), n - Base(c, d))
  <2> SUFFICES ASSUME c.st = "REQUEST_READ"
               PROVE  n >= Base(c, d) /\ RequestIs(c.request, q2, Base(c, d), n - Base(c, d))
    OBVIOUS
  <2>1. n = Base(c, d) /\ RequestIs(c.request, q, Base(c, d), n - Base(c, d))
        /\ n >= Base(c, d)
    BY DEF Heard, Untouched
  <2>2. n - Base(c, d) = 0
    BY <2>1
  <2> QED
    BY <2>1, <2>2, NothingHeard
<1> QED
  BY <1>1, <1>2, <1>3 DEF Heard

\* What the client of ClientSays has said and heard so far; k is how many bytes
\* of it there are.
Overheard(c, d, t, o, k) ==
  \/ t = "start" /\ k = 0
  \/ t = "hello" /\ o = 2 /\ k = Len(d.hello)
  \/ t = "auth" /\ c.method = USERPASS /\ o = 4 /\ k = Len(d.hello) + Len(d.auth)
  \/ t = "request" /\ o >= 6

LEMMA ClientOverheard ==
  ASSUME HandshakeInv, ClientSays
  PROVE  /\ eager = FALSE /\ Len(sent) \in Nat
         /\ Overheard(conn, dialogue, turn, Len(out), Len(sent))
<1>1. eager = FALSE
  BY DEF ClientSays, HandshakeInv
<1>2. /\ Received(conn.read_buffer, sent, pos) /\ dialogue \in Dialogue
      /\ Spoken(conn, dialogue, eager, turn, sent)
  BY DialogueMeans DEF HandshakeInv, Good
<1>3. /\ turn \in Turns /\ sent = Utterance(conn, dialogue, turn)
      /\ turn = "auth" => conn.method = USERPASS
  BY <1>1, <1>2 DEF Spoken
<1>4. Len(sent) \in Nat
  BY <1>2 DEF Received
<1>5. Len(out) \in Nat
  BY RepliesTell
<1>6. CASE turn = "start"
  <2>1. sent = <<>>
    BY <1>3, <1>6 DEF Utterance
  <2> QED
    BY <1>1, <1>4, <1>6, <2>1 DEF Overheard
<1>7. CASE turn = "hello"
  <2>1. sent = dialogue.hello
    BY <1>3, <1>7 DEF Utterance
  <2>2. Len(out) = 2
    BY <1>7 DEF ClientSays
  <2> QED
    BY <1>1, <1>4, <1>7, <2>1, <2>2 DEF Overheard
<1>8. CASE turn = "auth"
  <2>1. sent = dialogue.hello \o dialogue.auth
    BY <1>3, <1>8 DEF Utterance
  <2>2. dialogue.hello \in Seq(Nat) /\ dialogue.auth \in Seq(Nat)
    BY <1>2 DEF Dialogue
  <2>3. Len(sent) = Len(dialogue.hello) + Len(dialogue.auth)
    BY <2>1, <2>2, JoinHolds
  <2>4. Len(out) = 4
    BY <1>8 DEF ClientSays
  <2> QED
    BY <1>1, <1>3, <1>4, <1>8, <2>3, <2>4 DEF Overheard
<1>9. CASE turn = "request"
  <2>1. PICK from \in {3, 5} : HasReply(from)
    BY <1>9 DEF ClientSays
  <2>2. Len(out) >= 6
    BY <1>5, <2>1 DEF HasReply
  <2> QED
    BY <1>1, <1>4, <1>9, <2>2 DEF Overheard
<1>10. turn # "payload"
  BY DEF ClientSays
<1> QED
  BY <1>3, <1>6, <1>7, <1>8, <1>9, <1>10 DEF Turns

(* A client that waits says nothing while a message of its is being read.  *)
LEMMA ClientWaits ==
  ASSUME HandshakeInv, ClientSays
  PROVE  /\ Untouched(conn, dialogue, pos - Len(conn.read_buffer.bytes))
         /\ Len(dialogue.hello) \in Nat /\ Base(conn, dialogue) \in Nat
<1> DEFINE n == pos - Len(conn.read_buffer.bytes)
           h == Len(dialogue.hello)
           x == Len(dialogue.auth)
           base == Base(conn, dialogue)
           k == Len(sent)
           o == Len(out)
<1>1. /\ conn \in Conn /\ Staged(conn) /\ Received(conn.read_buffer, sent, pos)
      /\ dialogue \in Dialogue /\ Heard(conn, dialogue, sent, n)
  BY DialogueMeans DEF HandshakeInv, Good
<1>2. h \in Nat /\ x \in Nat /\ base \in Nat /\ base >= h
      /\ (conn.method = USERPASS => base = h + x)
  <2>1. dialogue.hello \in Seq(Nat) /\ dialogue.auth \in Seq(Nat)
    BY <1>1 DEF Dialogue
  <2>2. AuthMessage(conn, dialogue) \in Seq(Nat)
    BY <2>1 DEF AuthMessage
  <2>3. Len(AuthMessage(conn, dialogue)) \in Nat /\ h \in Nat /\ x \in Nat
    BY <2>1, <2>2
  <2> DEFINE l == Len(AuthMessage(conn, dialogue))
  <2>4. (conn.method = USERPASS => l = x) /\ base = h + l
    BY DEF AuthMessage, Base
  <2> HIDE DEF l, h, x, base
  <2> QED
    BY <2>3, <2>4 DEF l
<1>3. n \in Nat /\ k \in Nat /\ n <= k
  <2>1. pos \in 0 .. Len(sent) /\ Len(conn.read_buffer.bytes) <= pos /\ sent \in Seq(Nat)
    BY <1>1 DEF Received
  <2>2. conn.read_buffer.bytes \in Seq(Nat)
    BY <1>1, ConnFields
  <2>3. Len(sent) \in Nat /\ Len(conn.read_buffer.bytes) \in Nat
    BY <2>1, <2>2
  <2> QED
    BY <2>1, <2>3
<1>4. Overheard(conn, dialogue, turn, o, k)
  BY ClientOverheard
<1>5. /\ o \in Nat
      /\ conn.st = "HELLO_READ" => o = 0
      /\ conn.st = "AUTH_READ" => o = 2
      /\ conn.st = "REQUEST_READ" => o <= 4
  BY <1>1, RepliesTell DEF Staged, Ending
<1>6. /\ conn.st = "AUTH_READ" => n >= h
      /\ conn.st = "REQUEST_READ" => n >= base
  BY <1>1 DEF Heard
<1> HIDE DEF n, base, k, o
<1>7. conn.st = "HELLO_READ" => n = 0
  <2> SUFFICES ASSUME conn.st = "HELLO_READ" PROVE n = 0
    OBVIOUS
  <2>1. k = 0
    BY <1>4, <1>5 DEF Overheard
  <2> QED
    BY <1>3, <2>1
<1>8. conn.st = "AUTH_READ" => n = h
  <2> SUFFICES ASSUME conn.st = "AUTH_READ" PROVE n = h
    OBVIOUS
  <2>1. k = 0 \/ k = h
    BY <1>4, <1>5 DEF Overheard
  <2> HIDE DEF h
  <2> QED
    BY <1>2, <1>3, <1>6, <2>1
<1>9. conn.st = "REQUEST_READ" => n = base
  <2> SUFFICES ASSUME conn.st = "REQUEST_READ" PROVE n = base
    OBVIOUS
  <2>2. o <= 4 /\ o \in Nat
    BY <1>5
  <2>3. conn.method = USERPASS => base = h + x
    BY <1>2
  <2>4. Overheard(conn, dialogue, turn, o, k) /\ ~(o >= 6)
    BY <1>4, <2>2
  <2>1. k = 0 \/ k = h \/ k = base
    BY <2>3, <2>4 DEF Overheard
  <2> HIDE DEF h
  <2> QED
    BY <1>2, <1>3, <1>6, <2>1
<1> QED
  BY <1>2, <1>7, <1>8, <1>9 DEF Untouched, n, base

LEMMA ClientSpoken ==
  ASSUME HandshakeInv, ClientSays
  PROVE  /\ Spoken(conn, dialogue, eager, turn', sent')
         /\ \E f \in Seq(Nat) : sent' = sent \o f
<1> DEFINE h == dialogue.hello
           a == dialogue.auth
           r == dialogue.request
<1>1. /\ eager = FALSE /\ Overheard(conn, dialogue, turn, Len(out), Len(sent))
  BY ClientOverheard
<1>2. /\ conn \in Conn /\ Staged(conn) /\ dialogue \in Dialogue
      /\ Spoken(conn, dialogue, eager, turn, sent)
  BY DialogueMeans DEF HandshakeInv, Good
<1>3. /\ h \in Seq(Nat) /\ a \in Seq(Nat) /\ r \in Seq(Nat) /\ dialogue.payload \in Seq(Nat)
  BY <1>2 DEF Dialogue
<1>4. /\ sent = Utterance(conn, dialogue, turn)
      /\ turn = "auth" => conn.method = USERPASS
      /\ conn.hello.state # "DONE" \/ conn.st = "HELLO_WRITE" => turn \in {"start", "hello"}
      /\ conn.st \in Reading \cup {"HELLO_WRITE", "AUTH_WRITE"} =>
           conn.read_buffer.bytes = <<>>
  BY <1>1, <1>2 DEF Spoken
<1>5. /\ Len(out) >= 2 => conn.hello.state = "DONE" /\ out[2] = conn.method
      /\ conn.st = "HELLO_WRITE" => Len(out) < 2
      /\ conn.st = "AUTH_READ" => Len(out) = 2
      /\ conn.st = "AUTH_WRITE" => Len(out) < 4
      /\ Len(out) \in Nat
  BY RepliesTell
<1>6. CASE turn = "start"
  <2>1. turn' = "hello" /\ sent' = sent \o h /\ sent = <<>>
    BY <1>4, <1>6 DEF ClientSays, Says, Utterance
  <2>2. sent' = h
    BY <1>3, <2>1, JoinNothing
  <2>3. sent' = Utterance(conn, dialogue, turn')
    BY <2>1, <2>2 DEF Utterance
  <2>4. Spoken(conn, dialogue, eager, turn', sent')
    BY <1>1, <1>4, <2>1, <2>3 DEF Spoken, Turns
  <2> QED
    BY <1>3, <2>1, <2>4
<1>7. CASE turn = "hello" /\ turn' = "auth"
  <2>1. sent' = sent \o a /\ Len(out) = 2 /\ out[2] = USERPASS
    BY <1>7 DEF ClientSays, Says
  <2>2. sent = h
    BY <1>4, <1>7 DEF Utterance
  <2>3. sent' = Utterance(conn, dialogue, turn')
    BY <1>7, <2>1, <2>2 DEF Utterance
  <2>4. conn.method = USERPASS /\ conn.hello.state = "DONE" /\ conn.st # "HELLO_WRITE"
    BY <1>5, <2>1
  <2>5. Spoken(conn, dialogue, eager, turn', sent')
    BY <1>1, <1>4, <1>7, <2>3, <2>4 DEF Spoken, Turns
  <2> QED
    BY <1>3, <2>1, <2>5
<1>8. CASE turn = "hello" /\ turn' = "request"
  <2>1. sent' = sent \o r /\ Len(out) = 2 /\ out[2] = NO_AUTH
    BY <1>8 DEF ClientSays, Says
  <2>2. sent = h
    BY <1>4, <1>8 DEF Utterance
  <2>4. conn.method = NO_AUTH /\ conn.hello.state = "DONE" /\ conn.st # "HELLO_WRITE"
    BY <1>5, <2>1
  <2>6. conn.method # USERPASS
    BY <2>4 DEF NO_AUTH, USERPASS
  <2>7. AuthMessage(conn, dialogue) = <<>> /\ h \o <<>> = h
    BY <1>3, <2>6, JoinNothing DEF AuthMessage
  <2>3. sent' = Utterance(conn, dialogue, turn')
    BY <1>8, <2>1, <2>2, <2>7 DEF Utterance
  <2>8. conn.st \notin {"AUTH_READ", "AUTH_WRITE"}
    BY <1>2, <2>6 DEF Staged
  <2>5. Spoken(conn, dialogue, eager, turn', sent')
    BY <1>1, <1>4, <1>8, <2>3, <2>4, <2>8 DEF Spoken, Turns
  <2> QED
    BY <1>3, <2>1, <2>5
<1>9. CASE turn = "auth"
  <2>1. sent' = sent \o r /\ turn' = "request" /\ Len(out) = 4
    BY <1>9 DEF ClientSays, Says
  <2>2. sent = h \o a /\ conn.method = USERPASS
    BY <1>4, <1>9 DEF Utterance
  <2>3. sent' = Utterance(conn, dialogue, turn')
    BY <2>1, <2>2 DEF Utterance, AuthMessage
  <2>4. /\ conn.hello.state = "DONE"
        /\ conn.st \notin {"HELLO_WRITE", "AUTH_READ", "AUTH_WRITE"}
    BY <1>5, <2>1
  <2>5. Spoken(conn, dialogue, eager, turn', sent')
    BY <1>1, <1>4, <2>1, <2>3, <2>4 DEF Spoken, Turns
  <2> QED
    BY <1>3, <2>1, <2>5
<1>10. CASE turn = "request"
  <2>1. sent' = sent \o dialogue.payload /\ turn' = "payload"
    BY <1>10 DEF ClientSays, Says
  <2>2. sent = h \o AuthMessage(conn, dialogue) \o r
    BY <1>4, <1>10 DEF Utterance
  <2>3. sent' = Utterance(conn, dialogue, turn')
    BY <2>1, <2>2 DEF Utterance
  <2>6. Len(out) >= 6
    BY <1>1, <1>10 DEF Overheard
  <2>7. Len(out) >= 2 /\ ~(Len(out) < 2) /\ ~(Len(out) = 2) /\ ~(Len(out) < 4)
    <3> DEFINE o == Len(out)
    <3>1. o \in Nat /\ o >= 6
      BY <1>5, <2>6
    <3> HIDE DEF o
    <3>2. o >= 2 /\ ~(o < 2) /\ ~(o = 2) /\ ~(o < 4)
      BY <3>1
    <3> QED
      BY <3>2 DEF o
  <2>4. /\ conn.hello.state = "DONE"
        /\ conn.st \notin {"HELLO_WRITE", "AUTH_READ", "AUTH_WRITE"}
    BY <1>5, <2>7
  <2>5. Spoken(conn, dialogue, eager, turn', sent')
    BY <1>1, <1>4, <2>1, <2>3, <2>4 DEF Spoken, Turns
  <2> QED
    BY <1>3, <2>1, <2>5
<1>11. \/ turn \in {"start", "auth", "request"}
       \/ turn = "hello" /\ turn' \in {"auth", "request"}
  BY DEF ClientSays, Says
<1> QED
  BY <1>6, <1>7, <1>8, <1>9, <1>10, <1>11

LEMMA SaysKeepsInv ==
  ASSUME HandshakeInv, ClientSays PROVE HandshakeInv'
<1>1. UNCHANGED <<db, cfg, past, conn, dialogue, eager, pos, out, gone>>
  BY DEF ClientSays
<1>2. PICK f \in Seq(Nat) : sent' = sent \o f
  BY ClientSpoken
<1>3. Good(conn, pos, out)
  BY DEF HandshakeInv
<1>4. Spoken(conn, dialogue, eager, turn', sent')
  BY ClientSpoken
<1>5. Received(conn.read_buffer, sent', pos)
  <2>1. conn.read_buffer.bytes \in Seq(Nat) /\ Received(conn.read_buffer, sent, pos)
    BY <1>3, ConnFields DEF Good
  <2> QED
    BY <1>2, <2>1, ReceivedStill
<1>6. Heard(conn, dialogue, sent', pos - Len(conn.read_buffer.bytes))
  <2>1. Heard(conn, dialogue, sent, pos - Len(conn.read_buffer.bytes))
    BY <1>3 DEF Good
  <2> QED
    BY <2>1, ClientWaits, HeardNothing
<1>7. Good(conn, pos, out)'
  BY <1>1, <1>3, <1>4, <1>5, <1>6 DEF Good
<1> QED
  BY <1>1, <1>7 DEF HandshakeInv

(* The client goes.                                                        *)
LEMMA GoesKeepsInv ==
  ASSUME HandshakeInv, ClientGoes PROVE HandshakeInv'
<1>1. /\ gone' = TRUE
      /\ UNCHANGED <<db, cfg, past, conn, dialogue, eager, turn, sent, pos, out>>
  BY DEF ClientGoes
<1>2. Good(conn, pos, out)'
  BY <1>1 DEF HandshakeInv, Good, Caused
<1> QED
  BY <1>1, <1>2 DEF HandshakeInv

-----------------------------------------------------------------------------
(* The management side.                                                    *)

(* What was right at some time stays right for good.                       *)
LEMMA GrantedStill ==
  ASSUME NEW x \in Seq(Entry), NEW e \in Entry, NEW x2, x2 = Append(x, e),
         NEW c, Granted(c, x)
  PROVE  Granted(c, x2)
<1>1. /\ Len(x) \in Nat /\ Len(x2) = Len(x) + 1 /\ \A i \in 1 .. Len(x) : x2[i] = x[i]
  BY AppendProperties
<1>2. \A i \in 1 .. Len(x) : i \in 1 .. Len(x2) /\ x2[i] = x[i]
  BY <1>1
<1>3. c.hello.state = "DONE" /\ c.method = NO_AUTH =>
        c.hello.has_noauth = TRUE /\ \E i \in 1 .. Len(x2) : x2[i].required = FALSE
  BY <1>2 DEF Granted
<1>4. c.hello.state = "DONE" /\ c.method = USERPASS => c.hello.has_userpass = TRUE
  BY DEF Granted
<1>5. c.hello.state = "DONE" /\ c.method = NONE =>
        /\ c.hello.has_userpass = FALSE
        /\ c.hello.has_noauth = FALSE \/ \E i \in 1 .. Len(x2) : x2[i].required = TRUE
  BY <1>2 DEF Granted
<1>6. c.auth.state = "DONE" =>
        \E i \in 1 .. Len(x2) :
          (c.auth_ok = TRUE) <=>
            Knows(x2[i].users, CString(c.auth.username), CString(c.auth.password))
  <2> SUFFICES ASSUME c.auth.state = "DONE"
               PROVE  \E i \in 1 .. Len(x2) :
                        (c.auth_ok = TRUE) <=>
                          Knows(x2[i].users, CString(c.auth.username), CString(c.auth.password))
    OBVIOUS
  <2>1. PICK i \in 1 .. Len(x) :
          (c.auth_ok = TRUE) <=>
            Knows(x[i].users, CString(c.auth.username), CString(c.auth.password))
    BY DEF Granted
  <2> QED
    BY <1>2, <2>1
<1> QED
  BY <1>3, <1>4, <1>5, <1>6 DEF Granted

\* The configuration as it was, or with the need to authenticate switched.
Switched(g, g2) == g2 = g \/ g2 = [g EXCEPT !.auth_required = ~@]

EntryOf(t, g) == [users |-> AsMap(t), required |-> g.auth_required]

(* A change keeps the table a table and puts the new state behind those    *)
(* there have been.                                                        *)
LEMMA KeptOn ==
  ASSUME NEW t, NEW g, NEW x, Kept(t, g, x), NEW t2 \in Tables, NEW g2,
         Switched(g, g2), NEW e, NEW x2, e = EntryOf(t2, g2), x2 = Append(x, e)
  PROVE  Kept(t2, g2, x2) /\ e \in Entry
<1> DEFINE G == [io_buffer_size : {DEFAULT_BUFFER}, conn_timeout_secs : {0},
                 auth_required : BOOLEAN, admin : [name : Seq(Nat), pass : Seq(Nat)]]
<1>1. g \in G /\ x \in Seq(Entry) /\ Len(x) > 0
  BY DEF Kept
<1>2. g2 \in G
  <2>1. g.auth_required \in BOOLEAN
    BY <1>1
  <2>2. CASE g2 = g
    BY <1>1, <2>2
  <2>3. CASE g2 = [g EXCEPT !.auth_required = ~@]
    <3> DEFINE r == ~g.auth_required
    <3>1. r \in BOOLEAN /\ g2 = [g EXCEPT !.auth_required = r]
      BY <2>1, <2>3
    <3> HIDE DEF r
    <3> QED
      BY <1>1, <3>1
  <2> QED
    BY <2>2, <2>3 DEF Switched
<1>3. e \in Entry
  <2>1. g2.auth_required \in BOOLEAN
    BY <1>2
  <2> QED
    BY <2>1 DEF Entry, EntryOf
<1>4. x2 \in Seq(Entry) /\ Len(x2) = Len(x) + 1 /\ x2[Len(x) + 1] = e /\ Len(x) \in Nat
  BY <1>1, <1>3, AppendProperties
<1>5. x2 \in Seq(Entry) /\ Len(x2) > 0 /\ x2[Len(x2)] = e
  BY <1>4
<1> QED
  BY <1>2, <1>3, <1>5 DEF Kept, EntryOf

LEMMA AdministeredKeepsInv ==
  ASSUME HandshakeInv, Administered PROVE HandshakeInv'
<1> DEFINE e == EntryOf(db', cfg')
<1>1. /\ past' = Append(past, e)
      /\ UNCHANGED <<conn, dialogue, eager, turn, sent, pos, out, gone>>
  BY DEF Administered, EntryOf
<1>2. Kept(db, cfg, past) /\ Good(conn, pos, out)
  BY DEF HandshakeInv
<1>3. IsTable(db) /\ db \in Tables
  BY <1>2 DEF Kept, Tables
<1>4. db' \in Tables
  <2>1. ASSUME NEW u \in Changes
        PROVE  IsTable(users_add(db, u.name, u.pass).db) /\ IsTable(users_del(db, u.name).db)
    <3>1. u.name \in Seq(Nat) /\ u.pass \in Seq(Nat)
      BY HandshakeAssumption
    <3> QED
      BY <1>3, <3>1, UsersAdd, UsersDel
  <2>2. \/ db' = db
        \/ \E u \in Changes : db' \in {users_add(db, u.name, u.pass).db, users_del(db, u.name).db}
    BY DEF Administered
  <2>3. IsTable(db')
    BY <1>3, <2>1, <2>2
  <2> QED
    BY <2>3 DEF Tables, IsTable
<1>5. Switched(cfg, cfg')
  BY DEF Administered, Switched
<1> HIDE DEF e
<1>6. Kept(db', cfg', past') /\ e \in Entry
  <2>1. e = EntryOf(db', cfg')
    BY DEF e
  <2> QED
    BY ONLY <1>1, <1>2, <1>4, <1>5, <2>1, KeptOn
<1>7. Granted(conn, past')
  <2>1. Granted(conn, past) /\ past \in Seq(Entry)
    BY <1>2 DEF Good, Kept
  <2> QED
    BY <1>1, <1>6, <2>1, GrantedStill
<1>8. Good(conn, pos, out)'
  BY <1>1, <1>2, <1>7 DEF Good
<1> QED
  BY <1>1, <1>6, <1>8 DEF HandshakeInv

-----------------------------------------------------------------------------
(* How it begins.                                                          *)

(* The last of the positions that have a property.                         *)
LEMMA LastExists ==
  ASSUME NEW n \in Nat, NEW S \in SUBSET (1 .. n), S # {}
  PROVE  \E m \in S : \A x \in S : x <= m
<1> DEFINE D == {n - x : x \in S}
<1>1. D \in SUBSET Nat /\ D # {}
  <2>1. \A x \in S : n - x \in Nat
    OBVIOUS
  <2>2. D # {}
    OBVIOUS
  <2> QED
    BY <2>1, <2>2
<1>2. PICK k \in D : \A y \in D : k <= y
  <2> HIDE DEF D
  <2> QED
    BY <1>1, LeastExists
<1>3. PICK m \in S : k = n - m
  BY <1>2
<1>4. \A x \in S : n - m <= n - x
  BY <1>2, <1>3
<1>5. \A x \in S : x <= m
  BY <1>4
<1> QED
  BY <1>5

(* The table the daemon starts with stands for the users of the command    *)
(* line, each with the password given last.                                *)
LEMMA GivenIsMap ==
  ASSUME NEW args \in GoodArgs
  PROVE  IsTable(StartUsers(args)) /\ Given(args) = AsMap(StartUsers(args))
<1> DEFINE us == args.users
           n == Len(us)
           d == StartUsers(args)
           m == AsMap(d)
           last(x) == CHOOSE i \in 1 .. n :
                        us[i].name = x /\ \A j \in i + 1 .. n : us[j].name # x
<1>1. us \in Seq(User) /\ n \in Nat /\ n <= USERS_MAX
  BY DEF GoodArgs
<1>2. /\ IsTable(d) /\ DOMAIN m = {us[i].name : i \in 1 .. n}
      /\ \A i \in 1 .. n :
           (\A j \in i + 1 .. n : us[j].name # us[i].name) => m[us[i].name] = us[i].pass
  BY <1>1, StartUsersMap
<1>3. m = [x \in DOMAIN m |-> m[x]]
  BY <1>2, MapOfTable
<1>4. Given(args) = [x \in {us[i].name : i \in 1 .. n} |-> us[last(x)].pass]
  BY DEF Given
<1> HIDE DEF d, m, us, n
<1>5. ASSUME NEW x \in DOMAIN m PROVE us[last(x)].pass = m[x]
  <2> DEFINE S == {i \in 1 .. n : us[i].name = x}
  <2>1. S \in SUBSET (1 .. n) /\ S # {}
    BY <1>2
  <2>2. PICK k \in S : \A i \in S : i <= k
    <3> HIDE DEF S
    <3> QED
      BY <1>1, <2>1, LastExists
  <2>3. k \in 1 .. n /\ us[k].name = x
    BY <2>2
  <2>4. \A j \in k + 1 .. n : us[j].name # x
    <3>1. \A j \in k + 1 .. n : j \in 1 .. n /\ ~(j <= k)
      BY <1>1, <2>3
    <3> QED
      BY <2>2, <3>1
  <2>5. last(x) \in 1 .. n /\ us[last(x)].name = x
        /\ \A j \in last(x) + 1 .. n : us[j].name # x
    BY <2>3, <2>4
  <2> HIDE DEF last
  <2> QED
    BY <1>2, <2>5
<1>6. Given(args) = m
  <2> HIDE DEF last
  <2>1. Given(args) = [x \in DOMAIN m |-> us[last(x)].pass]
    BY <1>2, <1>4
  <2> QED
    BY <1>3, <1>5, <2>1
<1> QED
  BY <1>2, <1>6 DEF d, m

(* A client that offers one method offers nothing else.                    *)
LEMMA OneMethod ==
  ASSUME NEW d \in Dialogue, SaysWhatItMeans(d), Cardinality(d.methods) = 1
  PROVE  d.bad = "hello" \/ d.methods = {USERPASS} \/ USERPASS \notin d.methods
<1> SUFFICES ASSUME d.bad # "hello"
             PROVE  d.methods = {USERPASS} \/ USERPASS \notin d.methods
  OBVIOUS
<1> DEFINE f == SubSeq(d.hello, 3, Len(d.hello))
           n == Len(f)
           g == [i \in 1 .. n |-> f[i]]
<1>1. d.methods = {f[i] : i \in 1 .. n}
  BY DEF SaysWhatItMeans
<1>2. n \in Int
  <2>1. d.hello \in Seq(Nat)
    BY DEF Dialogue
  <2> QED
    BY <2>1
<1> HIDE DEF f, n
<1>3. IsFiniteSet(1 .. n)
  BY <1>2, FS_Interval
<1>4. g \in Surjection(1 .. n, d.methods)
  BY <1>1 DEF Surjection
<1>5. IsFiniteSet(d.methods)
  BY <1>3, <1>4, FS_Surjection
<1>6. PICK x : d.methods = {x}
  BY <1>5, FS_Singleton
<1> QED
  BY <1>6

LEMMA InitKeeps ==
  HandshakeInit => Kept(db, cfg, past) /\ conn = NewConn(DEFAULT_BUFFER)
<1> SUFFICES ASSUME HandshakeInit
             PROVE  Kept(db, cfg, past) /\ conn = NewConn(DEFAULT_BUFFER)
  OBVIOUS
<1>1. PICK line \in CommandLines :
        LET args == args_parse(line)
        IN  /\ args.ok /\ db = StartUsers(args) /\ cfg = StartConfig(args)
            /\ past = <<[users |-> Given(args), required |-> cfg.auth_required]>>
  BY DEF HandshakeInit
<1> DEFINE args == args_parse(line)
           e == EntryOf(db, cfg)
<1>2. args \in GoodArgs
  BY HandshakeAssumption, ArgsParseGood
<1> HIDE DEF args
<1>3. /\ db = StartUsers(args) /\ cfg = StartConfig(args)
      /\ past = <<[users |-> Given(args), required |-> cfg.auth_required]>>
  BY <1>1 DEF args
<1>4. IsTable(db) /\ Given(args) = AsMap(db)
  BY <1>2, <1>3, GivenIsMap
<1>5. db \in Tables
  BY <1>4 DEF Tables, IsTable
<1>6. /\ cfg.io_buffer_size = DEFAULT_BUFFER
      /\ cfg \in [io_buffer_size : {DEFAULT_BUFFER}, conn_timeout_secs : {0},
                  auth_required : BOOLEAN, admin : [name : Seq(Nat), pass : Seq(Nat)]]
  <2> DEFINE r == args.require_auth \/ Len(args.users) > 0
  <2>1. cfg = [io_buffer_size |-> DEFAULT_BUFFER, conn_timeout_secs |-> 0,
               auth_required |-> r, admin |-> args.admin]
    BY <1>3 DEF StartConfig
  <2>2. r \in BOOLEAN
    OBVIOUS
  <2>3. args.admin \in [name : Seq(Nat), pass : Seq(Nat)]
    BY <1>2 DEF GoodArgs
  <2> HIDE DEF r
  <2> QED
    BY <2>1, <2>2, <2>3
<1>7. e \in Entry
  BY <1>5, <1>6 DEF Entry, EntryOf
<1>8. past = <<e>>
  BY <1>3, <1>4 DEF EntryOf
<1> HIDE DEF e
<1>9. past \in Seq(Entry) /\ Len(past) > 0 /\ past[Len(past)] = e
  BY <1>7, <1>8
<1>10. Kept(db, cfg, past)
  BY <1>5, <1>6, <1>9 DEF Kept, EntryOf, e
<1> QED
  BY <1>6, <1>10 DEF HandshakeInit

LEMMA NewConnIs ==
  LET c == NewConn(DEFAULT_BUFFER)
  IN  /\ c \in Conn /\ c.st = "HELLO_READ" /\ c.interest = "OP_READ"
      /\ c.hello = hello_parser_init /\ c.auth = auth_parser_init
      /\ c.request = request_parser_init /\ c.method = NO_AUTH
      /\ c.write_buffer.bytes = <<>> /\ c.read_buffer.bytes = <<>>
      /\ c.read_buffer.read = 0
<1> DEFINE b == buffer_init(DEFAULT_BUFFER)
<1>1. DEFAULT_BUFFER \in Nat
  BY StartupAssumption
<1>2. <<>> \in Seq(Nat) /\ Len(<<>>) = 0
  OBVIOUS
<1>3. b \in BufferOf(Nat, DEFAULT_BUFFER) /\ b.bytes = <<>> /\ b.read = 0
  <2> DEFINE z == DEFAULT_BUFFER
  <2>1. b = [size |-> z, read |-> 0, bytes |-> <<>>]
    BY DEF buffer_init
  <2>2. b \in [size : {z}, read : Nat, bytes : Seq(Nat)] /\ b.read + Len(b.bytes) <= z
        /\ b.bytes = <<>> /\ b.read = 0
    BY <1>1, <1>2, <2>1
  <2> HIDE DEF b, z
  <2> QED
    BY <1>1, <2>2, BufferIn DEF z
<1>4. /\ hello_parser_init \in HelloParser /\ auth_parser_init \in AuthParser
      /\ request_parser_init \in RequestParser
  BY <1>2 DEF hello_parser_init, auth_parser_init, request_parser_init,
              HelloParser, AuthParser, RequestParser
<1>5. NewConn(DEFAULT_BUFFER) =
        [st |-> "HELLO_READ", interest |-> "OP_READ", hello |-> hello_parser_init,
         auth |-> auth_parser_init, request |-> request_parser_init,
         method |-> NO_AUTH, auth_ok |-> FALSE, reply |-> SUCCESS,
         read_buffer |-> b, write_buffer |-> b]
  BY DEF NewConn
<1> HIDE DEF b
<1> QED
  BY <1>3, <1>4, <1>5 DEF Conn, Reading, SUCCESS

LEMMA InitIsGood ==
  HandshakeInit => HandshakeInv
<1> SUFFICES ASSUME HandshakeInit PROVE HandshakeInv
  OBVIOUS
<1> DEFINE buf == conn.read_buffer
<1>1. /\ conn = NewConn(DEFAULT_BUFFER) /\ Kept(db, cfg, past)
  BY InitKeeps
<1>2. /\ conn \in Conn /\ conn.st = "HELLO_READ" /\ conn.interest = "OP_READ"
      /\ conn.hello = hello_parser_init /\ conn.auth = auth_parser_init
      /\ conn.request = request_parser_init /\ conn.method = NO_AUTH
      /\ conn.write_buffer.bytes = <<>> /\ buf.bytes = <<>> /\ buf.read = 0
  BY <1>1, NewConnIs
<1>3. /\ dialogue \in Dialogues /\ pos = 0 /\ out = <<>> /\ gone = FALSE
      /\ eager \in BOOLEAN /\ (eager = TRUE => Cardinality(dialogue.methods) = 1)
      /\ turn = (IF eager THEN "payload" ELSE "start")
      /\ sent = (IF eager THEN Whole(dialogue) ELSE <<>>)
  BY DEF HandshakeInit
<1>4. dialogue \in Dialogue /\ SaysWhatItMeans(dialogue)
  BY <1>3, HandshakeAssumption
<1>5. /\ conn.hello.state = "VERSION" /\ conn.auth.state = "VERSION"
      /\ conn.request.state = "VERSION"
  BY <1>2 DEF hello_parser_init, auth_parser_init, request_parser_init
<1>6. Staged(conn)
  BY <1>2, <1>5 DEF Staged, Quiet, Reading, Writing, Ending, NO_AUTH, USERPASS, NONE
<1>7. Answered(conn, out)
  <2>1. ~Decided(conn) /\ HelloReply(conn) = <<>> /\ AuthReply(conn) = <<>>
    BY <1>5 DEF Decided, HelloReply, AuthReply, Ending
  <2>2. <<>> \in Seq(Nat) /\ <<>> \o <<>> = <<>> \o <<>> \o <<>>
    OBVIOUS
  <2> QED
    BY <1>2, <1>3, <2>1, <2>2 DEF Answered
<1>8. Spoken(conn, dialogue, eager, turn, sent)
  <2>1. CASE eager = TRUE
    <3>1. dialogue.bad = "hello" \/ dialogue.methods = {USERPASS}
          \/ USERPASS \notin dialogue.methods
      BY <1>3, <1>4, <2>1, OneMethod
    <3> QED
      BY <1>3, <2>1, <3>1 DEF Spoken
  <2>2. CASE eager = FALSE
    BY <1>2, <1>3, <2>2 DEF Spoken, Utterance, Turns
  <2> QED
    BY <1>3, <2>1, <2>2
<1>9. sent \in Seq(Nat)
  BY <1>2, <1>3, <1>4, <1>8, SpokenMessages
<1>10. Received(buf, sent, pos)
  <2>1. Len(sent) \in Nat /\ Len(buf.bytes) = 0
    BY <1>2, <1>9
  <2>2. 0 \in 0 .. Len(sent) /\ 1 .. 0 = {}
    BY <2>1
  <2> QED
    BY <1>2, <1>3, <1>9, <2>1, <2>2 DEF Received
<1>11. Heard(conn, dialogue, sent, pos - Len(buf.bytes))
  <2>1. pos - Len(buf.bytes) = 0
    <3>1. Len(buf.bytes) = 0
      BY <1>2
    <3> QED
      BY <1>3, <3>1
  <2>2. HelloIs(conn.hello, sent, 0, 0)
    BY <1>2 DEF HelloIs
  <2> QED
    BY <1>2, <1>5, <2>1, <2>2 DEF Heard
<1>12. Granted(conn, past) /\ Caused(conn, dialogue, eager, gone)
  BY <1>2, <1>5 DEF Granted, Caused
<1>13. Good(conn, pos, out)
  BY <1>2, <1>6, <1>7, <1>8, <1>10, <1>11, <1>12 DEF Good
<1> QED
  BY <1>1, <1>3, <1>13 DEF HandshakeInv

-----------------------------------------------------------------------------
(* The theorems.                                                           *)

LEMMA StepKeepsInv ==
  HandshakeInv /\ [HandshakeNext]_vars => HandshakeInv'
<1> SUFFICES ASSUME HandshakeInv, [HandshakeNext]_vars PROVE HandshakeInv'
  OBVIOUS
<1>1. CASE socksv5_read
  BY <1>1, ReadKeepsInv
<1>2. CASE socksv5_write
  BY <1>2, WriteKeepsInv
<1>3. CASE ConnectionDecided
  BY <1>3, DecideKeepsInv
<1>4. CASE ConnectionLost
  BY <1>4, LossKeepsInv
<1>5. CASE ClientSays
  BY <1>5, SaysKeepsInv
<1>6. CASE ClientGoes
  BY <1>6, GoesKeepsInv
<1>7. CASE Administered
  BY <1>7, AdministeredKeepsInv
<1>8. CASE UNCHANGED vars
  <2>1. UNCHANGED <<db, cfg, past, conn, dialogue, eager, turn, sent, pos, out, gone>>
    BY <1>8 DEF vars
  <2>2. Good(conn, pos, out)'
    BY <2>1 DEF HandshakeInv, Good
  <2> QED
    BY <2>1, <2>2 DEF HandshakeInv
<1> QED
  BY <1>1, <1>2, <1>3, <1>4, <1>5, <1>6, <1>7, <1>8 DEF HandshakeNext, Serve

(* What every reachable state of a handshake is like: each parser is where *)
(* the bytes it was given bring it, the replies sent and to be sent are    *)
(* those to the messages taken, the buffer holds what was received last,   *)
(* and what the client was granted or refused was right at some time.      *)
THEOREM HandshakeInvariant == HandshakeSpec => []HandshakeInv
<1>1. HandshakeInit => HandshakeInv
  BY InitIsGood
<1>2. HandshakeInv /\ [HandshakeNext]_vars => HandshakeInv'
  BY StepKeepsInv
<1> QED
  BY <1>1, <1>2, PTL DEF HandshakeSpec

(* What HandshakeInv says of the connection in words of the properties.    *)
LEMMA InvFacts ==
  ASSUME HandshakeInv
  PROVE  /\ conn \in Conn /\ Staged(conn) /\ Answered(conn, out)
         /\ Received(conn.read_buffer, sent, pos) /\ Heard(conn, dialogue, sent, Consumed)
         /\ Granted(conn, past) /\ Caused(conn, dialogue, eager, gone)
         /\ dialogue.hello \in Seq(Nat) /\ dialogue.auth \in Seq(Nat)
         /\ dialogue.request \in Seq(Nat)
         /\ Len(dialogue.hello \o dialogue.auth) = Len(dialogue.hello) + Len(dialogue.auth)
         /\ Len(Handshake) = Base(conn, dialogue) + Len(dialogue.request)
         /\ Len(Handshake) \in Nat
<1> DEFINE h == dialogue.hello
           a == AuthMessage(conn, dialogue)
           r == dialogue.request
           x == h \o a
<1>1. /\ conn \in Conn /\ Staged(conn) /\ Answered(conn, out)
      /\ Received(conn.read_buffer, sent, pos) /\ Heard(conn, dialogue, sent, Consumed)
      /\ Granted(conn, past) /\ Caused(conn, dialogue, eager, gone)
      /\ dialogue \in Dialogue
  BY DialogueMeans DEF HandshakeInv, Good, Consumed
<1>2. h \in Seq(Nat) /\ dialogue.auth \in Seq(Nat) /\ r \in Seq(Nat) /\ a \in Seq(Nat)
  BY <1>1 DEF Dialogue, AuthMessage
<1>3. Handshake = x \o r
  BY DEF Handshake, AuthMessage
<1>6. Base(conn, dialogue) = Len(h) + Len(a)
  BY DEF Base
<1>4. Len(h \o dialogue.auth) = Len(h) + Len(dialogue.auth)
  BY <1>2, JoinHolds
<1>5. x \in Seq(Nat) /\ Len(x) = Len(h) + Len(a)
  BY <1>2, JoinHolds
<1> HIDE DEF h, a, r, x
<1>7. Len(x \o r) = Len(x) + Len(r) /\ x \o r \in Seq(Nat)
  BY <1>2, <1>5, JoinHolds
<1>8. Len(x \o r) \in Nat
  BY <1>7
<1> QED
  BY <1>1, <1>2, <1>3, <1>4, <1>5, <1>6, <1>7, <1>8 DEF h, r

(* socks5_parsers.c: however recv cuts the bytes of the client, what the   *)
(* three parsers make of a well-formed message is what the client put in   *)
(* it, and they take its bytes and no more.                                *)
THEOREM ParsersReadWhatWasSent == HandshakeSpec => []NothingIsMisread
<1>1. HandshakeInv => NothingIsMisread
  <2> SUFFICES ASSUME HandshakeInv, dialogue.bad = "none" PROVE NothingIsMisread
    BY DEF NothingIsMisread
  <2>1. Staged(conn) /\ Heard(conn, dialogue, sent, Consumed)
    BY InvFacts
  <2>2. conn.st = "HELLO_WRITE" =>
          /\ conn.hello.has_noauth = (NO_AUTH \in dialogue.methods)
          /\ conn.hello.has_userpass = (USERPASS \in dialogue.methods)
          /\ Consumed = Len(dialogue.hello)
    BY <2>1 DEF Staged, Heard
  <2>3. conn.st = "AUTH_WRITE" =>
          /\ conn.auth.username = dialogue.user /\ conn.auth.password = dialogue.pass
          /\ Consumed = Len(dialogue.hello \o dialogue.auth)
    <3>1. Len(dialogue.hello \o dialogue.auth) = Len(dialogue.hello) + Len(dialogue.auth)
      BY InvFacts
    <3> QED
      BY <2>1, <3>1 DEF Staged, Heard
  <2>4. conn.st \in {"REQUEST_CONNECTING", "REQUEST_WRITE"} =>
          /\ conn.request.cmd = dialogue.cmd /\ conn.request.atyp = dialogue.atyp
          /\ conn.request.addr = dialogue.addr /\ conn.request.port = dialogue.port
          /\ Consumed = Len(Handshake)
    <3>1. Len(Handshake) = Base(conn, dialogue) + Len(dialogue.request)
      BY InvFacts
    <3>2. conn.st \in {"REQUEST_CONNECTING", "REQUEST_WRITE"} => conn.request.state = "DONE"
      BY <2>1 DEF Staged, Heard, Ending
    <3> QED
      BY <2>1, <3>1, <3>2 DEF Heard
  <2> QED
    BY <2>2, <2>3, <2>4 DEF NothingIsMisread
<1> QED
  BY <1>1, HandshakeInvariant, PTL

(* hello_read, auth_read and build_reply write one reply each, hello_write *)
(* and its kin send it to its last byte before the next one is written.    *)
THEOREM OneReplyPerMessage == HandshakeSpec => []RepliesAreWhole
<1>1. HandshakeInv => RepliesAreWhole
  <2> SUFFICES ASSUME HandshakeInv PROVE RepliesAreWhole
    OBVIOUS
  <2>1. Staged(conn) /\ Answered(conn, out) /\ conn \in Conn
    BY InvFacts
  <2> DEFINE hello == IF conn.hello.state = "DONE" THEN <<5, conn.method>> ELSE <<>>
             auth  == IF conn.auth.state = "DONE"
                      THEN <<1, IF conn.auth_ok THEN 0 ELSE 1>> ELSE <<>>
             decided == \/ conn.st \in {"REQUEST_WRITE", "COPY"}
                        \/ /\ conn.st \in {"DONE", "ERROR_STATE"}
                           /\ conn.request.state \in {"DONE", "ERROR"}
             replies == IF decided
                        THEN {<<5, conn.reply, 0>> \o AddressBytes(f) : f \in Family}
                        ELSE {<<>>}
  <2>2. decided <=> Decided(conn)
    BY <2>1 DEF Staged, Decided, Ending, Reading, Writing, Conn, request_parser_init
  <2>3. replies = IF Decided(conn) THEN {RequestReply(conn, f) : f \in Family} ELSE {<<>>}
    BY <2>2 DEF RequestReply
  <2>4. hello = HelloReply(conn) /\ auth = AuthReply(conn)
    BY DEF HelloReply, AuthReply
  <2>5. \E r \in replies : Output = hello \o auth \o r
    BY <2>1, <2>3, <2>4 DEF Answered, Output
  <2>6. conn.method # USERPASS => auth = <<>>
    BY <2>1 DEF Staged, auth_parser_init
  <2> QED
    BY <2>5, <2>6 DEF RepliesAreWhole
<1> QED
  BY <1>1, HandshakeInvariant, PTL

(* request_write: the buffer the relay begins with holds what the client   *)
(* sent behind its request, and nothing is left to send to the client.     *)
THEOREM RelayGetsThePayload == HandshakeSpec => []PayloadIsHandedOver
<1>1. HandshakeInv => PayloadIsHandedOver
  <2> SUFFICES ASSUME HandshakeInv, conn.st = "COPY"
               PROVE  /\ conn.read_buffer.bytes = SubSeq(sent, Len(Handshake) + 1, pos)
                      /\ ~buffer_can_read(conn.write_buffer)
    BY DEF PayloadIsHandedOver
  <2> DEFINE f == conn.read_buffer.bytes
             o == Len(Handshake)
             k == Len(f)
  <2>1. /\ conn \in Conn /\ Staged(conn) /\ Received(conn.read_buffer, sent, pos)
        /\ Heard(conn, dialogue, sent, Consumed)
        /\ o = Base(conn, dialogue) + Len(dialogue.request) /\ o \in Nat
    BY InvFacts
  <2>2. conn.request.state = "DONE" /\ conn.write_buffer.bytes = <<>>
    BY <2>1 DEF Staged, Quiet
  <2>3. Consumed = o /\ Consumed = pos - k
    BY <2>1, <2>2 DEF Heard, Consumed
  <2>4. f \in Seq(Nat) /\ k \in Nat
    BY <2>1, ConnFields
  <2>5. /\ sent \in Seq(Nat) /\ pos \in 0 .. Len(sent)
        /\ \A i \in 1 .. k : f[i] = sent[pos - k + i]
    BY <2>1 DEF Received
  <2> HIDE DEF f, o, k
  <2>6. Len(sent) \in Nat
    BY <2>5
  <2>7. o = pos - k /\ pos = o + k /\ o + k <= Len(sent)
    <3>1. /\ o = pos - k /\ pos \in 0 .. Len(sent) /\ k \in Nat /\ o \in Nat
          /\ Len(sent) \in Nat
      BY <2>1, <2>3, <2>4, <2>5, <2>6
    <3>2. pos \in Nat /\ pos <= Len(sent)
      BY ONLY <3>1
    <3> QED
      BY ONLY <3>1, <3>2
  <2>8. \A i \in 1 .. k : sent[o + i] = f[i]
    BY <2>5, <2>7
  <2>9. o + Len(f) <= Len(sent) /\ \A i \in 1 .. Len(f) : sent[o + i] = f[i]
    BY <2>7, <2>8 DEF k
  <2>10. SubSeq(sent, o + 1, o + Len(f)) = f
    BY <2>1, <2>4, <2>5, <2>9, PieceIs
  <2>11. SubSeq(sent, o + 1, pos) = f
    BY <2>7, <2>10 DEF k
  <2>12. ~buffer_can_read(conn.write_buffer)
    BY <2>2 DEF buffer_can_read
  <2> QED
    BY <2>11, <2>12 DEF f, o
<1> QED
  BY <1>1, HandshakeInvariant, PTL

(* choose_method and auth_read, while the management side adds and removes *)
(* users and switches the need to authenticate: whoever is served had the  *)
(* right to be at some time, and whoever is turned away had not.           *)
THEOREM AccessIsTheDirectorys == HandshakeSpec => []AccessFollowsTheDirectory
<1>1. HandshakeInv => AccessFollowsTheDirectory
  <2> SUFFICES ASSUME HandshakeInv, dialogue.bad = "none" PROVE AccessFollowsTheDirectory
    BY DEF AccessFollowsTheDirectory
  <2> DEFINE asks == NO_AUTH \in dialogue.methods
             knows == USERPASS \in dialogue.methods
             open == \E i \in 1 .. Len(past) : ~past[i].required
             closed == \E i \in 1 .. Len(past) : past[i].required
             known == \E i \in 1 .. Len(past) : Known(past[i])
             unknown == \E i \in 1 .. Len(past) : ~Known(past[i])
  <2>1. /\ conn \in Conn /\ Staged(conn) /\ Heard(conn, dialogue, sent, Consumed)
        /\ Granted(conn, past)
    BY InvFacts
  <2>2. conn.hello.state = "DONE" =>
          conn.hello.has_noauth = asks /\ conn.hello.has_userpass = knows
    BY <2>1 DEF Heard
  <2>3. conn.request.state # "ERROR"
    BY <2>1 DEF Heard
  <2>4. conn.auth.state = "DONE" =>
          \E i \in 1 .. Len(past) : (conn.auth_ok = TRUE) <=> Known(past[i])
    BY <2>1 DEF Heard, Granted, Known, Knows
  <2>5. conn.hello.state = "DONE" =>
          /\ conn.method = NO_AUTH => conn.hello.has_noauth = TRUE /\ open
          /\ conn.method = USERPASS => conn.hello.has_userpass = TRUE
          /\ conn.method = NONE =>
               conn.hello.has_userpass = FALSE /\ (conn.hello.has_noauth = FALSE \/ closed)
    BY <2>1 DEF Granted
  <2> HIDE DEF open, closed, asks, knows
  <2>6. conn.st \in {"REQUEST_READ", "REQUEST_CONNECTING", "REQUEST_WRITE", "COPY"} =>
          (asks /\ open) \/ (knows /\ known)
    <3> SUFFICES ASSUME conn.st \in {"REQUEST_READ", "REQUEST_CONNECTING", "REQUEST_WRITE",
                                     "COPY"}
                 PROVE  (asks /\ open) \/ (knows /\ known)
      OBVIOUS
    <3>1. Admitted(conn)
      BY <2>1 DEF Staged, Ending, request_parser_init
    <3>2. CASE conn.method = NO_AUTH
      BY <2>2, <2>5, <3>1, <3>2 DEF Admitted
    <3>3. CASE conn.method = USERPASS /\ conn.auth.state = "DONE" /\ conn.auth_ok = TRUE
      BY <2>2, <2>4, <2>5, <3>1, <3>3 DEF Admitted
    <3> QED
      BY <3>1, <3>2, <3>3 DEF Admitted
  <2>7. conn.st = "DONE" /\ conn.request.state # "DONE" =>
          (~knows /\ (closed \/ ~asks)) \/ (knows /\ unknown)
    <3> SUFFICES ASSUME conn.st = "DONE", conn.request.state # "DONE"
                 PROVE  (~knows /\ (closed \/ ~asks)) \/ (knows /\ unknown)
      OBVIOUS
    <3>1. conn.hello.state = "DONE"
      BY <2>1 DEF Staged
    <3>2. \/ conn.method = NONE
          \/ conn.method = USERPASS /\ conn.auth.state = "DONE" /\ conn.auth_ok = FALSE
      BY <2>1, <2>3 DEF Staged, Ending
    <3>3. CASE conn.method = NONE
      BY <2>2, <2>5, <3>1, <3>3
    <3>4. CASE conn.method = USERPASS /\ conn.auth.state = "DONE" /\ conn.auth_ok = FALSE
      BY <2>2, <2>4, <2>5, <3>1, <3>4
    <3> QED
      BY <3>2, <3>3, <3>4
  <2> QED
    BY <2>6, <2>7 DEF AccessFollowsTheDirectory, open, closed, asks, knows
<1> QED
  BY <1>1, HandshakeInvariant, PTL

(* socksv5_read and the parsers: a handshake is broken off only for one of *)
(* the causes named, a full buffer for none but an eager client.           *)
THEOREM NoHandshakeIsDropped == HandshakeSpec => []BrokenOffForCause
<1>1. HandshakeInv => BrokenOffForCause
  <2> SUFFICES ASSUME HandshakeInv PROVE BrokenOffForCause
    OBVIOUS
  <2>1. Caused(conn, dialogue, eager, gone)
    BY InvFacts
  <2> QED
    BY <2>1 DEF Caused, BrokenOffForCause, Space
<1> QED
  BY <1>1, HandshakeInvariant, PTL
=============================================================================
