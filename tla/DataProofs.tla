----------------------------- MODULE DataProofs ------------------------------
(* Facts about sequences, recursive functions and the buffers of Buffer    *)
(* that the proofs of several components rest on.                          *)
EXTENDS Buffer, CStrings, SequenceTheorems, WellFoundedInduction, TLAPS

-----------------------------------------------------------------------------
(* Induction over an interval of numbers, on a set instead of a predicate. *)

LEMMA LeastExists ==
  ASSUME NEW S \in SUBSET Nat, S # {}
  PROVE  \E m \in S : \A x \in S : m <= x
<1>1. PICK m \in S : \A y \in S : ~(<<y, m>> \in OpToRel(<, Nat))
  BY NatLessThanWellFounded, WFMin
<1>2. \A y \in S : ~(y < m)
  BY <1>1 DEF OpToRel
<1> QED
  BY <1>2

LEMMA Induction ==
  ASSUME NEW n \in Nat, NEW P, 0 \in P,
         \A i \in 0 .. n - 1 : i \in P => i + 1 \in P
  PROVE  \A i \in 0 .. n : i \in P
<1> DEFINE S == {i \in 0 .. n : i \notin P}
<1> SUFFICES ASSUME S # {} PROVE FALSE
  OBVIOUS
<1>0. S \in SUBSET Nat
  OBVIOUS
<1>1. PICK m \in S : \A x \in S : m <= x
  BY <1>0, LeastExists
<1>2. m - 1 \in 0 .. n - 1 /\ m - 1 \notin S
  BY <1>1
<1>3. m - 1 \in P
  BY <1>2
<1>4. (m - 1) + 1 \in P
  BY <1>2, <1>3
<1> QED
  BY <1>1, <1>4

\* f starts with a, and each value is g of its place and of the value before.
Steps(n, X, g) == g \in [1 .. n -> [X -> X]]
Iterates(f, n, X, a, g) ==
  /\ f \in [0 .. n -> X] /\ f[0] = a
  /\ \A i \in 1 .. n : f[i] = g[i][f[i - 1]]

(* A recursive function over 0 .. n exists.                                *)
LEMMA RecursionExists ==
  ASSUME NEW n \in Nat, NEW X, NEW a \in X, NEW g, Steps(n, X, g)
  PROVE  \E f : Iterates(f, n, X, a, g)
<1> USE DEF Steps
<1> DEFINE Good(f, k) == /\ f \in [0 .. k -> X] /\ f[0] = a
                         /\ \A i \in 1 .. k : f[i] = g[i][f[i - 1]]
           P == {k \in 0 .. n : \E f : Good(f, k)}
<1>1. 0 \in P
  <2>1. Good([i \in 0 .. 0 |-> a], 0)
    OBVIOUS
  <2>2. 0 \in 0 .. n
    OBVIOUS
  <2> HIDE DEF Good
  <2> QED
    BY <2>1, <2>2
<1>2. ASSUME NEW k \in 0 .. n - 1, k \in P PROVE k + 1 \in P
  <2>1. PICK f : Good(f, k)
    BY <1>2
  <2> DEFINE h == [i \in 0 .. k + 1 |-> IF i = k + 1 THEN g[k + 1][f[k]] ELSE f[i]]
  <2>2. k + 1 \in 1 .. n /\ k \in 0 .. k /\ f[k] \in X /\ g[k + 1][f[k]] \in X
    BY <2>1
  <2>3. h \in [0 .. k + 1 -> X] /\ h[0] = a
    BY <2>1, <2>2
  <2>4. ASSUME NEW i \in 1 .. k + 1 PROVE h[i] = g[i][h[i - 1]]
    <3>1. CASE i = k + 1
      BY <3>1, <2>2
    <3>2. CASE i # k + 1
      <4>1. i \in 1 .. k /\ i - 1 \in 0 .. k /\ i - 1 # k + 1 /\ i - 1 \in 0 .. k + 1
            /\ i \in 0 .. k + 1
        BY <3>2
      <4>2. h[i] = f[i] /\ h[i - 1] = f[i - 1]
        BY <4>1, <3>2
      <4> QED
        BY <4>1, <4>2, <2>1
    <3> QED
      BY <3>1, <3>2
  <2>5. Good(h, k + 1)
    BY <2>3, <2>4
  <2>6. k + 1 \in 0 .. n
    OBVIOUS
  <2> HIDE DEF Good, h
  <2> QED
    BY <2>5, <2>6
<1> HIDE DEF P
<1>3. n \in P
  <2>1. \A i \in 0 .. n : i \in P
    BY <1>1, <1>2, Induction
  <2> QED
    BY <2>1
<1> QED
  BY <1>3 DEF P, Iterates

(* Induction from the end of an interval.                                  *)
LEMMA GoingBack ==
  ASSUME NEW n \in Nat, NEW P,
         \A i \in 1 .. n : (\A j \in i + 1 .. n : j \in P) => i \in P
  PROVE  \A i \in 1 .. n : i \in P
<1> DEFINE S == {k \in 0 .. n : \A j \in n + 1 - k .. n : j \in P}
<1>1. 0 \in S
  OBVIOUS
<1>2. ASSUME NEW k \in 0 .. n - 1, k \in S PROVE k + 1 \in S
  <2>1. n - k \in 1 .. n /\ (n - k) + 1 = n + 1 - k /\ n + 1 - (k + 1) = n - k
    OBVIOUS
  <2>2. \A j \in (n - k) + 1 .. n : j \in P
    BY <1>2, <2>1
  <2>3. n - k \in P
    BY <2>1, <2>2
  <2>4. \A j \in n - k .. n : j = n - k \/ j \in (n - k) + 1 .. n
    BY <2>1
  <2>5. \A j \in n + 1 - (k + 1) .. n : j \in P
    BY <2>1, <2>2, <2>3, <2>4
  <2> QED
    BY <2>5
<1> HIDE DEF S
<1>3. \A k \in 0 .. n : k \in S
  BY <1>1, <1>2, Induction
<1>4. n \in S
  BY <1>3
<1>5. \A j \in n + 1 - n .. n : j \in P
  BY <1>4 DEF S
<1> QED
  BY <1>5

\* g computes the value at each place from those behind it.
StepsBack(n, X, g) ==
  /\ g \in [1 .. n -> [[1 .. n -> X] -> X]]
  /\ \A i \in 1 .. n : \A f, h \in [1 .. n -> X] :
       (\A j \in i + 1 .. n : f[j] = h[j]) => g[i][f] = g[i][h]
IteratesBack(f, n, X, g) ==
  f \in [1 .. n -> X] /\ \A i \in 1 .. n : f[i] = g[i][f]

(* A recursive function exists that is computed from the end of an         *)
(* interval.                                                               *)
LEMMA BackwardsExists ==
  ASSUME NEW n \in Nat, NEW X, NEW x \in X, NEW g, StepsBack(n, X, g)
  PROVE  \E f : IteratesBack(f, n, X, g)
<1> USE DEF StepsBack
<1> DEFINE Good(f, k) == \A i \in n + 1 - k .. n : f[i] = g[i][f]
           P == {k \in 0 .. n : \E f \in [1 .. n -> X] : Good(f, k)}
<1>1. 0 \in P
  <2>1. [i \in 1 .. n |-> x] \in [1 .. n -> X]
    OBVIOUS
  <2>2. \A f : Good(f, 0)
    <3>1. n + 1 - 0 .. n = {}
      OBVIOUS
    <3> QED
      BY <3>1
  <2>3. 0 \in 0 .. n
    OBVIOUS
  <2> HIDE DEF Good
  <2> QED
    BY <2>1, <2>2, <2>3, Zenon
<1>2. ASSUME NEW k \in 0 .. n - 1, k \in P PROVE k + 1 \in P
  <2>1. PICK f \in [1 .. n -> X] : Good(f, k)
    BY <1>2
  <2> DEFINE l == n - k
             h == [f EXCEPT ![l] = g[l][f]]
  <2>2. l \in 1 .. n /\ l + 1 = n + 1 - k /\ n + 1 - (k + 1) = l
    OBVIOUS
  <2>3. g[l] \in [[1 .. n -> X] -> X]
    BY <2>2
  <2> HIDE DEF l
  <2>4. h \in [1 .. n -> X] /\ h[l] = g[l][f] /\ \A j \in 1 .. n : j # l => h[j] = f[j]
    BY <2>2, <2>3
  <2> HIDE DEF h
  <2>5. \A j \in l + 1 .. n : j \in 1 .. n /\ j # l /\ f[j] = h[j]
    <3>1. l \in Nat /\ l >= 1
      BY <2>2
    <3>2. \A j \in l + 1 .. n : j \in 1 .. n /\ j # l
      BY <3>1
    <3> QED
      BY <2>4, <3>2
  <2>6. h[l] = g[l][h]
    BY <2>2, <2>4, <2>5
  <2>7. ASSUME NEW i \in l + 1 .. n PROVE h[i] = g[i][h]
    <3>0. l \in Nat /\ l >= 1
      BY <2>2
    <3>1. i \in 1 .. n /\ \A j \in i + 1 .. n : j \in l + 1 .. n
      BY <3>0
    <3>2. f[i] = g[i][f]
      BY <2>1, <2>2
    <3>3. \A j \in i + 1 .. n : f[j] = h[j]
      BY <2>5, <3>1
    <3>4. h \in [1 .. n -> X]
      BY <2>4
    <3>5. g[i][f] = g[i][h]
      BY ONLY <3>1, <3>3, <3>4, f \in [1 .. n -> X],
              StepsBack(n, X, g), Zenon
    <3> QED
      BY <2>5, <3>2, <3>5
  <2>8. \A i \in l .. n : i = l \/ i \in l + 1 .. n
    BY <2>2
  <2>9. Good(h, k + 1)
    BY <2>2, <2>6, <2>7, <2>8
  <2>10. k + 1 \in 0 .. n
    OBVIOUS
  <2> HIDE DEF Good
  <2> QED
    BY <2>4, <2>9, <2>10
<1> HIDE DEF P
<1>3. \A k \in 0 .. n : k \in P
  BY <1>1, <1>2, Induction
<1>4. n \in P
  BY <1>3
<1>5. PICK f \in [1 .. n -> X] : Good(f, n)
  BY <1>4 DEF P
<1>6. n + 1 - n = 1
  OBVIOUS
<1>7. \A i \in 1 .. n : f[i] = g[i][f]
  BY <1>5, <1>6
<1> QED
  BY <1>7 DEF IteratesBack

-----------------------------------------------------------------------------
(* Sequences and buffers.                                                  *)

(* What C sees of a field is a prefix of it.                               *)
LEMMA CStringIsSeq ==
  ASSUME NEW f \in Seq(Nat)
  PROVE  CString(f) \in Seq(Nat)
<1> DEFINE nul == {i \in 1 .. Len(f) : f[i] = NUL}
           end == IF nul = {} THEN Len(f) + 1
                  ELSE CHOOSE i \in nul : \A j \in nul : i <= j
<1>1. end \in 1 .. Len(f) + 1
  <2>1. CASE nul = {}
    BY <2>1
  <2>2. CASE nul # {}
    <3>1. nul \in SUBSET Nat
      OBVIOUS
    <3>2. \E i \in nul : \A j \in nul : i <= j
      BY <2>2, <3>1, LeastExists
    <3>3. end \in nul
      BY <2>2, <3>2
    <3>4. end \in 1 .. Len(f)
      BY <3>3
    <3> HIDE DEF end
    <3> QED
      BY <3>4
  <2> QED
    BY <2>1, <2>2
<1> HIDE DEF end
<1>2. SubSeq(f, 1, end - 1) \in Seq(Nat)
  BY <1>1
<1> QED
  BY <1>2 DEF CString, end

(* Cutting a sequence in two loses nothing.                                *)
LEMMA CutSeq ==
  ASSUME NEW T, NEW q \in Seq(T), NEW k \in 0 .. Len(q)
  PROVE  /\ SubSeq(q, 1, k) \in Seq(T) /\ Len(SubSeq(q, 1, k)) = k
         /\ SubSeq(q, k + 1, Len(q)) \in Seq(T)
         /\ Len(SubSeq(q, k + 1, Len(q))) = Len(q) - k
         /\ SubSeq(q, 1, k) \o SubSeq(q, k + 1, Len(q)) = q
<1>1. Len(q) \in Nat /\ k \in Nat /\ \A i \in 1 .. Len(q) : q[i] \in T
  BY LenProperties, ElementOfSeq
<1>2. SubSeq(q, 1, k) \in Seq(T) /\ Len(SubSeq(q, 1, k)) = k
  BY <1>1, SubSeqProperties
<1>3. /\ SubSeq(q, k + 1, Len(q)) \in Seq(T)
      /\ Len(SubSeq(q, k + 1, Len(q))) = Len(q) - k
  BY <1>1, SubSeqProperties
<1>4. SubSeq(q, 1, k) \o SubSeq(q, k + 1, Len(q)) = SubSeq(q, 1, Len(q))
  <2>1. /\ 1 \in 1 .. Len(q) + 1 /\ k \in (1 - 1) .. Len(q)
        /\ Len(q) \in k .. Len(q)
    BY <1>1
  <2> QED
    BY <2>1, ConcatAdjacentSubSeq
<1>5. SubSeq(q, 1, Len(q)) = q
  BY SubSeqFull
<1> QED
  BY <1>2, <1>3, <1>4, <1>5

LEMMA BufferFields ==
  ASSUME NEW T, NEW z \in Nat, NEW b \in BufferOf(T, z)
  PROVE  /\ b \in [size : {z}, read : Nat, bytes : Seq(T)]
         /\ b.size = z
         /\ b.read \in Nat /\ b.bytes \in Seq(T) /\ Len(b.bytes) \in Nat
         /\ b.read + Len(b.bytes) <= z
         /\ WriteSpace(b) = z - (b.read + Len(b.bytes))
         /\ buffer_can_read(b) <=> b.bytes # <<>>
<1>1. b \in [size : {z}, read : 0 .. z, bytes : Seq(T)]
  BY DEF BufferOf
<1>2. Len(b.bytes) \in Nat /\ (Len(b.bytes) = 0 <=> b.bytes = <<>>)
  BY <1>1, LenProperties, EmptySeq
<1> QED
  BY <1>1, <1>2 DEF BufferOf, WriteSpace, buffer_can_read

LEMMA BufferIn ==
  ASSUME NEW T, NEW z \in Nat, NEW b \in [size : {z}, read : Nat, bytes : Seq(T)],
         b.read + Len(b.bytes) <= z
  PROVE  b \in BufferOf(T, z)
<1>1. Len(b.bytes) \in Nat
  BY LenProperties
<1>2. b.read \in 0 .. z
  BY <1>1
<1> QED
  BY <1>2 DEF BufferOf

(* What fits is appended behind what is there.                             *)
LEMMA WriteAdvFits ==
  ASSUME NEW T, NEW z \in Nat, NEW b \in BufferOf(T, z), NEW q \in Seq(T),
         Len(q) <= WriteSpace(b)
  PROVE  /\ buffer_write_adv(b, q) \in BufferOf(T, z)
         /\ buffer_write_adv(b, q).bytes = b.bytes \o q
<1> DEFINE c == buffer_write_adv(b, q)
<1>1. b \in [size : {z}, read : Nat, bytes : Seq(T)]
  BY BufferFields
<1>2. b.bytes \o q \in Seq(T) /\ Len(b.bytes \o q) = Len(b.bytes) + Len(q)
  BY <1>1, ConcatProperties
<1>3. /\ c \in [size : {z}, read : Nat, bytes : Seq(T)]
      /\ c.read = b.read /\ c.bytes = b.bytes \o q
  BY <1>1, <1>2 DEF buffer_write_adv
<1>4. b.read + (Len(b.bytes) + Len(q)) <= z
  <2>1. Len(q) \in Nat /\ Len(b.bytes) \in Nat
    BY <1>1, LenProperties
  <2>2. WriteSpace(b) = z - (b.read + Len(b.bytes))
    BY BufferFields
  <2> QED
    BY <1>1, <2>1, <2>2
<1>5. c.read + Len(c.bytes) <= z
  BY <1>2, <1>3, <1>4
<1> HIDE DEF c
<1>6. c \in BufferOf(T, z)
  BY <1>3, <1>5, BufferIn
<1> QED
  BY <1>3, <1>6 DEF c

(* Reading drops a prefix, also when it brings the pointers back.          *)
LEMMA ReadAdvDrops ==
  ASSUME NEW T, NEW z \in Nat, NEW b \in BufferOf(T, z),
         NEW k \in 0 .. Len(b.bytes)
  PROVE  /\ buffer_read_adv(b, k) \in BufferOf(T, z)
         /\ SubSeq(b.bytes, 1, k) \o buffer_read_adv(b, k).bytes = b.bytes
         /\ SubSeq(b.bytes, 1, k) \in Seq(T)
         /\ Len(SubSeq(b.bytes, 1, k)) = k
<1> DEFINE rest == SubSeq(b.bytes, k + 1, Len(b.bytes))
           c == buffer_read_adv(b, k)
<1>1. /\ b \in [size : {z}, read : Nat, bytes : Seq(T)]
      /\ Len(b.bytes) \in Nat /\ b.read + Len(b.bytes) <= z
  BY BufferFields
<1>2. /\ rest \in Seq(T) /\ Len(rest) = Len(b.bytes) - k
      /\ SubSeq(b.bytes, 1, k) \o rest = b.bytes
      /\ SubSeq(b.bytes, 1, k) \in Seq(T) /\ Len(SubSeq(b.bytes, 1, k)) = k
  BY <1>1, CutSeq
<1> DEFINE moved == [b EXCEPT !.read = @ + k, !.bytes = rest]
<1>3. c = IF rest = <<>> THEN [moved EXCEPT !.read = 0] ELSE moved
  BY DEF buffer_read_adv, buffer_compact
<1> HIDE DEF c, rest
<1>4. /\ c \in [size : {z}, read : Nat, bytes : Seq(T)]
      /\ c.read \in {0, b.read + k} /\ c.bytes = rest
  <2>1. b.read + k \in Nat
    BY <1>1
  <2>2. /\ moved \in [size : {z}, read : Nat, bytes : Seq(T)]
        /\ moved.read = b.read + k /\ moved.bytes = rest
    BY <1>1, <1>2, <2>1
  <2> HIDE DEF moved
  <2>3. CASE rest = <<>>
    BY <1>3, <2>2, <2>3
  <2>4. CASE rest # <<>>
    BY <1>3, <2>2, <2>4
  <2> QED
    BY <2>3, <2>4
<1>5. c.read + Len(c.bytes) <= z
  BY <1>1, <1>2, <1>4
<1>6. c \in BufferOf(T, z)
  BY <1>4, <1>5, BufferIn
<1> QED
  BY <1>2, <1>4, <1>6 DEF c
=============================================================================
