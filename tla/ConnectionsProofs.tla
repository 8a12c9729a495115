------------------------- MODULE ConnectionsProofs -------------------------
(***************************************************************************)
(* What goes over connections: PeerWire for every size of bytes, words,    *)
(* ids and messages, any number of messages and any bytes; AnnounceQuery   *)
(* for every announce, any parameters of its URL and any interval.         *)
(***************************************************************************)
EXTENDS Connections, Announces, WellFoundedInduction, TLAPS

\* Induction up to n: what holds of 0, and of k + 1 if of k, holds up to n.
LEMMA Induction ==
  ASSUME NEW n \in Nat, NEW T, 0 \in T, \A k \in 1 .. n : k - 1 \in T => k \in T
  PROVE  \A k \in 0 .. n : k \in T
<1> DEFINE F == { k \in 0 .. n : k \notin T }
<1>1. SUFFICES ASSUME F # {} PROVE FALSE
  OBVIOUS
<1>2. PICK x \in F : \A y \in F : ~ y < x
  <2> DEFINE R == OpToRel(<, Nat)
  <2>1. F \subseteq Nat
    OBVIOUS
  <2> HIDE DEF F
  <2>2. \A x, y \in Nat : <<y, x>> \in R <=> y < x
    BY DEF OpToRel
  <2>3. IsWellFoundedOn(R, Nat)
    BY NatLessThanWellFounded
  <2> HIDE DEF R
  <2>4. PICK x \in F : \A y \in F : ~ (<<y, x>> \in R)
    BY <1>1, <2>1, <2>3, WFMin
  <2> QED BY <2>1, <2>2, <2>4
<1>3. x \in 1 .. n /\ x \notin T /\ x - 1 \in 0 .. n /\ x - 1 < x
  OBVIOUS
<1>4. x - 1 \in T
  BY <1>2, <1>3
<1> QED BY <1>3, <1>4

\* A function on 0 .. n in S with a first value, and what follows each.
Solutions(S, c, n, G) ==
  { f \in [0 .. n -> S] : f[0] = c /\ \A k \in 1 .. n : f[k] = G[<<k, f[k - 1]>>] }

\* A function on 0 .. n can be defined by its first value and what follows each.
LEMMA Recursion ==
  ASSUME NEW S, NEW c \in S, NEW n \in Nat, NEW G \in [(1 .. n) \X S -> S]
  PROVE  Solutions(S, c, n, G) # {}
<1> DEFINE Solves(f, m) == f[0] = c /\ \A k \in 1 .. m : f[k] = G[<<k, f[k - 1]>>]
           T == { m \in 0 .. n : \E f \in [0 .. n -> S] : Solves(f, m) }
<1>1. 0 \in T
  <2> DEFINE f == [k \in 0 .. n |-> c]
  <2>1. f \in [0 .. n -> S] /\ f[0] = c
    OBVIOUS
  <2>2. Solves(f, 0)
    BY <2>1
  <2> HIDE DEF f
  <2>3. 0 \in 0 .. n
    OBVIOUS
  <2> QED BY <2>1, <2>2, <2>3
<1>2. ASSUME NEW m \in 1 .. n, m - 1 \in T PROVE m \in T
  <2>1. PICK f \in [0 .. n -> S] : Solves(f, m - 1)
    BY <1>2
  <2> DEFINE g == [f EXCEPT ![m] = G[<<m, f[m - 1]>>]]
  <2>2. G[<<m, f[m - 1]>>] \in S
    <3>1. <<m, f[m - 1]>> \in (1 .. n) \X S
      OBVIOUS
    <3> QED BY <3>1
  <2>3. g \in [0 .. n -> S]
    BY <2>2
  <2>4. \A k \in 0 .. m - 1 : g[k] = f[k]
    OBVIOUS
  <2>5. g[m] = G[<<m, f[m - 1]>>]
    OBVIOUS
  <2> HIDE DEF g
  <2>6. g[0] = c
    BY <2>1, <2>4
  <2>7. ASSUME NEW k \in 1 .. m PROVE g[k] = G[<<k, g[k - 1]>>]
    <3>1. g[k - 1] = f[k - 1]
      BY <2>4
    <3>2. CASE k = m
      BY <2>5, <3>1, <3>2
    <3>3. CASE k # m
      <4>1. k \in 1 .. m - 1 /\ k \in 0 .. m - 1
        BY <3>3
      <4> QED BY <2>1, <2>4, <3>1, <4>1
    <3> QED BY <3>2, <3>3
  <2> QED BY <2>3, <2>6, <2>7
<1> HIDE DEF T
<1>3. n \in T
  BY <1>1, <1>2, Induction
<1> QED BY <1>3 DEF T, Solutions

\* It is the only one.
Alike(f, g, n) == f[0] = g[0] /\ \A k \in 1 .. n : f[k - 1] = g[k - 1] => f[k] = g[k]

\* Two functions that begin alike and go on alike are alike.
LEMMA OneSolution ==
  ASSUME NEW n \in Nat, NEW f, NEW g, Alike(f, g, n)
  PROVE  \A k \in 0 .. n : f[k] = g[k]
<1> DEFINE T == { k \in 0 .. n : f[k] = g[k] }
<1>1. 0 \in T /\ \A k \in 1 .. n : k - 1 \in T => k \in T
  BY DEF Alike
<1> HIDE DEF T
<1>2. \A k \in 0 .. n : k \in T
  BY <1>1, Induction
<1> QED BY <1>2 DEF T

-----------------------------------------------------------------------------
(* The wire's integers.                                                    *)

\* A byte has more than eight values, and a word at least a byte.
LEMMA ByteFacts == ByteValues \in Nat /\ ByteValues > 8 /\ WordBytes \in Nat \ {0}
BY WireAssumption DEF ByteValues

\* The last digit and the digits before it can be told from a number.
LEMMA ByteDigits ==
  ASSUME NEW B \in Nat \ {0}, NEW v \in Nat, NEW b \in 0 .. B - 1
  PROVE  (v * B + b) \in Nat /\ (v * B + b) \div B = v /\ (v * B + b) % B = b
OBVIOUS

\* What Uint32 computes: a number that grows digit by digit.
LEMMA Uint32Value ==
  ASSUME NEW bytes \in [1 .. WordBytes -> Byte]
  PROVE  \E f \in [0 .. WordBytes -> Nat] :
           /\ f[0] = 0 /\ Uint32(bytes) = f[WordBytes]
           /\ \A k \in 1 .. WordBytes : f[k] = f[k - 1] * ByteValues + bytes[k]
<1> DEFINE W == WordBytes
           B == ByteValues
           G == [p \in (1 .. W) \X Nat |-> p[2] * B + bytes[p[1]]]
           value == CHOOSE f : f = [k \in 0 .. W |-> IF k = 0 THEN 0 ELSE f[k - 1] * B + bytes[k]]
<1>1. W \in Nat \ {0} /\ B \in Nat \ {0}
  BY ByteFacts
<1>2. \A k \in 1 .. W : bytes[k] \in Nat
  BY <1>1 DEF Byte
<1>3. G \in [(1 .. W) \X Nat -> Nat]
  <2>1. ASSUME NEW p \in (1 .. W) \X Nat PROVE p[2] * B + bytes[p[1]] \in Nat
    <3>1. p[1] \in 1 .. W /\ p[2] \in Nat
      OBVIOUS
    <3>2. p[2] * B \in Nat
      BY <1>1, <3>1
    <3> QED BY <1>2, <3>1, <3>2
  <2> QED BY <2>1
<1>4. \A k \in 1 .. W, v \in Nat : G[<<k, v>>] = v * B + bytes[k]
  OBVIOUS
<1> HIDE DEF G
<1>5. PICK f \in [0 .. W -> Nat] : f[0] = 0 /\ \A k \in 1 .. W : f[k] = G[<<k, f[k - 1]>>]
  <2>1. 0 \in Nat /\ W \in Nat
    BY <1>1
  <2>2. Solutions(Nat, 0, W, G) # {}
    BY <1>3, <2>1, Recursion
  <2> QED BY <2>2 DEF Solutions
<1>6. ASSUME NEW k \in 1 .. W PROVE f[k] = f[k - 1] * B + bytes[k]
  <2>1. f[k - 1] \in Nat
    BY <1>1
  <2> QED BY <1>4, <1>5, <2>1
<1>7. f = [k \in 0 .. W |-> IF k = 0 THEN 0 ELSE f[k - 1] * B + bytes[k]]
  BY <1>1, <1>5, <1>6
<1>8. value = [k \in 0 .. W |-> IF k = 0 THEN 0 ELSE value[k - 1] * B + bytes[k]]
  BY <1>7
<1>9. Uint32(bytes) = value[W]
  BY DEF Uint32
<1> HIDE DEF value
<1>10. value[0] = 0 /\ \A k \in 1 .. W : value[k] = value[k - 1] * B + bytes[k]
  BY <1>1, <1>8
<1>11. \A k \in 0 .. W : value[k] = f[k]
  <2>1. Alike(value, f, W)
    BY <1>5, <1>6, <1>10 DEF Alike
  <2> QED BY <1>1, <2>1, OneSolution
<1>12. value[W] = f[W]
  BY <1>1, <1>11
<1> QED BY <1>5, <1>6, <1>9, <1>12

\* Bytes that are read as a number are what the number is written as.
LEMMA PutUint32Inverse ==
  ASSUME NEW bytes \in [1 .. WordBytes -> Byte]
  PROVE  PutUint32(Uint32(bytes)) = bytes
<1> DEFINE W == WordBytes
           B == ByteValues
           n == Uint32(bytes)
           shifted == CHOOSE g : g = [k \in 0 .. W |-> IF k = 0 THEN n ELSE g[k - 1] \div B]
<1>1. W \in Nat \ {0} /\ B \in Nat \ {0}
  BY ByteFacts
<1>2. PICK f \in [0 .. W -> Nat] :
        f[0] = 0 /\ n = f[W] /\ \A k \in 1 .. W : f[k] = f[k - 1] * B + bytes[k]
  BY Uint32Value
<1>3. ASSUME NEW k \in 1 .. W PROVE f[k] \div B = f[k - 1] /\ f[k] % B = bytes[k]
  <2>1. f[k - 1] \in Nat /\ bytes[k] \in 0 .. B - 1
    BY <1>1 DEF Byte
  <2>2. f[k] = f[k - 1] * B + bytes[k]
    BY <1>2
  <2> DEFINE v == f[k - 1]
             b == bytes[k]
  <2>3. v \in Nat /\ b \in 0 .. B - 1 /\ f[k] = v * B + b
    BY <2>1, <2>2
  <2> HIDE DEF v, b, B
  <2>4. (v * B + b) \div B = v
    BY <1>1, <2>3, ByteDigits
  <2>5. (v * B + b) % B = b
    BY <1>1, <2>3, ByteDigits
  <2> QED BY <2>3, <2>4, <2>5 DEF v, b, B
<1>4. PutUint32(n) = [k \in 1 .. W |-> shifted[W - k] % B]
  BY DEF PutUint32
<1> HIDE DEF n
<1> DEFINE s == [k \in 0 .. W |-> f[W - k]]
<1>5. s[0] = n /\ \A k \in 1 .. W : s[k] = s[k - 1] \div B
  <2>1. s[0] = n
    BY <1>1, <1>2
  <2>2. ASSUME NEW k \in 1 .. W PROVE s[k] = s[k - 1] \div B
    <3>1. s[k] = f[W - k] /\ s[k - 1] = f[W - k + 1] /\ W - k + 1 \in 1 .. W
      BY <1>1
    <3>2. f[W - k + 1] \div B = f[(W - k + 1) - 1] /\ (W - k + 1) - 1 = W - k
      BY <1>1, <1>3, <3>1
    <3> HIDE DEF s
    <3> QED BY <3>1, <3>2
  <2> QED BY <2>1, <2>2
<1>6. s = [k \in 0 .. W |-> IF k = 0 THEN n ELSE s[k - 1] \div B]
  <2>1. \A k \in 0 .. W : s[k] = IF k = 0 THEN n ELSE s[k - 1] \div B
    <3> HIDE DEF s
    <3> QED BY <1>1, <1>5
  <2> QED BY <2>1
<1>7. shifted = [k \in 0 .. W |-> IF k = 0 THEN n ELSE shifted[k - 1] \div B]
  BY <1>6
<1> HIDE DEF shifted
<1>8. \A k \in 0 .. W : shifted[k] = s[k]
  <2>1. shifted[0] = n /\ \A k \in 1 .. W : shifted[k] = shifted[k - 1] \div B
    BY <1>1, <1>7
  <2> HIDE DEF s
  <2>2. Alike(shifted, s, W)
    BY <1>5, <2>1 DEF Alike
  <2> QED BY <1>1, <2>2, OneSolution
<1>9. \A k \in 1 .. W : shifted[W - k] % B = bytes[k]
  <2>1. ASSUME NEW k \in 1 .. W PROVE shifted[W - k] % B = bytes[k]
    <3>1. W - k \in 0 .. W /\ W - (W - k) = k
      BY <1>1
    <3>2. shifted[W - k] = f[k]
      BY <1>8, <3>1
    <3> QED BY <1>3, <3>2
  <2> QED BY <2>1
<1>10. [k \in 1 .. W |-> shifted[W - k] % B] = bytes
  BY <1>9
<1> QED BY <1>4, <1>10 DEF n

\* And a number of the wire is read as what it was written as.
LEMMA Uint32Inverse ==
  ASSUME NEW n \in Uint32s
  PROVE  /\ n \in Nat
         /\ PutUint32(n) \in [1 .. WordBytes -> Byte]
         /\ PutUint32(n) \in Seq(Byte) /\ Len(PutUint32(n)) = WordBytes
         /\ Uint32(PutUint32(n)) = n
<1>1. PICK bytes \in [1 .. WordBytes -> Byte] : n = Uint32(bytes)
  BY DEF Uint32s
<1>2. PutUint32(n) = bytes
  BY <1>1, PutUint32Inverse
<1>3. n \in Nat
  <2>1. PICK f \in [0 .. WordBytes -> Nat] : Uint32(bytes) = f[WordBytes]
    BY Uint32Value
  <2> QED BY <1>1, <2>1, ByteFacts
<1>4. bytes \in Seq(Byte) /\ Len(bytes) = WordBytes
  BY ByteFacts
<1> QED BY <1>1, <1>2, <1>3, <1>4

\* Zero is written as a word, too, and is the only number that is.
LEMMA ZeroWritten == 0 \in Uint32s
BY WireAssumption

-----------------------------------------------------------------------------
(* Pieces of sequences.                                                    *)

\* A part of a sequence.
LEMMA Part ==
  ASSUME NEW S, NEW s \in Seq(S), NEW a \in Nat, NEW b \in Nat, a <= b, b <= Len(s)
  PROVE  /\ SubSeq(s, a + 1, b) \in Seq(S)
         /\ Len(SubSeq(s, a + 1, b)) = b - a
         /\ \A k \in 1 .. b - a : SubSeq(s, a + 1, b)[k] = s[a + k]
OBVIOUS

\* Two sequences with the same elements are the same.
Agree(s, t) == Len(s) = Len(t) /\ \A k \in 1 .. Len(s) : s[k] = t[k]

\* A sequence is determined by its length and its elements.
LEMMA SameSeq ==
  ASSUME NEW S, NEW s \in Seq(S), NEW t \in Seq(S), Agree(s, t)
  PROVE  s = t
BY DEF Agree

\* The elements of a sequence that continues another.
LEMMA Concat ==
  ASSUME NEW S, NEW s \in Seq(S), NEW t \in Seq(S)
  PROVE  /\ s \o t \in Seq(S) /\ Len(s \o t) = Len(s) + Len(t)
         /\ Len(s) \in Nat /\ Len(t) \in Nat
         /\ \A k \in 1 .. Len(s) : (s \o t)[k] = s[k]
         /\ \A k \in 1 .. Len(t) : (s \o t)[Len(s) + k] = t[k]
OBVIOUS

\* A sequence is its beginning and the rest.
LEMMA CutSeq ==
  ASSUME NEW S, NEW s \in Seq(S), NEW n \in 0 .. Len(s)
  PROVE  SubSeq(s, 1, n) \o From(s, n) = s
<1> DEFINE t == SubSeq(s, 1, n)
           u == From(s, n)
<1>1. Len(s) \in Nat /\ n \in Nat /\ n <= Len(s)
  OBVIOUS
<1>2. t \in Seq(S) /\ Len(t) = n /\ \A k \in 1 .. n : t[k] = s[k]
  BY <1>1
<1>3. u \in Seq(S) /\ Len(u) = Len(s) - n /\ \A k \in 1 .. Len(s) - n : u[k] = s[n + k]
  BY <1>1 DEF From
<1> HIDE DEF t, u
<1>4. Len(t \o u) = Len(s) /\ t \o u \in Seq(S)
  BY <1>1, <1>2, <1>3
<1>5. ASSUME NEW k \in 1 .. Len(s) PROVE (t \o u)[k] = s[k]
  <2>1. CASE k <= n
    BY <1>1, <1>2, <1>3, <2>1
  <2>2. CASE k > n
    <3>1. k - n \in 1 .. Len(u) /\ n + (k - n) = k
      BY <1>1, <1>3, <2>2
    <3>2. (t \o u)[k] = u[k - n]
      BY <1>1, <1>2, <1>3, <2>2
    <3> QED BY <1>3, <3>1, <3>2
  <2>3. k <= n \/ k > n
    BY <1>1
  <2> QED BY <2>1, <2>2, <2>3
<1>6. Agree(t \o u, s)
  BY <1>4, <1>5 DEF Agree
<1>7. t \o u = s
  BY <1>4, <1>6, SameSeq
<1> QED BY <1>7 DEF t, u

\* Elements a + 1 to b.
Seg(s, a, b) == SubSeq(s, a + 1, b)

\* Two parts that meet are one.
LEMMA Join ==
  ASSUME NEW S, NEW s \in Seq(S), NEW a \in Nat, NEW b \in Nat, NEW c \in Nat,
         a <= b, b <= c, c <= Len(s)
  PROVE  Seg(s, a, b) \o Seg(s, b, c) = Seg(s, a, c)
<1> DEFINE t == Seg(s, a, b)
           u == Seg(s, b, c)
           v == Seg(s, a, c)
<1>0. Len(s) \in Nat
  OBVIOUS
<1>1. t \in Seq(S) /\ Len(t) = b - a /\ \A k \in 1 .. b - a : t[k] = s[a + k]
  BY <1>0, Part DEF Seg
<1>2. u \in Seq(S) /\ Len(u) = c - b /\ \A k \in 1 .. c - b : u[k] = s[b + k]
  BY Part DEF Seg
<1>3. v \in Seq(S) /\ Len(v) = c - a /\ \A k \in 1 .. c - a : v[k] = s[a + k]
  BY Part DEF Seg
<1> HIDE DEF t, u, v
<1>4. Len(t \o u) = c - a /\ t \o u \in Seq(S)
  <2>1. Len(t \o u) = Len(t) + Len(u) /\ t \o u \in Seq(S)
    BY <1>1, <1>2, Concat
  <2> QED BY <1>1, <1>2, <2>1
<1>5. ASSUME NEW k \in 1 .. c - a PROVE (t \o u)[k] = v[k]
  <2>1. CASE k <= b - a
    BY <1>1, <1>2, <1>3, <2>1
  <2>2. CASE k > b - a
    <3>1. k - (b - a) \in 1 .. c - b /\ b + (k - (b - a)) = a + k
      BY <2>2
    <3>2. (t \o u)[k] = u[k - (b - a)]
      BY <1>1, <1>2, <2>2
    <3> QED BY <1>2, <1>3, <3>1, <3>2
  <2>3. k <= b - a \/ k > b - a
    OBVIOUS
  <2> QED BY <2>1, <2>2, <2>3
<1>6. Agree(t \o u, v)
  BY <1>3, <1>4, <1>5 DEF Agree
<1>7. t \o u = v
  BY <1>3, <1>4, <1>6, SameSeq
<1> QED BY <1>7 DEF t, u, v

\* The whole of a sequence.
LEMMA Whole ==
  ASSUME NEW S, NEW s \in Seq(S)
  PROVE  Seg(s, 0, Len(s)) = s
<1>1. Seg(s, 0, Len(s)) \in Seq(S) /\ Agree(Seg(s, 0, Len(s)), s)
  BY Part DEF Seg, Agree
<1> QED BY <1>1, SameSeq

\* A word of some bytes is written as these bytes.
LEMMA WordAt ==
  ASSUME NEW s \in Seq(Byte), NEW a \in Nat, NEW b \in Nat, b = a + WordBytes, b <= Len(s)
  PROVE  /\ Uint32(Seg(s, a, b)) \in Uint32s
         /\ PutUint32(Uint32(Seg(s, a, b))) = Seg(s, a, b)
<1>1. Seg(s, a, b) \in Seq(Byte) /\ Len(Seg(s, a, b)) = WordBytes
  BY Part, ByteFacts DEF Seg
<1>2. Seg(s, a, b) \in [1 .. WordBytes -> Byte]
  BY <1>1
<1> QED BY <1>2, PutUint32Inverse DEF Uint32s

\* The first, second and third word of a payload.
LEMMA WordsOf ==
  ASSUME NEW s \in Seq(Byte)
  PROVE  /\ Word32(s, 0) = Uint32(Seg(s, 0, WordBytes))
         /\ Word32(s, 1) = Uint32(Seg(s, WordBytes, 2 * WordBytes))
         /\ Word32(s, 2) = Uint32(Seg(s, 2 * WordBytes, 3 * WordBytes))
BY ByteFacts DEF Word32, Seg

\* The first element and the rest.
LEMMA HeadAndTail ==
  ASSUME NEW S, NEW s \in Seq(S), Len(s) > 0
  PROVE  /\ s[1] \in S /\ Tail(s) \in Seq(S) /\ Len(Tail(s)) = Len(s) - 1
         /\ <<s[1]>> \o Tail(s) = s
<1>1. s[1] \in S /\ Tail(s) \in Seq(S) /\ Len(Tail(s)) = Len(s) - 1 /\ Len(s) \in Nat
        /\ \A k \in 1 .. Len(s) - 1 : Tail(s)[k] = s[k + 1]
  OBVIOUS
<1> DEFINE t == Tail(s)
           h == <<s[1]>>
<1>2. h \in Seq(S) /\ Len(h) = 1 /\ h[1] = s[1]
  BY <1>1
<1>3. t \in Seq(S) /\ Len(t) = Len(s) - 1 /\ \A k \in 1 .. Len(s) - 1 : t[k] = s[k + 1]
  BY <1>1
<1> HIDE DEF t, h
<1>c. /\ h \o t \in Seq(S) /\ Len(h \o t) = Len(h) + Len(t)
      /\ \A k \in 1 .. Len(h) : (h \o t)[k] = h[k]
      /\ \A k \in 1 .. Len(t) : (h \o t)[Len(h) + k] = t[k]
  <2>1. h \in Seq(S) /\ t \in Seq(S)
    BY <1>2, <1>3
  <2>2. h \o t \in Seq(S) /\ Len(h \o t) = Len(h) + Len(t)
    BY <2>1, Concat
  <2>3. \A k \in 1 .. Len(h) : (h \o t)[k] = h[k]
    BY <2>1, Concat
  <2>4. \A k \in 1 .. Len(t) : (h \o t)[Len(h) + k] = t[k]
    BY <2>1, Concat
  <2> QED BY <2>2, <2>3, <2>4
<1>4. h \o t \in Seq(S) /\ Len(h \o t) = Len(s)
  BY <1>1, <1>2, <1>3, <1>c
<1>5. ASSUME NEW k \in 1 .. Len(s) PROVE (h \o t)[k] = s[k]
  <2>1. CASE k = 1
    BY <1>2, <1>3, <1>c, <2>1
  <2>2. CASE k # 1
    <3>1. k - 1 \in 1 .. Len(s) - 1 /\ (k - 1) + 1 = k
      BY <1>1, <2>2
    <3>2. (h \o t)[1 + (k - 1)] = t[k - 1] /\ 1 + (k - 1) = k
      BY <1>2, <1>3, <1>c, <3>1
    <3> QED BY <1>3, <3>1, <3>2
  <2> QED BY <2>1, <2>2
<1>6. Agree(h \o t, s)
  BY <1>4, <1>5 DEF Agree
<1>7. h \o t = s
  BY <1>4, <1>6, SameSeq
<1> QED BY <1>1, <1>7 DEF h, t

-----------------------------------------------------------------------------
(* Messages.                                                               *)

Fixed == { "Choke", "Unchoke", "Interested", "NotInterested" }

\* Every type of message has an id of its own, which fits into a byte.
LEMMA MessageIDs ==
  /\ DOMAIN MessageID = Fixed \cup { "Have", "Bitfield", "Request", "Piece", "CancelRequest" }
  /\ \A s \in DOMAIN MessageID : MessageID[s] \in Byte
  /\ \A s, t \in DOMAIN MessageID : MessageID[s] = MessageID[t] => s = t
<1>1. DOMAIN MessageID = Fixed \cup { "Have", "Bitfield", "Request", "Piece", "CancelRequest" }
  BY DEF MessageID, Fixed
<1>2. \A s \in DOMAIN MessageID : MessageID[s] \in 0 .. 8
  BY DEF MessageID
<1>3. 0 .. 8 \subseteq Byte
  BY ByteFacts DEF Byte
<1>4. \A s, t \in DOMAIN MessageID : MessageID[s] = MessageID[t] => s = t
  BY DEF MessageID
<1> QED BY <1>1, <1>2, <1>3, <1>4

\* The payloads of fixed length, and how long they are.
LEMMA PayloadLengths ==
  /\ DOMAIN fixedPayloadLengths = Fixed \cup { "Have", "Request", "CancelRequest" }
  /\ \A s \in Fixed : fixedPayloadLengths[s] = 0
  /\ fixedPayloadLengths["Have"] = WordBytes
  /\ \A s \in { "Request", "CancelRequest" } : fixedPayloadLengths[s] = 3 * WordBytes
BY DEF fixedPayloadLengths, Fixed

\* The type of a body that is accepted, and its payload.
LEMMA TypeOfBody ==
  ASSUME NEW body \in Seq(Byte), Len(body) > 0, decodeBody(body) # Invalid
  PROVE  \E type \in DOMAIN MessageID :
           /\ MessageID[type] = body[1]
           /\ type \in DOMAIN fixedPayloadLengths => Len(Tail(body)) = fixedPayloadLengths[type]
           /\ decodeBody(body) =
                CASE type = "Have"     -> [type |-> type, PieceIndex |-> Uint32(Tail(body))]
                  [] type \in { "Request", "CancelRequest" } ->
                       [type |-> type, Block |-> decodeBlockRequest(Tail(body))]
                  [] type = "Bitfield" -> [type |-> type, Bits |-> Tail(body)]
                  [] type = "Piece"    -> decodePiece(Tail(body))
                  [] OTHER             -> [type |-> type]
<1> DEFINE known == { type \in DOMAIN MessageID : MessageID[type] = body[1] }
           type  == CHOOSE t \in known : TRUE
<1>1. known # {}
  BY DEF decodeBody
<1>2. type \in known
  BY <1>1
<1>3. type \in DOMAIN fixedPayloadLengths => Len(Tail(body)) = fixedPayloadLengths[type]
  BY DEF decodeBody
<1>4. decodeBody(body) =
        CASE type = "Have"     -> [type |-> type, PieceIndex |-> Uint32(Tail(body))]
          [] type \in { "Request", "CancelRequest" } ->
               [type |-> type, Block |-> decodeBlockRequest(Tail(body))]
          [] type = "Bitfield" -> [type |-> type, Bits |-> Tail(body)]
          [] type = "Piece"    -> decodePiece(Tail(body))
          [] OTHER             -> [type |-> type]
  BY <1>1, <1>3, Zenon DEF decodeBody
<1>5. type \in DOMAIN MessageID /\ MessageID[type] = body[1]
  BY <1>2
<1> HIDE DEF type
<1> QED BY <1>3, <1>4, <1>5

\* A body that is accepted is a message, which is encoded as this body.
LEMMA Decoded ==
  ASSUME NEW body \in Seq(Byte), Len(body) > 0, decodeBody(body) # Invalid
  PROVE  decodeBody(body) \in Bodied /\ encodeMessage(decodeBody(body)) = body
<1> DEFINE p == Tail(body)
           m == decodeBody(body)
           W == WordBytes
<1>1. body[1] \in Byte /\ p \in Seq(Byte) /\ <<body[1]>> \o p = body
  BY HeadAndTail
<1>2. PICK type \in DOMAIN MessageID :
           /\ MessageID[type] = body[1]
           /\ type \in DOMAIN fixedPayloadLengths => Len(p) = fixedPayloadLengths[type]
           /\ m =
                CASE type = "Have"     -> [type |-> type, PieceIndex |-> Uint32(p)]
                  [] type \in { "Request", "CancelRequest" } ->
                       [type |-> type, Block |-> decodeBlockRequest(p)]
                  [] type = "Bitfield" -> [type |-> type, Bits |-> p]
                  [] type = "Piece"    -> decodePiece(p)
                  [] OTHER             -> [type |-> type]
  BY TypeOfBody
<1>3. m # Invalid /\ W \in Nat \ {0}
  BY ByteFacts
<1> HIDE DEF p, m
<1>4. CASE type \in Fixed
  <2>1. m = [type |-> type]
    BY <1>2, <1>4 DEF Fixed
  <2>2. Len(p) = 0
    BY <1>2, <1>4, PayloadLengths
  <2>3. p = <<>>
    <3>1. Agree(p, <<>>) /\ <<>> \in Seq(Byte)
      BY <2>2 DEF Agree
    <3> QED BY <1>1, <3>1, SameSeq
  <2>4. encodeMessage(m) = <<body[1]>> \o <<>>
    <3>1. m.type = type
      BY <2>1
    <3>2. type \notin { "Have", "Request", "CancelRequest", "Bitfield", "Piece" }
      BY <1>4 DEF Fixed
    <3>3. encodeMessage(m) = <<MessageID[type]>> \o <<>>
      BY <3>1, <3>2 DEF encodeMessage
    <3> QED BY <1>2, <3>3
  <2>5. m \in Bodied
    BY <1>4, <2>1 DEF Bodied, Fixed
  <2> QED BY <1>1, <2>3, <2>4, <2>5 DEF m
<1>5. CASE type = "Have"
  <2>1. m = [type |-> "Have", PieceIndex |-> Uint32(p)]
    BY <1>2, <1>5
  <2>2. Len(p) = W
    BY <1>2, <1>5, PayloadLengths
  <2>3. Seg(p, 0, W) = p
    BY <1>1, <2>2, Whole
  <2>4. Uint32(p) \in Uint32s /\ PutUint32(Uint32(p)) = p
    BY <1>1, <1>3, <2>2, <2>3, WordAt
  <2>5. encodeMessage(m) = <<body[1]>> \o PutUint32(Uint32(p))
    BY <1>2, <1>5, <2>1 DEF encodeMessage
  <2>6. m \in Bodied
    BY <2>1, <2>4 DEF Bodied
  <2> QED BY <1>1, <2>4, <2>5, <2>6 DEF m
<1>6. CASE type \in { "Request", "CancelRequest" }
  <2>1. m = [type |-> type, Block |-> decodeBlockRequest(p)]
    BY <1>2, <1>6
  <2>2. Len(p) = 3 * W
    BY <1>2, <1>6, PayloadLengths
  <2> DEFINE a == Seg(p, 0, W)
             b == Seg(p, W, 2 * W)
             c == Seg(p, 2 * W, 3 * W)
  <2>3. decodeBlockRequest(p) = [PieceIndex |-> Uint32(a), Begin |-> Uint32(b), Length |-> Uint32(c)]
    BY <1>1, WordsOf DEF decodeBlockRequest
  <2>4. /\ Uint32(a) \in Uint32s /\ PutUint32(Uint32(a)) = a
        /\ Uint32(b) \in Uint32s /\ PutUint32(Uint32(b)) = b
        /\ Uint32(c) \in Uint32s /\ PutUint32(Uint32(c)) = c
    BY <1>1, <1>3, <2>2, WordAt
  <2>5. (a \o b) \o c = p
    <3>0. /\ 0 \in Nat /\ W \in Nat /\ 2 * W \in Nat /\ 3 * W \in Nat /\ 0 <= W /\ W <= 2 * W
          /\ 0 <= 2 * W /\ 2 * W <= 3 * W /\ 2 * W <= Len(p) /\ 3 * W <= Len(p)
      BY <1>3, <2>2
    <3>1. a \o b = Seg(p, 0, 2 * W)
      BY <1>1, <3>0, Join
    <3>2. Seg(p, 0, 2 * W) \o c = Seg(p, 0, 3 * W)
      BY <1>1, <3>0, Join
    <3>3. Seg(p, 0, 3 * W) = p
      BY <1>1, <2>2, Whole
    <3> QED BY <3>1, <3>2, <3>3
  <2> HIDE DEF a, b, c
  <2>6. decodeBlockRequest(p) \in Block
    BY <2>3, <2>4 DEF Block
  <2>7. m \in Bodied
    BY <1>6, <2>1, <2>6 DEF Bodied
  <2>8. encodeBlockRequest(decodeBlockRequest(p)) = p
    BY <2>3, <2>4, <2>5 DEF encodeBlockRequest
  <2>9. encodeMessage(m) = <<body[1]>> \o encodeBlockRequest(decodeBlockRequest(p))
    <3>1. m.type = type /\ m.Block = decodeBlockRequest(p)
      BY <2>1
    <3>2. encodeMessage(m) = <<MessageID[type]>> \o encodeBlockRequest(m.Block)
      BY <1>6, <3>1 DEF encodeMessage
    <3> QED BY <1>2, <3>1, <3>2
  <2> QED BY <1>1, <2>7, <2>8, <2>9 DEF m
<1>7. CASE type = "Bitfield"
  <2>1. m = [type |-> "Bitfield", Bits |-> p]
    BY <1>2, <1>7
  <2>2. m \in Bodied
    BY <1>1, <2>1 DEF Bodied
  <2>3. encodeMessage(m) = <<body[1]>> \o p
    BY <1>2, <1>7, <2>1 DEF encodeMessage
  <2> QED BY <1>1, <2>2, <2>3 DEF m
<1>8. CASE type = "Piece"
  <2>1. m = decodePiece(p)
    BY <1>2, <1>8
  <2>2. Len(p) >= 2 * W /\ Len(p) \in Nat
    BY <1>1, <1>3, <2>1 DEF decodePiece
  <2> DEFINE a == Seg(p, 0, W)
             b == Seg(p, W, 2 * W)
             c == Seg(p, 2 * W, Len(p))
  <2>3. m = [type |-> "Piece", PieceIndex |-> Uint32(a), Begin |-> Uint32(b), Data |-> c]
    BY <1>1, <1>3, <2>1, <2>2, WordsOf DEF decodePiece, From, Seg
  <2>4. /\ Uint32(a) \in Uint32s /\ PutUint32(Uint32(a)) = a
        /\ Uint32(b) \in Uint32s /\ PutUint32(Uint32(b)) = b
    BY <1>1, <1>3, <2>2, WordAt
  <2>5. c \in Seq(Byte)
    BY <1>1, <1>3, <2>2, Part DEF Seg
  <2>6. (a \o b) \o c = p
    <3>0. /\ 0 \in Nat /\ W \in Nat /\ 2 * W \in Nat /\ 0 <= W /\ W <= 2 * W /\ 0 <= 2 * W
          /\ 2 * W <= Len(p) /\ Len(p) \in Nat /\ Len(p) <= Len(p)
      BY <1>3, <2>2
    <3>1. a \o b = Seg(p, 0, 2 * W)
      BY <1>1, <3>0, Join
    <3>2. Seg(p, 0, 2 * W) \o c = Seg(p, 0, Len(p))
      BY <1>1, <3>0, Join
    <3>3. Seg(p, 0, Len(p)) = p
      BY <1>1, Whole
    <3> QED BY <3>1, <3>2, <3>3
  <2> HIDE DEF a, b, c
  <2>7. m \in Bodied
    BY <2>3, <2>4, <2>5 DEF Bodied
  <2>8. encodeMessage(m) = <<body[1]>> \o (PutUint32(Uint32(a)) \o PutUint32(Uint32(b)) \o c)
    BY <1>2, <1>8, <2>3 DEF encodeMessage
  <2> QED BY <1>1, <2>4, <2>6, <2>7, <2>8 DEF m
<1> QED BY <1>4, <1>5, <1>6, <1>7, <1>8, MessageIDs

\* Joining sequences is associative.
LEMMA Associative ==
  ASSUME NEW S, NEW s \in Seq(S), NEW t \in Seq(S), NEW u \in Seq(S)
  PROVE  (s \o t) \o u = s \o (t \o u)
<1> DEFINE st == s \o t
           tu == t \o u
           x == st \o u
           y == s \o tu
<1>1. /\ st \in Seq(S) /\ Len(st) = Len(s) + Len(t) /\ Len(s) \in Nat /\ Len(t) \in Nat
      /\ \A k \in 1 .. Len(s) : st[k] = s[k]
      /\ \A k \in 1 .. Len(t) : st[Len(s) + k] = t[k]
  BY Concat
<1>2. /\ tu \in Seq(S) /\ Len(tu) = Len(t) + Len(u) /\ Len(u) \in Nat
      /\ \A k \in 1 .. Len(t) : tu[k] = t[k]
      /\ \A k \in 1 .. Len(u) : tu[Len(t) + k] = u[k]
  BY Concat
<1> HIDE DEF st, tu
<1>3. /\ x \in Seq(S) /\ Len(x) = Len(st) + Len(u)
      /\ \A k \in 1 .. Len(st) : x[k] = st[k]
      /\ \A k \in 1 .. Len(u) : x[Len(st) + k] = u[k]
  <2>1. x \in Seq(S) /\ Len(x) = Len(st) + Len(u)
    BY <1>1, Concat
  <2>2. \A k \in 1 .. Len(st) : x[k] = st[k]
    BY <1>1, Concat
  <2>3. \A k \in 1 .. Len(u) : x[Len(st) + k] = u[k]
    BY <1>1, Concat
  <2> QED BY <2>1, <2>2, <2>3
<1>4. /\ y \in Seq(S) /\ Len(y) = Len(s) + Len(tu)
      /\ \A k \in 1 .. Len(s) : y[k] = s[k]
      /\ \A k \in 1 .. Len(tu) : y[Len(s) + k] = tu[k]
  <2>1. y \in Seq(S) /\ Len(y) = Len(s) + Len(tu)
    BY <1>2, Concat
  <2>2. \A k \in 1 .. Len(s) : y[k] = s[k]
    BY <1>2, Concat
  <2>3. \A k \in 1 .. Len(tu) : y[Len(s) + k] = tu[k]
    BY <1>2, Concat
  <2> QED BY <2>1, <2>2, <2>3
<1> HIDE DEF x, y
<1>5. Len(x) = Len(y) /\ Len(x) = Len(s) + Len(t) + Len(u)
  BY <1>1, <1>2, <1>3, <1>4
<1>6. ASSUME NEW k \in 1 .. Len(x) PROVE x[k] = y[k]
  <2>1. CASE k <= Len(s)
    BY <1>1, <1>2, <1>3, <1>4, <2>1
  <2>2. CASE k > Len(s) /\ k <= Len(s) + Len(t)
    <3> DEFINE j == k - Len(s)
    <3>1. j \in 1 .. Len(t) /\ Len(s) + j = k /\ j \in 1 .. Len(tu) /\ k \in 1 .. Len(st)
      BY <1>1, <1>2, <2>2
    <3> HIDE DEF j
    <3>2. x[k] = t[j]
      BY <1>1, <1>3, <3>1
    <3>3. y[k] = t[j]
      BY <1>2, <1>4, <3>1
    <3> QED BY <3>2, <3>3
  <2>3. CASE k > Len(s) + Len(t)
    <3> DEFINE j == k - (Len(s) + Len(t))
    <3>1. /\ j \in 1 .. Len(u) /\ Len(st) + j = k /\ Len(t) + j \in 1 .. Len(tu)
          /\ Len(s) + (Len(t) + j) = k
      BY <1>1, <1>2, <1>5, <2>3
    <3> HIDE DEF j
    <3>2. x[k] = u[j]
      BY <1>3, <3>1
    <3>3. y[k] = u[j]
      BY <1>2, <1>4, <3>1
    <3> QED BY <3>2, <3>3
  <2> QED BY <1>1, <1>5, <2>1, <2>2, <2>3
<1>7. Agree(x, y)
  BY <1>5, <1>6 DEF Agree
<1>8. x = y
  BY <1>3, <1>4, <1>7, SameSeq
<1> QED BY <1>8 DEF x, y, st, tu

\* What is left after n bytes.
LEMMA FromFacts ==
  ASSUME NEW S, NEW s \in Seq(S), NEW n \in 0 .. Len(s)
  PROVE  /\ From(s, n) \in Seq(S) /\ Len(From(s, n)) = Len(s) - n
         /\ \A k \in 1 .. Len(s) - n : From(s, n)[k] = s[n + k]
         /\ Seg(s, 0, n) \o From(s, n) = s
<1>1. n \in Nat /\ Len(s) \in Nat /\ n <= Len(s) /\ Len(s) <= Len(s)
  OBVIOUS
<1>2. Seg(s, 0, n) = SubSeq(s, 1, n)
  BY DEF Seg
<1>3. From(s, n) \in Seq(S) /\ Len(From(s, n)) = Len(s) - n
  BY <1>1, Part DEF From
<1>4. \A k \in 1 .. Len(s) - n : From(s, n)[k] = s[n + k]
  BY <1>1, Part DEF From
<1>5. SubSeq(s, 1, n) \o From(s, n) = s
  BY CutSeq
<1> QED BY <1>2, <1>3, <1>4, <1>5

(***************************************************************************)
(* A frame that is accepted is a message that can be written, followed by  *)
(* what is left.                                                           *)
(***************************************************************************)
LEMMA Accepted ==
  ASSUME NEW bytes \in Seq(Byte), ReadMessage(bytes).message # Invalid
  PROVE  /\ ReadMessage(bytes).message \in Writable
         /\ ReadMessage(bytes).rest \in Seq(Byte)
         /\ WriteMessage(ReadMessage(bytes).message) \o ReadMessage(bytes).rest = bytes
<1> DEFINE W == WordBytes
           length == Word32(bytes, 0)
           rest == From(bytes, W)
           next == ReadMessage(bytes)
<1>1. W \in Nat \ {0} /\ Len(bytes) \in Nat
  BY ByteFacts
<1>2. Len(bytes) >= W
  <2>1. ~ Len(bytes) < W
    BY DEF ReadMessage
  <2> QED BY <1>1, <2>1
<1>3. length \in Uint32s /\ PutUint32(length) = Seg(bytes, 0, W)
  <2>1. 0 \in Nat /\ W \in Nat /\ W = 0 + W /\ W <= Len(bytes)
    BY <1>1, <1>2
  <2>2. length = Uint32(Seg(bytes, 0, W))
    BY WordsOf
  <2> QED BY <2>1, <2>2, WordAt
<1>4. length \in Nat
  BY <1>3, Uint32Inverse
<1>5. W \in 0 .. Len(bytes)
  BY <1>1, <1>2
<1>6. rest \in Seq(Byte) /\ Len(rest) \in Nat /\ Seg(bytes, 0, W) \o rest = bytes
  <2>1. rest \in Seq(Byte)
    BY <1>5, FromFacts
  <2>2. Seg(bytes, 0, W) \o rest = bytes
    BY <1>5, FromFacts
  <2> HIDE DEF rest
  <2> QED BY <2>1, <2>2
<1>7. CASE length = 0
  <2>1. next = [message |-> KeepAlive, rest |-> rest]
    BY <1>1, <1>2, <1>7 DEF ReadMessage
  <2>2. WriteMessage(KeepAlive) = PutUint32(0) /\ KeepAlive \in Writable
    BY DEF WriteMessage, Writable
  <2> HIDE DEF rest, next
  <2>3. PutUint32(0) = Seg(bytes, 0, W)
    BY <1>3, <1>7
  <2>4. next.message = KeepAlive /\ next.rest = rest
    BY <2>1
  <2>5. WriteMessage(next.message) \o next.rest = bytes
    BY <1>6, <2>2, <2>3, <2>4
  <2> QED BY <1>6, <2>2, <2>4, <2>5 DEF next
<1>8. CASE length # 0
  <2> DEFINE body == SubSeq(rest, 1, length)
  <2>1. /\ length <= maxPeerMessageSize /\ Len(rest) >= length
        /\ next = [message |-> decodeBody(body), rest |-> From(rest, length)]
    <3>1. maxPeerMessageSize \in Nat
      BY WireAssumption
    <3> QED BY <1>1, <1>2, <1>4, <1>6, <1>8, <3>1 DEF ReadMessage
  <2>2. length \in 0 .. Len(rest)
    BY <1>4, <1>6, <2>1
  <2> HIDE DEF length, rest, next
  <2>3. body = Seg(rest, 0, length)
    BY DEF Seg
  <2>4. /\ body \o From(rest, length) = rest /\ From(rest, length) \in Seq(Byte)
        /\ body \in Seq(Byte) /\ Len(body) = length
    <3>1. body \o From(rest, length) = rest
      BY <1>6, <2>2, <2>3, FromFacts
    <3>2. From(rest, length) \in Seq(Byte)
      BY <1>6, <2>2, FromFacts
    <3>3. 0 \in Nat /\ 0 <= length /\ length <= Len(rest) /\ length - 0 = length
      BY <1>4, <1>6, <2>1
    <3>4. Seg(rest, 0, length) \in Seq(Byte) /\ Len(Seg(rest, 0, length)) = length - 0
      BY <1>4, <1>6, <3>3, Part DEF Seg
    <3> HIDE DEF body
    <3> QED BY <2>3, <3>1, <3>2, <3>3, <3>4
  <2>5. decodeBody(body) # Invalid /\ Len(body) > 0
    BY <1>4, <1>8, <2>1, <2>4 DEF next
  <2> DEFINE m == decodeBody(body)
  <2>6. m \in Bodied /\ encodeMessage(m) = body
    BY <2>4, <2>5, Decoded
  <2> HIDE DEF body, m
  <2>7. m # KeepAlive
    BY <2>6 DEF Bodied, KeepAlive
  <2>8. WriteMessage(m) = PutUint32(length) \o body
    BY <2>4, <2>6, <2>7 DEF WriteMessage
  <2>9. WriteMessage(m) \o From(rest, length) = PutUint32(length) \o rest
    <3>1. PutUint32(length) \in Seq(Byte) /\ From(rest, length) \in Seq(Byte) /\ body \in Seq(Byte)
      BY <1>3, <2>4, Uint32Inverse
    <3>2. (PutUint32(length) \o body) \o From(rest, length)
            = PutUint32(length) \o (body \o From(rest, length))
      BY <3>1, Associative, SMTT(30)
    <3> QED BY <2>4, <2>8, <3>2
  <2>10. m \in Writable
    BY <2>1, <2>4, <2>6 DEF Writable
  <2>11. next.message = m /\ next.rest = From(rest, length)
    BY <2>1 DEF m
  <2>12. WriteMessage(next.message) \o next.rest = bytes
    BY <1>3, <1>6, <2>9, <2>11
  <2> QED BY <2>4, <2>10, <2>11, <2>12 DEF next
<1> QED BY <1>7, <1>8

(***************************************************************************)
(* ReadMessage takes no sequence of bytes for a message that would be      *)
(* written differently, whatever the length prefix, the id and the payload *)
(* say: for every sequence of bytes, every size of a byte and of a word    *)
(* and every limit of the message size.                                    *)
(***************************************************************************)
THEOREM FramesAlwaysCanonical == \A bytes \in Seq(Byte) : Canonical(bytes)
BY Accepted DEF Canonical

-----------------------------------------------------------------------------
(* What is written is read.                                                *)

\* A sequence of no length is empty.
LEMMA NoLength ==
  ASSUME NEW S, NEW s \in Seq(S), Len(s) = 0
  PROVE  s = <<>>
<1>1. Agree(s, <<>>) /\ <<>> \in Seq(S)
  BY DEF Agree
<1> QED BY <1>1, SameSeq

\* A part of a part.
LEMMA PartOfPart ==
  ASSUME NEW S, NEW s \in Seq(S), NEW a \in Nat, NEW b \in Nat, NEW c \in Nat, NEW d \in Nat,
         a <= b, b <= Len(s), c <= d, d <= b - a
  PROVE  Seg(Seg(s, a, b), c, d) = Seg(s, a + c, a + d)
<1> DEFINE t == Seg(s, a, b)
           u == Seg(t, c, d)
           v == Seg(s, a + c, a + d)
<1>0. Len(s) \in Nat /\ a + c \in Nat /\ a + d \in Nat /\ a + c <= a + d /\ a + d <= Len(s)
  OBVIOUS
<1>1. t \in Seq(S) /\ Len(t) = b - a /\ \A k \in 1 .. b - a : t[k] = s[a + k]
  BY Part DEF Seg
<1>2. v \in Seq(S) /\ Len(v) = d - c /\ \A k \in 1 .. d - c : v[k] = s[(a + c) + k]
  <2>1. v \in Seq(S) /\ Len(v) = (a + d) - (a + c)
    BY <1>0, Part DEF Seg
  <2>2. \A k \in 1 .. (a + d) - (a + c) : v[k] = s[(a + c) + k]
    BY <1>0, Part DEF Seg
  <2> HIDE DEF v
  <2> QED BY <2>1, <2>2
<1> HIDE DEF t
<1>3. u \in Seq(S) /\ Len(u) = d - c /\ \A k \in 1 .. d - c : u[k] = t[c + k]
  <2>1. d <= Len(t)
    BY <1>1
  <2>2. u \in Seq(S) /\ Len(u) = d - c
    BY <1>1, <2>1, Part DEF Seg
  <2>3. \A k \in 1 .. d - c : u[k] = t[c + k]
    BY <1>1, <2>1, Part DEF Seg
  <2> QED BY <2>2, <2>3
<1> HIDE DEF u, v
<1>4. ASSUME NEW k \in 1 .. d - c PROVE u[k] = v[k]
  <2>1. c + k \in 1 .. b - a /\ a + (c + k) = (a + c) + k
    OBVIOUS
  <2>2. t[c + k] = s[a + (c + k)]
    BY <1>1, <2>1
  <2> QED BY <1>2, <1>3, <2>1, <2>2
<1>5. Agree(u, v)
  BY <1>2, <1>3, <1>4 DEF Agree
<1>6. u = v
  BY <1>2, <1>3, <1>5, SameSeq
<1> QED BY <1>6 DEF u, v, t

\* The two parts of a joined sequence.
LEMMA Parts ==
  ASSUME NEW S, NEW s \in Seq(S), NEW t \in Seq(S)
  PROVE  /\ Seg(s \o t, 0, Len(s)) = s
         /\ From(s \o t, Len(s)) = t
<1> DEFINE x == s \o t
<1>1. x \in Seq(S) /\ Len(x) = Len(s) + Len(t) /\ Len(s) \in Nat /\ Len(t) \in Nat
  BY Concat
<1>2. \A k \in 1 .. Len(s) : x[k] = s[k]
  BY Concat
<1>3. \A k \in 1 .. Len(t) : x[Len(s) + k] = t[k]
  BY Concat
<1> HIDE DEF x
<1>4. 0 \in Nat /\ 0 <= Len(s) /\ Len(s) <= Len(x) /\ Len(s) \in 0 .. Len(x)
  BY <1>1
<1>5. Seg(x, 0, Len(s)) = s
  <2> DEFINE u == Seg(x, 0, Len(s))
  <2>1. u \in Seq(S) /\ Len(u) = Len(s) - 0
    BY <1>1, <1>4, Part DEF Seg
  <2>2. \A k \in 1 .. Len(s) - 0 : u[k] = x[0 + k]
    BY <1>1, <1>4, Part DEF Seg
  <2> HIDE DEF u
  <2>3. Agree(u, s)
    BY <1>1, <1>2, <2>1, <2>2 DEF Agree
  <2>4. u = s
    BY <2>1, <2>3, SameSeq
  <2> QED BY <2>4 DEF u
<1>6. From(x, Len(s)) = t
  <2> DEFINE u == From(x, Len(s))
  <2>1. u \in Seq(S) /\ Len(u) = Len(x) - Len(s)
    BY <1>1, <1>4, FromFacts
  <2>2. \A k \in 1 .. Len(x) - Len(s) : u[k] = x[Len(s) + k]
    BY <1>1, <1>4, FromFacts
  <2> HIDE DEF u
  <2>3. Agree(u, t)
    BY <1>1, <1>3, <2>1, <2>2 DEF Agree
  <2>4. u = t
    BY <2>1, <2>3, SameSeq
  <2> QED BY <2>4 DEF u
<1> QED BY <1>5, <1>6 DEF x

\* An id and a payload of a length it allows are taken for what they are.
LEMMA BodyOfType ==
  ASSUME NEW type \in DOMAIN MessageID, NEW p \in Seq(Byte),
         type \in DOMAIN fixedPayloadLengths => Len(p) = fixedPayloadLengths[type]
  PROVE  /\ <<MessageID[type]>> \o p \in Seq(Byte)
         /\ Len(<<MessageID[type]>> \o p) = 1 + Len(p)
         /\ decodeBody(<<MessageID[type]>> \o p) =
              CASE type = "Have"     -> [type |-> type, PieceIndex |-> Uint32(p)]
                [] type \in { "Request", "CancelRequest" } ->
                     [type |-> type, Block |-> decodeBlockRequest(p)]
                [] type = "Bitfield" -> [type |-> type, Bits |-> p]
                [] type = "Piece"    -> decodePiece(p)
                [] OTHER             -> [type |-> type]
<1> DEFINE id == MessageID[type]
           body == <<id>> \o p
<1>1. id \in Byte
  BY MessageIDs
<1>2. <<id>> \in Seq(Byte) /\ Len(<<id>>) = 1 /\ <<id>>[1] = id
  BY <1>1
<1>3. body \in Seq(Byte) /\ Len(body) = 1 + Len(p) /\ Len(p) \in Nat
  BY <1>2, Concat
<1>4. body[1] = id
  OBVIOUS
<1>5. Tail(body) = p
  <2>1. Tail(body) = From(body, 1)
    BY DEF From
  <2>2. From(body, 1) = p
    BY <1>2, Parts
  <2> QED BY <2>1, <2>2
<1> DEFINE known == { t \in DOMAIN MessageID : MessageID[t] = body[1] }
<1>6. known = { type }
  BY <1>4, MessageIDs
<1>7. (CHOOSE t \in known : TRUE) = type
  BY <1>6
<1>8. ~ (type \in DOMAIN fixedPayloadLengths /\ Len(p) # fixedPayloadLengths[type])
  OBVIOUS
<1> HIDE DEF id, body
<1>9. decodeBody(body) =
              CASE type = "Have"     -> [type |-> type, PieceIndex |-> Uint32(p)]
                [] type \in { "Request", "CancelRequest" } ->
                     [type |-> type, Block |-> decodeBlockRequest(p)]
                [] type = "Bitfield" -> [type |-> type, Bits |-> p]
                [] type = "Piece"    -> decodePiece(p)
                [] OTHER             -> [type |-> type]
  BY <1>5, <1>6, <1>7, <1>8, Zenon DEF decodeBody
<1> QED BY <1>3, <1>9 DEF body, id

\* Words that are written next to each other are read one by one.
LEMMA WordsRead ==
  ASSUME NEW a \in Uint32s, NEW b \in Uint32s, NEW t \in Seq(Byte)
  PROVE  /\ (PutUint32(a) \o PutUint32(b)) \o t \in Seq(Byte)
         /\ Len((PutUint32(a) \o PutUint32(b)) \o t) = 2 * WordBytes + Len(t)
         /\ Word32((PutUint32(a) \o PutUint32(b)) \o t, 0) = a
         /\ Word32((PutUint32(a) \o PutUint32(b)) \o t, 1) = b
         /\ From((PutUint32(a) \o PutUint32(b)) \o t, 2 * WordBytes) = t
<1> DEFINE W == WordBytes
           pa == PutUint32(a)
           pb == PutUint32(b)
           ab == pa \o pb
           s == ab \o t
<1>1. W \in Nat \ {0} /\ pa \in Seq(Byte) /\ Len(pa) = W /\ Uint32(pa) = a
  BY ByteFacts, Uint32Inverse
<1>2. pb \in Seq(Byte) /\ Len(pb) = W /\ Uint32(pb) = b
  BY Uint32Inverse
<1> HIDE DEF pa, pb
<1>3. ab \in Seq(Byte) /\ Len(ab) = 2 * W
  <2>1. ab \in Seq(Byte) /\ Len(ab) = Len(pa) + Len(pb)
    BY <1>1, <1>2, Concat
  <2> QED BY <1>1, <1>2, <2>1
<1>4. Seg(ab, 0, W) = pa /\ From(ab, W) = pb
  BY <1>1, <1>2, Parts
<1>5. Seg(ab, W, 2 * W) = pb
  BY <1>3, <1>4 DEF From, Seg
<1> HIDE DEF ab
<1>6. s \in Seq(Byte) /\ Len(s) = 2 * W + Len(t) /\ Len(t) \in Nat
  <2>1. s \in Seq(Byte) /\ Len(s) = Len(ab) + Len(t)
    BY <1>3, Concat
  <2> QED BY <1>3, <2>1
<1>7. Seg(s, 0, 2 * W) = ab /\ From(s, 2 * W) = t
  <2>1. Seg(s, 0, Len(ab)) = ab /\ From(s, Len(ab)) = t
    BY <1>3, Parts
  <2> QED BY <1>3, <2>1
<1> HIDE DEF s
<1>n. /\ 0 \in Nat /\ W \in Nat /\ 2 * W \in Nat /\ 0 <= 2 * W /\ 2 * W <= Len(s) /\ 0 <= W
      /\ W <= 2 * W - 0 /\ 2 * W <= 2 * W - 0 /\ 0 + 0 = 0 /\ 0 + W = W /\ 0 + 2 * W = 2 * W
  BY <1>1, <1>6
<1>8. Seg(s, 0, W) = pa
  <2>1. Seg(Seg(s, 0, 2 * W), 0, W) = Seg(s, 0 + 0, 0 + W)
    BY <1>6, <1>n, PartOfPart
  <2> QED BY <1>4, <1>7, <1>n, <2>1
<1>9. Seg(s, W, 2 * W) = pb
  <2>1. Seg(Seg(s, 0, 2 * W), W, 2 * W) = Seg(s, 0 + W, 0 + 2 * W)
    BY <1>6, <1>n, PartOfPart
  <2> QED BY <1>5, <1>7, <1>n, <2>1
<1>10. Word32(s, 0) = a /\ Word32(s, 1) = b
  BY <1>1, <1>2, <1>6, <1>8, <1>9, WordsOf
<1> QED BY <1>6, <1>7, <1>10 DEF s, ab, pa, pb

\* The payloads of Request and CancelRequest.
LEMMA BlockRequestRead ==
  ASSUME NEW block \in Block
  PROVE  /\ encodeBlockRequest(block) \in Seq(Byte)
         /\ Len(encodeBlockRequest(block)) = 3 * WordBytes
         /\ decodeBlockRequest(encodeBlockRequest(block)) = block
<1> DEFINE W == WordBytes
           c == PutUint32(block.Length)
           s == encodeBlockRequest(block)
<1>1. /\ block.PieceIndex \in Uint32s /\ block.Begin \in Uint32s /\ block.Length \in Uint32s
      /\ block = [PieceIndex |-> block.PieceIndex, Begin |-> block.Begin, Length |-> block.Length]
  BY DEF Block
<1>2. W \in Nat \ {0} /\ c \in Seq(Byte) /\ Len(c) = W /\ Uint32(c) = block.Length
  BY <1>1, ByteFacts, Uint32Inverse
<1> HIDE DEF c
<1>3. s = (PutUint32(block.PieceIndex) \o PutUint32(block.Begin)) \o c
  BY DEF encodeBlockRequest, c
<1>4. /\ s \in Seq(Byte) /\ Len(s) = 2 * W + Len(c) /\ From(s, 2 * W) = c
      /\ Word32(s, 0) = block.PieceIndex /\ Word32(s, 1) = block.Begin
  BY <1>1, <1>2, <1>3, WordsRead
<1> HIDE DEF s
<1>5. Len(s) = 3 * W
  BY <1>2, <1>4
<1>6. Seg(s, 2 * W, 3 * W) = c
  BY <1>4, <1>5 DEF From, Seg
<1>7. Word32(s, 2) = block.Length
  BY <1>2, <1>4, <1>6, WordsOf
<1>8. decodeBlockRequest(s) = block
  BY <1>1, <1>4, <1>7 DEF decodeBlockRequest
<1> QED BY <1>4, <1>5, <1>8 DEF s

\* A message that is encoded is decoded to what it was.
LEMMA Encoded ==
  ASSUME NEW m \in Bodied
  PROVE  /\ encodeMessage(m) \in Seq(Byte) /\ Len(encodeMessage(m)) > 0
         /\ decodeBody(encodeMessage(m)) = m
<1> DEFINE W == WordBytes
           Goal == /\ encodeMessage(m) \in Seq(Byte) /\ Len(encodeMessage(m)) > 0
                   /\ decodeBody(encodeMessage(m)) = m
<1>0. W \in Nat \ {0} /\ \A s \in Seq(Byte) : Len(s) \in Nat
  BY ByteFacts
<1>1. CASE m \in [type : Fixed]
  <2>1. m = [type |-> m.type] /\ m.type \in Fixed
    BY <1>1
  <2>2. encodeMessage(m) = <<MessageID[m.type]>> \o <<>>
    BY <2>1 DEF encodeMessage, Fixed
  <2>3. m.type \in DOMAIN MessageID /\ Len(<<>>) = fixedPayloadLengths[m.type] /\ <<>> \in Seq(Byte)
    BY <2>1, MessageIDs, PayloadLengths
  <2>4. /\ <<MessageID[m.type]>> \o <<>> \in Seq(Byte)
        /\ Len(<<MessageID[m.type]>> \o <<>>) = 1 + Len(<<>>)
    BY <2>3, BodyOfType
  <2>5. decodeBody(<<MessageID[m.type]>> \o <<>>) = [type |-> m.type]
    BY <2>1, <2>3, BodyOfType DEF Fixed
  <2> QED BY <2>1, <2>2, <2>4, <2>5
<1>2. CASE m \in [type : {"Have"}, PieceIndex : Uint32s]
  <2> DEFINE p == PutUint32(m.PieceIndex)
  <2>1. m = [type |-> "Have", PieceIndex |-> m.PieceIndex] /\ m.PieceIndex \in Uint32s
    BY <1>2
  <2>2. encodeMessage(m) = <<MessageID["Have"]>> \o p
    BY <2>1 DEF encodeMessage
  <2>3. p \in Seq(Byte) /\ Len(p) = W /\ Uint32(p) = m.PieceIndex
    BY <2>1, Uint32Inverse
  <2>4. "Have" \in DOMAIN MessageID /\ Len(p) = fixedPayloadLengths["Have"]
    BY <2>3, MessageIDs, PayloadLengths
  <2> HIDE DEF p
  <2>5. <<MessageID["Have"]>> \o p \in Seq(Byte) /\ Len(<<MessageID["Have"]>> \o p) = 1 + Len(p)
    BY <2>3, <2>4, BodyOfType
  <2>6. decodeBody(<<MessageID["Have"]>> \o p) = [type |-> "Have", PieceIndex |-> Uint32(p)]
    BY <2>3, <2>4, BodyOfType
  <2> QED BY <1>0, <2>1, <2>2, <2>3, <2>5, <2>6
<1>3. CASE m \in [type : {"Bitfield"}, Bits : Seq(Byte)]
  <2> DEFINE p == m.Bits
             T == "Bitfield"
  <2>1. m = [type |-> T, Bits |-> m.Bits] /\ m.Bits \in Seq(Byte)
    BY <1>3
  <2>2. encodeMessage(m) = <<MessageID[T]>> \o p
    BY <2>1 DEF encodeMessage
  <2>3. T \in DOMAIN MessageID /\ T \notin DOMAIN fixedPayloadLengths
    BY MessageIDs, PayloadLengths DEF Fixed
  <2> HIDE DEF p
  <2>4. p \in Seq(Byte)
    BY <2>1 DEF p
  <2>5. <<MessageID[T]>> \o p \in Seq(Byte) /\ Len(<<MessageID[T]>> \o p) = 1 + Len(p)
    BY <2>3, <2>4, BodyOfType
  <2>6. decodeBody(<<MessageID[T]>> \o p) = [type |-> T, Bits |-> p]
    BY <2>3, <2>4, BodyOfType
  <2> QED BY <1>0, <2>1, <2>2, <2>4, <2>5, <2>6 DEF p
<1>4. CASE m \in [type : { "Request", "CancelRequest" }, Block : Block]
  <2> DEFINE p == encodeBlockRequest(m.Block)
             T == m.type
  <2>1. /\ m = [type |-> T, Block |-> m.Block] /\ m.Block \in Block
        /\ T \in { "Request", "CancelRequest" }
    BY <1>4
  <2>2. encodeMessage(m) = <<MessageID[T]>> \o p
    BY <2>1 DEF encodeMessage
  <2>3. p \in Seq(Byte) /\ Len(p) = 3 * W /\ decodeBlockRequest(p) = m.Block
    BY <2>1, BlockRequestRead
  <2>4. T \in DOMAIN MessageID /\ Len(p) = fixedPayloadLengths[T]
    BY <2>1, <2>3, MessageIDs, PayloadLengths
  <2> HIDE DEF p, T
  <2>5. <<MessageID[T]>> \o p \in Seq(Byte) /\ Len(<<MessageID[T]>> \o p) = 1 + Len(p)
    BY <2>3, <2>4, BodyOfType
  <2>6. decodeBody(<<MessageID[T]>> \o p) = [type |-> T, Block |-> decodeBlockRequest(p)]
    BY <2>1, <2>3, <2>4, BodyOfType
  <2> QED BY <1>0, <2>1, <2>2, <2>3, <2>5, <2>6
<1>5. CASE m \in [type : {"Piece"}, PieceIndex : Uint32s, Begin : Uint32s, Data : Seq(Byte)]
  <2> DEFINE T == "Piece"
             p == (PutUint32(m.PieceIndex) \o PutUint32(m.Begin)) \o m.Data
  <2>1. /\ m = [type |-> T, PieceIndex |-> m.PieceIndex, Begin |-> m.Begin, Data |-> m.Data]
        /\ m.PieceIndex \in Uint32s /\ m.Begin \in Uint32s /\ m.Data \in Seq(Byte)
    BY <1>5
  <2>2. encodeMessage(m) = <<MessageID[T]>> \o p
    BY <2>1 DEF encodeMessage
  <2>3. /\ p \in Seq(Byte) /\ Len(p) = 2 * W + Len(m.Data) /\ From(p, 2 * W) = m.Data
        /\ Word32(p, 0) = m.PieceIndex /\ Word32(p, 1) = m.Begin
    BY <2>1, WordsRead
  <2>4. T \in DOMAIN MessageID /\ T \notin DOMAIN fixedPayloadLengths
    BY MessageIDs, PayloadLengths DEF Fixed
  <2> HIDE DEF p
  <2>5. <<MessageID[T]>> \o p \in Seq(Byte) /\ Len(<<MessageID[T]>> \o p) = 1 + Len(p)
    BY <2>3, <2>4, BodyOfType
  <2>6. decodeBody(<<MessageID[T]>> \o p) = decodePiece(p)
    BY <2>3, <2>4, BodyOfType
  <2>7. ~ Len(p) < 2 * W
    BY <1>0, <2>1, <2>3
  <2>8. decodePiece(p) = m
    BY <2>1, <2>3, <2>7 DEF decodePiece
  <2> QED BY <1>0, <2>2, <2>3, <2>5, <2>6, <2>8
<1> QED BY <1>1, <1>2, <1>3, <1>4, <1>5 DEF Bodied, Fixed

\* A frame is the length of a body and the body, which is decoded to the message.
IsBodyOf(body, m) ==
  /\ body \in Seq(Byte) /\ Len(body) \in Uint32s /\ Len(body) <= maxPeerMessageSize
  /\ WriteMessage(m) = PutUint32(Len(body)) \o body
  /\ \/ Len(body) = 0 /\ m = KeepAlive
     \/ Len(body) > 0 /\ m = decodeBody(body)

\* A message that can be written is framed by the length of its body.
LEMMA Framed ==
  ASSUME NEW m \in Writable
  PROVE  \E body : IsBodyOf(body, m)
<1>1. CASE m = KeepAlive
  <2>1. PutUint32(0) \in Seq(Byte) /\ <<>> \in Seq(Byte)
    BY ZeroWritten, Uint32Inverse
  <2>2. PutUint32(0) \o <<>> = PutUint32(0)
    BY <2>1
  <2>3. WriteMessage(m) = PutUint32(Len(<<>>)) \o <<>>
    BY <1>1, <2>2 DEF WriteMessage
  <2>4. IsBodyOf(<<>>, m)
    BY <1>1, <2>1, <2>3, ZeroWritten, WireAssumption DEF IsBodyOf
  <2> QED BY <2>4
<1>2. CASE m # KeepAlive
  <2> DEFINE body == encodeMessage(m)
  <2>1. m \in Bodied /\ Len(body) <= maxPeerMessageSize
    BY <1>2 DEF Writable
  <2>2. body \in Seq(Byte) /\ Len(body) > 0 /\ m = decodeBody(body)
    BY <2>1, Encoded
  <2>3. WriteMessage(m) = PutUint32(Len(body)) \o body
    BY <1>2 DEF WriteMessage
  <2> HIDE DEF body
  <2>4. Len(body) \in 0 .. maxPeerMessageSize
    BY <2>1, <2>2
  <2>5. Len(body) \in Uint32s
    BY <2>4, WireAssumption
  <2>6. IsBodyOf(body, m)
    BY <2>1, <2>2, <2>3, <2>5 DEF IsBodyOf
  <2> QED BY <2>6
<1> QED BY <1>1, <1>2

\* A message that can be written is not an error, and takes a byte at least.
LEMMA WritableFacts ==
  ASSUME NEW m \in Writable
  PROVE  /\ m # Invalid
         /\ WriteMessage(m) \in Seq(Byte) /\ Len(WriteMessage(m)) \in Nat
         /\ Len(WriteMessage(m)) >= WordBytes
<1>1. m # Invalid
  BY DEF Writable, Bodied, Invalid, KeepAlive
<1>2. PICK body : IsBodyOf(body, m)
  BY Framed
<1>3. body \in Seq(Byte) /\ Len(body) \in Uint32s /\ WriteMessage(m) = PutUint32(Len(body)) \o body
  BY <1>2 DEF IsBodyOf
<1> DEFINE p == PutUint32(Len(body))
<1>4. p \in Seq(Byte) /\ Len(p) = WordBytes /\ Len(body) \in Nat
  BY <1>3, Uint32Inverse
<1> HIDE DEF p
<1>5. p \o body \in Seq(Byte) /\ Len(p \o body) = Len(p) + Len(body)
  BY <1>3, <1>4, Concat
<1>6. WriteMessage(m) = p \o body
  BY <1>3 DEF p
<1> QED BY <1>1, <1>4, <1>5, <1>6, ByteFacts

\* A frame at the start of what there is is read, and what comes after it left.
LEMMA ReadFrame ==
  ASSUME NEW m \in Writable, NEW t \in Seq(Byte)
  PROVE  ReadMessage(WriteMessage(m) \o t) = [message |-> m, rest |-> t]
<1> DEFINE W == WordBytes
<1>1. PICK body : IsBodyOf(body, m)
  BY Framed
<1>2. /\ body \in Seq(Byte) /\ Len(body) \in Uint32s /\ Len(body) <= maxPeerMessageSize
      /\ WriteMessage(m) = PutUint32(Len(body)) \o body
      /\ \/ Len(body) = 0 /\ m = KeepAlive
         \/ Len(body) > 0 /\ m = decodeBody(body)
  BY <1>1 DEF IsBodyOf
<1> DEFINE p == PutUint32(Len(body))
           tail == body \o t
           bytes == WriteMessage(m) \o t
<1>3. /\ p \in Seq(Byte) /\ Len(p) = W /\ Uint32(p) = Len(body) /\ W \in Nat \ {0}
      /\ Len(body) \in Nat /\ maxPeerMessageSize \in Nat /\ Len(t) \in Nat
  BY <1>2, Uint32Inverse, ByteFacts, WireAssumption
<1>4. WriteMessage(m) = p \o body
  BY <1>2
<1> HIDE DEF p
<1>5. bytes = p \o tail
  BY <1>2, <1>3, <1>4, Associative, SMTT(30)
<1>6. tail \in Seq(Byte) /\ Len(tail) = Len(body) + Len(t)
  BY <1>2, Concat
<1>7. Seg(tail, 0, Len(body)) = body /\ From(tail, Len(body)) = t
  BY <1>2, Parts
<1> HIDE DEF tail, bytes
<1>8. bytes \in Seq(Byte) /\ Len(bytes) = W + Len(tail)
  <2>1. p \o tail \in Seq(Byte) /\ Len(p \o tail) = Len(p) + Len(tail)
    BY <1>3, <1>6, Concat
  <2> QED BY <1>3, <1>5, <2>1
<1>9. Seg(bytes, 0, W) = p /\ From(bytes, W) = tail
  <2>1. Seg(p \o tail, 0, Len(p)) = p /\ From(p \o tail, Len(p)) = tail
    BY <1>3, <1>6, Parts
  <2> QED BY <1>3, <1>5, <2>1
<1>10. Word32(bytes, 0) = Len(body)
  BY <1>3, <1>8, <1>9, WordsOf
<1>11. SubSeq(tail, 1, Len(body)) = body
  BY <1>7 DEF Seg
<1>12. ~ Len(bytes) < W /\ ~ (Len(body) > maxPeerMessageSize \/ Len(tail) < Len(body))
  BY <1>2, <1>3, <1>6, <1>8
<1>13. CASE Len(body) = 0 /\ m = KeepAlive
  <2>1. tail = t
    <3>1. body = <<>>
      BY <1>2, <1>13, NoLength
    <3> QED BY <3>1 DEF tail
  <2>2. ReadMessage(bytes) = [message |-> KeepAlive, rest |-> tail]
    BY <1>9, <1>10, <1>12, <1>13 DEF ReadMessage
  <2> QED BY <1>13, <2>1, <2>2 DEF bytes
<1>14. CASE Len(body) > 0 /\ m = decodeBody(body)
  <2>1. ~ Len(body) = 0
    BY <1>14
  <2>2. ReadMessage(bytes) = [message |-> decodeBody(body), rest |-> t]
    BY <1>7, <1>9, <1>10, <1>11, <1>12, <2>1 DEF ReadMessage
  <2> QED BY <1>14, <2>2 DEF bytes
<1> QED BY <1>2, <1>13, <1>14

\* The beginning of a frame is an error, not another message.
LEMMA ReadCut ==
  ASSUME NEW m \in Writable, NEW n \in Nat, n < Len(WriteMessage(m))
  PROVE  ReadMessage(Seg(WriteMessage(m), 0, n)).message = Invalid
<1> DEFINE W == WordBytes
<1>1. PICK body : IsBodyOf(body, m)
  BY Framed
<1>2. body \in Seq(Byte) /\ Len(body) \in Uint32s /\ WriteMessage(m) = PutUint32(Len(body)) \o body
  BY <1>1 DEF IsBodyOf
<1> DEFINE p == PutUint32(Len(body))
           frame == WriteMessage(m)
           bytes == Seg(frame, 0, n)
<1>3. /\ p \in Seq(Byte) /\ Len(p) = W /\ Uint32(p) = Len(body) /\ W \in Nat \ {0}
      /\ Len(body) \in Nat
  BY <1>2, Uint32Inverse, ByteFacts
<1>4. frame = p \o body
  BY <1>2
<1> HIDE DEF p
<1>5. frame \in Seq(Byte) /\ Len(frame) = W + Len(body) /\ Seg(frame, 0, W) = p
  <2>1. p \o body \in Seq(Byte) /\ Len(p \o body) = Len(p) + Len(body)
    BY <1>2, <1>3, Concat
  <2>2. Seg(p \o body, 0, Len(p)) = p
    BY <1>2, <1>3, Parts
  <2> QED BY <1>3, <1>4, <2>1, <2>2
<1>6. n < Len(frame)
  OBVIOUS
<1> HIDE DEF frame
<1>7. bytes \in Seq(Byte) /\ Len(bytes) = n
  <2>1. 0 \in Nat /\ 0 <= n /\ n <= Len(frame)
    BY <1>3, <1>5, <1>6
  <2>2. bytes \in Seq(Byte) /\ Len(bytes) = n - 0
    BY <1>5, <2>1, Part DEF Seg
  <2> QED BY <2>2
<1>8. CASE n < W
  <2> HIDE DEF bytes
  <2>1. ReadMessage(bytes) = [message |-> Invalid, rest |-> <<>>]
    BY <1>7, <1>8 DEF ReadMessage
  <2> QED BY <2>1 DEF bytes, frame
<1>9. CASE n >= W
  <2>1. Seg(bytes, 0, W) = p
    <3>1. /\ 0 \in Nat /\ W \in Nat /\ 0 <= n /\ n <= Len(frame) /\ 0 <= W /\ W <= n - 0
          /\ 0 + 0 = 0 /\ 0 + W = W
      BY <1>3, <1>5, <1>6, <1>9
    <3>2. Seg(Seg(frame, 0, n), 0, W) = Seg(frame, 0 + 0, 0 + W)
      BY <1>5, <3>1, PartOfPart
    <3> QED BY <1>5, <3>1, <3>2
  <2> HIDE DEF bytes
  <2>2. Word32(bytes, 0) = Len(body)
    BY <1>3, <1>7, <2>1, WordsOf
  <2>3. Len(From(bytes, W)) = n - W
    <3>1. W \in 0 .. Len(bytes)
      BY <1>3, <1>7, <1>9
    <3> QED BY <1>7, <3>1, FromFacts
  <2>4. ~ Len(bytes) < W /\ ~ Len(body) = 0 /\ Len(From(bytes, W)) < Len(body)
    BY <1>3, <1>5, <1>6, <1>7, <1>9, <2>3
  <2>5. ReadMessage(bytes) = [message |-> Invalid, rest |-> <<>>]
    BY <2>2, <2>4 DEF ReadMessage
  <2> QED BY <2>5 DEF bytes, frame
<1> QED BY <1>3, <1>8, <1>9

\* Where each message of a stream ends.
Marks(e, stream, messages) ==
  /\ stream \in Seq(Byte)
  /\ e \in [0 .. Len(messages) -> Nat] /\ e[0] = 0 /\ e[Len(messages)] = Len(stream)
  /\ \A k \in 0 .. Len(messages) : k <= e[k] /\ e[k] <= Len(stream)
  /\ \A k \in 1 .. Len(messages) :
       e[k - 1] <= e[k] /\ Seg(stream, e[k - 1], e[k]) = WriteMessage(messages[k])

\* The messages of a stream lie one after the other between its marks.
LEMMA StreamWritten ==
  ASSUME NEW messages \in Seq(Writable)
  PROVE  \E e : Marks(e, Written(messages), messages)
<1> DEFINE L == Len(messages)
           G == [p \in (1 .. L) \X Seq(Byte) |-> p[2] \o WriteMessage(messages[p[1]])]
           value == CHOOSE f : f = [n \in 0 .. L |->
                      IF n = 0 THEN <<>> ELSE f[n - 1] \o WriteMessage(messages[n])]
<1>1. L \in Nat
  OBVIOUS
<1>2. \A k \in 1 .. L : messages[k] \in Writable
  OBVIOUS
<1>3. \A k \in 1 .. L : /\ WriteMessage(messages[k]) \in Seq(Byte)
                        /\ Len(WriteMessage(messages[k])) \in Nat
                        /\ Len(WriteMessage(messages[k])) >= 1
  BY <1>2, WritableFacts, ByteFacts
<1>4. G \in [(1 .. L) \X Seq(Byte) -> Seq(Byte)]
  <2>1. ASSUME NEW p \in (1 .. L) \X Seq(Byte)
        PROVE  p[2] \o WriteMessage(messages[p[1]]) \in Seq(Byte)
    <3>1. p[1] \in 1 .. L /\ p[2] \in Seq(Byte)
      OBVIOUS
    <3>2. WriteMessage(messages[p[1]]) \in Seq(Byte)
      BY <1>3, <3>1
    <3> QED BY <3>1, <3>2, Concat
  <2> QED BY <2>1
<1>5. \A k \in 1 .. L, s \in Seq(Byte) : G[<<k, s>>] = s \o WriteMessage(messages[k])
  OBVIOUS
<1> HIDE DEF G
<1>6. PICK f \in [0 .. L -> Seq(Byte)] : f[0] = <<>> /\ \A k \in 1 .. L : f[k] = G[<<k, f[k - 1]>>]
  <2>1. <<>> \in Seq(Byte)
    OBVIOUS
  <2>2. Solutions(Seq(Byte), <<>>, L, G) # {}
    BY <1>1, <1>4, <2>1, Recursion
  <2> QED BY <2>2 DEF Solutions
<1> HIDE DEF L
<1>7. ASSUME NEW k \in 1 .. L
      PROVE  /\ f[k] = f[k - 1] \o WriteMessage(messages[k])
             /\ f[k] \in Seq(Byte) /\ f[k - 1] \in Seq(Byte)
  <2>1. k - 1 \in 0 .. L /\ k \in 0 .. L
    BY <1>1
  <2> QED BY <1>5, <1>6, <2>1
<1>8. f = [n \in 0 .. L |-> IF n = 0 THEN <<>> ELSE f[n - 1] \o WriteMessage(messages[n])]
  <2> DEFINE App(x, k) == x \o WriteMessage(messages[k])
  <2>1. \A k \in 1 .. L : f[k] = App(f[k - 1], k)
    BY <1>7
  <2> HIDE DEF App
  <2>2. \A n \in 0 .. L : f[n] = IF n = 0 THEN <<>> ELSE App(f[n - 1], n)
    BY <1>1, <1>6, <2>1
  <2>3. f = [n \in 0 .. L |-> IF n = 0 THEN <<>> ELSE App(f[n - 1], n)]
    BY <2>2
  <2> QED BY <2>3 DEF App
<1>9. value = [n \in 0 .. L |-> IF n = 0 THEN <<>> ELSE value[n - 1] \o WriteMessage(messages[n])]
  BY <1>8
<1>10. Written(messages) = value[L]
  BY DEF Written, L
<1> HIDE DEF value
<1>11. value[0] = <<>> /\ \A k \in 1 .. L : value[k] = value[k - 1] \o WriteMessage(messages[k])
  <2> DEFINE App(x, k) == x \o WriteMessage(messages[k])
  <2>1. value = [n \in 0 .. L |-> IF n = 0 THEN <<>> ELSE App(value[n - 1], n)]
    BY <1>9
  <2> HIDE DEF App
  <2>2. value[0] = <<>> /\ \A k \in 1 .. L : value[k] = App(value[k - 1], k)
    BY <1>1, <2>1
  <2> QED BY <2>2 DEF App
<1>12. \A k \in 0 .. L : value[k] = f[k]
  <2>1. Alike(value, f, L)
    BY <1>6, <1>7, <1>11 DEF Alike
  <2> QED BY <1>1, <2>1, OneSolution
<1> DEFINE stream == Written(messages)
<1>13. stream = f[L] /\ stream \in Seq(Byte)
  BY <1>1, <1>6, <1>10, <1>12
<1> DEFINE e == [k \in 0 .. L |-> Len(f[k])]
           Start(j, n) == e[j] <= e[n] /\ Seg(f[n], 0, e[j]) = f[j]
           T == { n \in 0 .. L : n <= e[n] /\ \A j \in 0 .. n : Start(j, n) }
<1>14. e \in [0 .. L -> Nat] /\ e[0] = 0 /\ e[L] = Len(stream)
  BY <1>1, <1>6, <1>13
<1>15. \A k \in 0 .. L : f[k] \in Seq(Byte) /\ e[k] = Len(f[k]) /\ e[k] \in Nat
  BY <1>6
<1> HIDE DEF e, stream
<1>16. ASSUME NEW k \in 1 .. L
       PROVE  /\ e[k - 1] + 1 <= e[k]
              /\ Seg(f[k], 0, e[k - 1]) = f[k - 1]
              /\ Seg(f[k], e[k - 1], e[k]) = WriteMessage(messages[k])
  <2> DEFINE w == WriteMessage(messages[k])
             s == f[k - 1]
  <2>1. w \in Seq(Byte) /\ Len(w) \in Nat /\ Len(w) >= 1
    BY <1>3
  <2>2. s \in Seq(Byte) /\ Len(s) = e[k - 1] /\ e[k - 1] \in Nat /\ f[k] = s \o w /\ Len(f[k]) = e[k]
    <3>1. k - 1 \in 0 .. L /\ k \in 0 .. L
      BY <1>1
    <3> QED BY <1>7, <1>15, <3>1
  <2> HIDE DEF w, s
  <2>3. Len(s \o w) = Len(s) + Len(w)
    BY <2>1, <2>2, Concat
  <2>4. Seg(s \o w, 0, Len(s)) = s /\ From(s \o w, Len(s)) = w
    BY <2>1, <2>2, Parts
  <2>5. Seg(f[k], e[k - 1], e[k]) = w
    BY <2>2, <2>4 DEF Seg, From
  <2>6. e[k - 1] + 1 <= e[k]
    BY <2>1, <2>2, <2>3
  <2>7. Seg(f[k], 0, e[k - 1]) = s
    BY <2>2, <2>4
  <2> QED BY <2>5, <2>6, <2>7 DEF w, s
<1>17. 0 \in T
  <2>1. 0 \in 0 .. L
    BY <1>1
  <2>2. Seg(f[0], 0, e[0]) = f[0]
    BY <1>15, <2>1, Whole
  <2> QED BY <1>14, <2>1, <2>2
<1>18. ASSUME NEW n \in 1 .. L, n - 1 \in T PROVE n \in T
  <2>1. n \in 0 .. L /\ n - 1 \in 0 .. L
    BY <1>1
  <2>2. n - 1 <= e[n - 1] /\ \A j \in 0 .. n - 1 : Start(j, n - 1)
    BY <1>18
  <2>3. /\ e[n - 1] + 1 <= e[n] /\ Seg(f[n], 0, e[n - 1]) = f[n - 1]
        /\ e[n] \in Nat /\ e[n - 1] \in Nat /\ f[n] \in Seq(Byte) /\ e[n] = Len(f[n])
    BY <1>15, <1>16, <2>1
  <2>4. n <= e[n]
    BY <2>2, <2>3
  <2>5. ASSUME NEW j \in 0 .. n PROVE Start(j, n)
    <3>1. CASE j = n
      <4>1. Seg(f[n], 0, e[n]) = f[n]
        BY <2>3, Whole
      <4> QED BY <2>3, <3>1, <4>1
    <3>2. CASE j # n
      <4>1. j \in 0 .. n - 1 /\ j \in 0 .. L
        BY <1>1, <3>2
      <4>2. e[j] <= e[n - 1] /\ Seg(f[n - 1], 0, e[j]) = f[j] /\ e[j] \in Nat
        BY <1>15, <2>2, <4>1
      <4>3. /\ 0 \in Nat /\ 0 <= e[n - 1] /\ e[n - 1] <= Len(f[n]) /\ 0 <= e[j]
            /\ e[j] <= e[n - 1] - 0 /\ 0 + 0 = 0 /\ 0 + e[j] = e[j]
        BY <2>3, <4>2
      <4>4. Seg(Seg(f[n], 0, e[n - 1]), 0, e[j]) = Seg(f[n], 0 + 0, 0 + e[j])
        BY <2>3, <4>2, <4>3, PartOfPart
      <4>5. e[j] <= e[n]
        BY <2>3, <4>2
      <4> QED BY <2>3, <4>2, <4>3, <4>4, <4>5
    <3> QED BY <3>1, <3>2
  <2> QED BY <2>1, <2>4, <2>5
<1> HIDE DEF T
<1>19. \A n \in 0 .. L : n \in T
  BY <1>1, <1>17, <1>18, Induction
<1>20. ASSUME NEW k \in 0 .. L
       PROVE  k <= e[k] /\ e[k] <= Len(stream) /\ Seg(stream, 0, e[k]) = f[k]
  <2>1. k \in T /\ L \in T /\ k \in 0 .. L
    BY <1>1, <1>19
  <2> QED BY <1>13, <1>14, <2>1 DEF T
<1>21. ASSUME NEW k \in 1 .. L
       PROVE  e[k - 1] <= e[k] /\ Seg(stream, e[k - 1], e[k]) = WriteMessage(messages[k])
  <2>1. k \in 0 .. L /\ k - 1 \in 0 .. L
    BY <1>1
  <2>2. e[k] \in Nat /\ e[k - 1] \in Nat /\ e[k] <= Len(stream) /\ Seg(stream, 0, e[k]) = f[k]
    BY <1>15, <1>20, <2>1
  <2>3. e[k - 1] + 1 <= e[k] /\ Seg(f[k], e[k - 1], e[k]) = WriteMessage(messages[k])
    BY <1>16
  <2>4. /\ 0 \in Nat /\ 0 <= e[k] /\ e[k - 1] <= e[k] /\ e[k] <= e[k] - 0
        /\ 0 + e[k - 1] = e[k - 1] /\ 0 + e[k] = e[k]
    BY <2>2, <2>3
  <2>5. Seg(Seg(stream, 0, e[k]), e[k - 1], e[k]) = Seg(stream, 0 + e[k - 1], 0 + e[k])
    BY <1>13, <2>2, <2>4, PartOfPart
  <2> QED BY <2>2, <2>3, <2>4, <2>5
<1>22. Marks(e, stream, messages)
  BY <1>13, <1>14, <1>20, <1>21 DEF Marks, L
<1> QED BY <1>22 DEF stream

\* What a reader has passed on and has yet to read.
Reading == [done : BOOLEAN, passed : Seq(Writable), rest : Seq(Byte)]

\* A round of the reader keeps its types.
LEMMA RoundTyped ==
  ASSUME NEW at \in Reading
  PROVE  ReadRound(at) \in Reading
<1> DEFINE next == ReadMessage(at.rest)
<1>1. at.rest \in Seq(Byte) /\ at.passed \in Seq(Writable)
  BY DEF Reading
<1>2. CASE at.done \/ next.message = Invalid
  BY <1>2 DEF ReadRound, Reading
<1>3. CASE ~ (at.done \/ next.message = Invalid)
  <2>1. next.message \in Writable /\ next.rest \in Seq(Byte)
    BY <1>1, <1>3, Accepted
  <2>2. ReadRound(at) = [done |-> FALSE, passed |-> Append(at.passed, next.message),
                         rest |-> next.rest]
    BY <1>3 DEF ReadRound
  <2> HIDE DEF next
  <2>3. Append(at.passed, next.message) \in Seq(Writable)
    BY <1>1, <2>1
  <2> QED BY <2>1, <2>2, <2>3 DEF Reading
<1> QED BY <1>2, <1>3

\* What readLoop passes on is what its rounds have passed on in the end.
LEMMA LoopRounds ==
  ASSUME NEW bytes \in Seq(Byte)
  PROVE  \E f \in [0 .. Len(bytes) + 1 -> Reading] :
           /\ f[0] = [done |-> FALSE, passed |-> <<>>, rest |-> bytes]
           /\ \A k \in 1 .. Len(bytes) + 1 : f[k] = ReadRound(f[k - 1])
           /\ readLoop(bytes) = f[Len(bytes) + 1].passed
<1> DEFINE N == Len(bytes) + 1
           first == [done |-> FALSE, passed |-> <<>>, rest |-> bytes]
           G == [p \in (1 .. N) \X Reading |-> ReadRound(p[2])]
           at == CHOOSE f : f = [n \in 0 .. N |-> IF n = 0 THEN first ELSE ReadRound(f[n - 1])]
<1>1. N \in Nat /\ N \in 0 .. N
  OBVIOUS
<1>2. first \in Reading
  BY DEF Reading
<1>3. G \in [(1 .. N) \X Reading -> Reading]
  <2>1. ASSUME NEW p \in (1 .. N) \X Reading PROVE ReadRound(p[2]) \in Reading
    <3>1. p[2] \in Reading
      OBVIOUS
    <3> QED BY <3>1, RoundTyped
  <2> QED BY <2>1
<1>4. \A k \in 1 .. N, x \in Reading : G[<<k, x>>] = ReadRound(x)
  OBVIOUS
<1>5. readLoop(bytes) = at[N].passed
  BY DEF readLoop
<1> HIDE DEF G, first, N
<1>6. PICK f \in [0 .. N -> Reading] : f[0] = first /\ \A k \in 1 .. N : f[k] = G[<<k, f[k - 1]>>]
  <2>1. Solutions(Reading, first, N, G) # {}
    BY <1>1, <1>2, <1>3, Recursion
  <2> QED BY <2>1 DEF Solutions
<1>7. ASSUME NEW k \in 1 .. N PROVE f[k] = ReadRound(f[k - 1])
  <2>1. k - 1 \in 0 .. N
    BY <1>1
  <2> QED BY <1>4, <1>6, <2>1
<1>8. f = [n \in 0 .. N |-> IF n = 0 THEN first ELSE ReadRound(f[n - 1])]
  <2>1. \A n \in 0 .. N : f[n] = IF n = 0 THEN first ELSE ReadRound(f[n - 1])
    BY <1>1, <1>6, <1>7
  <2> QED BY <2>1
<1>9. at = [n \in 0 .. N |-> IF n = 0 THEN first ELSE ReadRound(at[n - 1])]
  BY <1>8
<1> HIDE DEF at
<1>10. at[0] = first /\ \A k \in 1 .. N : at[k] = ReadRound(at[k - 1])
  BY <1>1, <1>9
<1>11. \A k \in 0 .. N : at[k] = f[k]
  <2>1. Alike(at, f, N)
    BY <1>6, <1>7, <1>10 DEF Alike
  <2> QED BY <1>1, <2>1, OneSolution
<1>12. at[N] = f[N]
  BY <1>1, <1>11
<1>13. readLoop(bytes) = f[N].passed
  BY <1>5, <1>12
<1> QED BY <1>6, <1>7, <1>13 DEF N, first

(***************************************************************************)
(* A reader who sees the first c bytes of a stream is in step with it: it  *)
(* has passed on the messages up to a mark and has the bytes from there to *)
(* read; it only stops at the end, or within the next message.             *)
(***************************************************************************)
InStep(at, n, c, e, stream, messages) ==
  \E k \in 0 .. Len(messages) :
    /\ at.passed = SubSeq(messages, 1, k)
    /\ e[k] <= c /\ at.rest = Seg(stream, e[k], c)
    /\ ~ at.done => k = n
    /\ at.done   => k = Len(messages) \/ c < e[k + 1]

\* A round takes the reader over a whole message, or ends it at a cut.
LEMMA RoundInStep ==
  ASSUME NEW messages \in Seq(Writable), NEW e, NEW stream, Marks(e, stream, messages),
         NEW c \in 0 .. Len(stream), NEW n \in Nat \ {0}, NEW at \in Reading,
         InStep(at, n - 1, c, e, stream, messages)
  PROVE  InStep(ReadRound(at), n, c, e, stream, messages)
<1> DEFINE L == Len(messages)
           next == ReadMessage(at.rest)
           then == ReadRound(at)
<1>1. PICK k \in 0 .. L :
        /\ at.passed = SubSeq(messages, 1, k)
        /\ e[k] <= c /\ at.rest = Seg(stream, e[k], c)
        /\ ~ at.done => k = n - 1
        /\ at.done   => k = L \/ c < e[k + 1]
  BY DEF InStep
<1>2. /\ stream \in Seq(Byte) /\ Len(stream) \in Nat /\ L \in Nat
      /\ e \in [0 .. L -> Nat] /\ e[L] = Len(stream)
      /\ \A j \in 0 .. L : e[j] <= Len(stream)
      /\ \A j \in 1 .. L :
           e[j - 1] <= e[j] /\ Seg(stream, e[j - 1], e[j]) = WriteMessage(messages[j])
  BY DEF Marks
<1>3. at.rest \in Seq(Byte) /\ Len(at.rest) = c - e[k] /\ e[k] \in Nat /\ c \in Nat /\ c <= Len(stream)
  <2>1. e[k] \in Nat /\ c \in Nat /\ c <= Len(stream)
    BY <1>2, SMTT(30)
  <2>2. at.rest \in Seq(Byte) /\ Len(at.rest) = c - e[k]
    BY <1>1, <1>2, <2>1, Part DEF Seg
  <2> QED BY <2>1, <2>2
<1>4. CASE at.done
  <2>1. then = [at EXCEPT !.done = TRUE]
    BY <1>4 DEF ReadRound
  <2>2. then.passed = at.passed /\ then.rest = at.rest /\ then.done = TRUE
    BY <2>1 DEF Reading
  <2> HIDE DEF then
  <2>3. InStep(then, n, c, e, stream, messages)
    BY <1>1, <1>4, <2>2 DEF InStep
  <2> QED BY <2>3 DEF then
<1>5. ASSUME ~ at.done, next.message = Invalid, k = L \/ c < e[k + 1]
      PROVE  InStep(then, n, c, e, stream, messages)
  <2>1. then = [at EXCEPT !.done = TRUE]
    BY <1>5 DEF ReadRound
  <2>2. then.passed = at.passed /\ then.rest = at.rest /\ then.done = TRUE
    BY <2>1 DEF Reading
  <2> HIDE DEF then
  <2>3. InStep(then, n, c, e, stream, messages)
    BY <1>1, <1>5, <2>2 DEF InStep
  <2> QED BY <2>3 DEF then
<1>6. CASE ~ at.done /\ k = L
  <2>1. Len(at.rest) = 0
    BY <1>1, <1>2, <1>3, <1>6
  <2>2. Len(at.rest) < WordBytes
    BY <2>1, ByteFacts
  <2>3. next = [message |-> Invalid, rest |-> <<>>]
    BY <2>2 DEF ReadMessage
  <2> QED BY <1>5, <1>6, <2>3
<1>7. CASE ~ at.done /\ k # L
  <2> DEFINE m == messages[k + 1]
             w == WriteMessage(m)
  <2>1. k + 1 \in 1 .. L /\ k + 1 \in 0 .. L /\ (k + 1) - 1 = k /\ k \in Nat
    BY <1>2, <1>7
  <2>2. m \in Writable
    BY <2>1
  <2>3. m # Invalid /\ w \in Seq(Byte) /\ Len(w) \in Nat
    BY <2>2, WritableFacts
  <2>4. /\ e[k] <= e[k + 1] /\ Seg(stream, e[k], e[k + 1]) = w
        /\ e[k + 1] \in Nat /\ e[k + 1] <= Len(stream)
    <3>1. e[(k + 1) - 1] <= e[k + 1] /\ Seg(stream, e[(k + 1) - 1], e[k + 1]) = w
      BY <1>2, <2>1
    <3>2. e[k + 1] \in Nat /\ e[k + 1] <= Len(stream)
      BY <1>2, <2>1
    <3> QED BY <2>1, <3>1, <3>2
  <2>5. Len(w) = e[k + 1] - e[k]
    <3> DEFINE a == e[k]
               b == e[k + 1]
    <3>1. a \in Nat /\ b \in Nat /\ a <= b /\ b <= Len(stream) /\ Seg(stream, a, b) = w
      BY <1>3, <2>4
    <3> HIDE DEF a, b, w
    <3>2. Len(Seg(stream, a, b)) = b - a
      BY <1>2, <3>1, Part DEF Seg
    <3> QED BY <3>1, <3>2 DEF a, b
  <2> HIDE DEF w, m
  <2>6. CASE c < e[k + 1]
    <3> DEFINE d == c - e[k]
    <3>1. /\ d \in Nat /\ d < Len(w) /\ 0 \in Nat /\ 0 <= d /\ d <= e[k + 1] - e[k]
          /\ e[k] + 0 = e[k] /\ e[k] + d = c
      BY <1>1, <1>3, <2>4, <2>5, <2>6, SMTT(30)
    <3> HIDE DEF d
    <3>2. Seg(w, 0, d) = Seg(stream, e[k], c)
      <4> DEFINE a == e[k]
                 b == e[k + 1]
      <4>1. /\ a \in Nat /\ b \in Nat /\ a <= b /\ b <= Len(stream) /\ Seg(stream, a, b) = w
            /\ d <= b - a /\ a + 0 = a /\ a + d = c
        BY <1>3, <2>4, <3>1
      <4> HIDE DEF a, b
      <4>2. Seg(Seg(stream, a, b), 0, d) = Seg(stream, a + 0, a + d)
        BY <1>2, <3>1, <4>1, PartOfPart
      <4> QED BY <4>1, <4>2 DEF a
    <3>3. at.rest = Seg(w, 0, d)
      BY <1>1, <3>2
    <3>4. ReadMessage(Seg(w, 0, d)).message = Invalid
      BY <2>2, <3>1, ReadCut DEF w
    <3> QED BY <1>5, <1>7, <2>6, <3>3, <3>4
  <2>7. CASE e[k + 1] <= c
    <3> DEFINE t == Seg(stream, e[k + 1], c)
    <3>1. w \o t = at.rest
      <4> DEFINE a == e[k]
                 b == e[k + 1]
      <4>1. a \in Nat /\ b \in Nat /\ a <= b /\ b <= c /\ c \in Nat /\ c <= Len(stream)
        BY <1>3, <2>4, <2>7
      <4>2. stream \in Seq(Byte)
        BY <1>2
      <4> HIDE DEF a, b
      <4>3. Seg(stream, a, b) \o Seg(stream, b, c) = Seg(stream, a, c)
        BY <4>1, <4>2, Join
      <4> QED BY <1>1, <2>4, <4>3 DEF a, b
    <3>2. t \in Seq(Byte)
      <4> DEFINE b == e[k + 1]
      <4>1. b \in Nat /\ b <= c /\ c \in Nat /\ c <= Len(stream)
        BY <1>3, <2>4, <2>7
      <4> HIDE DEF b
      <4>2. SubSeq(stream, b + 1, c) \in Seq(Byte)
        BY <1>2, <4>1, Part
      <4> QED BY <4>2 DEF b, Seg
    <3> HIDE DEF t
    <3>3. next = [message |-> m, rest |-> t]
      BY <2>2, <3>1, <3>2, ReadFrame DEF w
    <3>4. next.message = m /\ next.rest = t
      BY <3>3
    <3> HIDE DEF next
    <3>5. then = [done |-> FALSE, passed |-> Append(at.passed, m), rest |-> t]
      BY <1>7, <2>3, <3>4 DEF ReadRound, next
    <3>6. Append(at.passed, m) = SubSeq(messages, 1, k + 1)
      <4> DEFINE p == SubSeq(messages, 1, k)
                 a == Append(p, m)
                 q == SubSeq(messages, 1, k + 1)
      <4>0. /\ 0 \in Nat /\ 0 <= k /\ k <= L /\ k + 1 \in Nat /\ 0 <= k + 1 /\ k + 1 <= L
            /\ 0 + 1 = 1 /\ k - 0 = k /\ (k + 1) - 0 = k + 1 /\ k \in Nat
        BY <1>2, <2>1
      <4>1. p \in Seq(Writable) /\ Len(p) = k /\ \A j \in 1 .. k : p[j] = messages[j]
        <5>1. SubSeq(messages, 0 + 1, k) \in Seq(Writable) /\ Len(SubSeq(messages, 0 + 1, k)) = k - 0
          BY <4>0, Part
        <5>2. \A j \in 1 .. k - 0 : SubSeq(messages, 0 + 1, k)[j] = messages[0 + j]
          BY <4>0, Part
        <5> QED BY <4>0, <5>1, <5>2
      <4>2. q \in Seq(Writable) /\ Len(q) = k + 1 /\ \A j \in 1 .. k + 1 : q[j] = messages[j]
        <5>1. SubSeq(messages, 0 + 1, k + 1) \in Seq(Writable) /\ Len(SubSeq(messages, 0 + 1, k + 1)) = k + 1 - 0
          BY <4>0, Part
        <5>2. \A j \in 1 .. k + 1 - 0 : SubSeq(messages, 0 + 1, k + 1)[j] = messages[0 + j]
          BY <4>0, Part
        <5> QED BY <4>0, <5>1, <5>2
      <4> HIDE DEF p, q
      <4>3. a \in Seq(Writable) /\ Len(a) = k + 1 /\ a[k + 1] = m /\ \A j \in 1 .. k : a[j] = p[j]
        BY <2>2, <4>1, <4>0
      <4> HIDE DEF a
      <4>4. \A j \in 1 .. k + 1 : a[j] = q[j]
        BY <4>0, <4>1, <4>2, <4>3 DEF m
      <4>5. Agree(a, q)
        BY <4>2, <4>3, <4>4 DEF Agree
      <4>6. a = q
        BY <4>2, <4>3, <4>5, SameSeq
      <4> QED BY <1>1, <4>6 DEF a, q, p
    <3>7. k + 1 = n
      BY <1>1, <1>7, <2>1
    <3> HIDE DEF then
    <3>8. /\ then.passed = SubSeq(messages, 1, k + 1) /\ then.rest = Seg(stream, e[k + 1], c)
          /\ ~ then.done
      BY <3>5, <3>6 DEF t
    <3>9. InStep(then, n, c, e, stream, messages)
      BY <2>1, <2>7, <3>7, <3>8 DEF InStep
    <3> QED BY <3>9 DEF then
  <2> QED BY <1>3, <2>4, <2>6, <2>7
<1> QED BY <1>4, <1>6, <1>7

\* A reader of a part of a stream passes on the first messages, and of all of it all.
LEMMA ReaderInStep ==
  ASSUME NEW messages \in Seq(Writable), NEW c \in 0 .. Len(Written(messages))
  PROVE  /\ IsPrefix(readLoop(Seg(Written(messages), 0, c)), messages)
         /\ c = Len(Written(messages)) => readLoop(Seg(Written(messages), 0, c)) = messages
<1> DEFINE stream == Written(messages)
           bytes == Seg(stream, 0, c)
           L == Len(messages)
<1>1. PICK e : Marks(e, stream, messages)
  BY StreamWritten
<1>2. /\ stream \in Seq(Byte) /\ L \in Nat /\ Len(stream) \in Nat
      /\ e \in [0 .. L -> Nat] /\ e[0] = 0 /\ e[L] = Len(stream)
      /\ \A k \in 0 .. L : k <= e[k] /\ e[k] <= Len(stream)
  BY <1>1 DEF Marks
<1>3. c \in Nat /\ 0 <= c /\ c <= Len(stream)
  BY <1>2
<1> HIDE DEF stream
<1>4. bytes \in Seq(Byte) /\ Len(bytes) = c
  <2>1. bytes \in Seq(Byte) /\ Len(bytes) = c - 0
    BY <1>2, <1>3, Part DEF Seg
  <2> QED BY <1>3, <2>1
<1> HIDE DEF bytes
<1>5. PICK f \in [0 .. c + 1 -> Reading] :
        /\ f[0] = [done |-> FALSE, passed |-> <<>>, rest |-> bytes]
        /\ \A k \in 1 .. c + 1 : f[k] = ReadRound(f[k - 1])
        /\ readLoop(bytes) = f[c + 1].passed
  BY <1>4, LoopRounds
<1> DEFINE T == { n \in 0 .. c + 1 : InStep(f[n], n, c, e, stream, messages) }
<1>6. 0 \in T
  <2>1. f[0].passed = SubSeq(messages, 1, 0) /\ ~ f[0].done /\ f[0].rest = Seg(stream, e[0], c)
    <3>1. SubSeq(messages, 1, 0) = <<>>
      OBVIOUS
    <3> QED BY <1>2, <1>5, <3>1 DEF bytes
  <2>2. 0 \in 0 .. L /\ e[0] <= c
    BY <1>2, <1>3
  <2>3. InStep(f[0], 0, c, e, stream, messages)
    BY <2>1, <2>2 DEF InStep
  <2> QED BY <1>3, <2>3
<1>7. ASSUME NEW n \in 1 .. c + 1, n - 1 \in T PROVE n \in T
  <2>1. n \in Nat \ {0} /\ n - 1 \in 0 .. c + 1 /\ n \in 0 .. c + 1 /\ c \in 0 .. Len(stream)
    BY <1>2, <1>3
  <2>2. f[n - 1] \in Reading /\ f[n] = ReadRound(f[n - 1])
    BY <1>5, <2>1
  <2>3. InStep(f[n - 1], n - 1, c, e, stream, messages)
    BY <1>7
  <2>4. InStep(ReadRound(f[n - 1]), n, c, e, stream, messages)
    BY <1>1, <2>1, <2>2, <2>3, RoundInStep
  <2> QED BY <2>1, <2>2, <2>4
<1> HIDE DEF T
<1>8. c + 1 \in T
  <2>1. c + 1 \in Nat /\ c + 1 \in 0 .. c + 1
    BY <1>3
  <2>2. \A n \in 0 .. c + 1 : n \in T
    BY <1>6, <1>7, <2>1, Induction
  <2> QED BY <2>1, <2>2
<1>9. PICK k \in 0 .. L :
        /\ f[c + 1].passed = SubSeq(messages, 1, k) /\ e[k] <= c
        /\ ~ f[c + 1].done => k = c + 1
        /\ f[c + 1].done   => k = L \/ c < e[k + 1]
  BY <1>8 DEF T, InStep
<1>10. readLoop(bytes) = SubSeq(messages, 1, k) /\ k \in Nat /\ k <= L
  BY <1>2, <1>5, <1>9
<1>11. f[c + 1].done
  <2>1. k <= e[k] /\ e[k] \in Nat
    BY <1>2
  <2> QED BY <1>3, <1>9, <2>1
<1>12. IsPrefix(SubSeq(messages, 1, k), messages)
  <2>1. Len(SubSeq(messages, 1, k)) = k
    BY <1>10
  <2>2. SubSeq(SubSeq(messages, 1, k), 1, k) = SubSeq(messages, 1, k)
    BY <1>10, <2>1
  <2> QED BY <1>10, <2>1, <2>2 DEF IsPrefix
<1>13. ASSUME c = Len(stream) PROVE SubSeq(messages, 1, k) = messages
  <2>1. k = L
    <3>1. k = L \/ (k + 1 \in 0 .. L /\ c < e[k + 1])
      BY <1>2, <1>9, <1>10, <1>11
    <3>2. k + 1 \in 0 .. L => e[k + 1] <= c /\ e[k + 1] \in Nat
      BY <1>2, <1>13
    <3> QED BY <1>3, <3>1, <3>2
  <2> QED BY <2>1
<1> QED BY <1>10, <1>12, <1>13 DEF bytes, stream

\* The parts of what begins with a joined sequence.
Begins(x, s, t, a, b) ==
  a = Len(s) /\ b = a + Len(t) /\ b <= Len(x) /\ Seg(x, 0, b) = s \o t

\* The two parts lie where the joined sequence does.
LEMMA Within ==
  ASSUME NEW S, NEW x \in Seq(S), NEW s \in Seq(S), NEW t \in Seq(S), NEW a, NEW b,
         Begins(x, s, t, a, b)
  PROVE  Seg(x, 0, a) = s /\ Seg(x, a, b) = t
<1> DEFINE y == s \o t
<1>1. /\ y \in Seq(S) /\ Len(y) = b /\ a \in Nat /\ b \in Nat /\ Len(t) \in Nat /\ a = Len(s)
      /\ b = a + Len(t) /\ b <= Len(x)
  BY Concat DEF Begins
<1>2. Seg(y, 0, a) = s /\ From(y, a) = t
  BY <1>1, Parts
<1>3. Seg(y, a, b) = t
  BY <1>1, <1>2 DEF From, Seg
<1>4. /\ 0 \in Nat /\ 0 <= b /\ 0 <= a /\ a <= b - 0 /\ b <= b - 0 /\ a <= b
      /\ 0 + 0 = 0 /\ 0 + a = a /\ 0 + b = b
  BY <1>1
<1>5. Seg(x, 0, b) = y
  BY DEF Begins
<1> HIDE DEF y
<1>6. Seg(Seg(x, 0, b), 0, a) = Seg(x, 0 + 0, 0 + a)
  BY <1>1, <1>4, PartOfPart
<1>7. Seg(Seg(x, 0, b), a, b) = Seg(x, 0 + a, 0 + b)
  BY <1>1, <1>4, PartOfPart
<1> QED BY <1>2, <1>3, <1>4, <1>5, <1>6, <1>7

\* The length of a handshake.
HandshakeLength == 1 + Len(PeerProtocol) + ReservedBytes + HashBytes + HashBytes

\* A handshake is written with this length, and what begins with it is read as it.
LEMMA HandshakeRead ==
  ASSUME NEW hash \in Ends, NEW id \in Ends
  PROVE  /\ writePeerHandshake(hash, id) \in Seq(Byte)
         /\ Len(writePeerHandshake(hash, id)) = HandshakeLength
         /\ HandshakeLength \in Nat \ {0}
         /\ \A x \in Seq(Byte) :
              Len(x) >= HandshakeLength
                /\ Seg(x, 0, HandshakeLength) = writePeerHandshake(hash, id) =>
                  ReadHandshake(x) =
                    <<[Protocol |-> PeerProtocol, Reserved |-> [k \in 1 .. ReservedBytes |-> 0],
                       InfoHash |-> hash, PeerID |-> id], From(x, HandshakeLength)>>
         /\ \A x \in Seq(Byte) :
              Len(x) < HandshakeLength /\ (Len(x) > 0 => x[1] = Len(PeerProtocol)) =>
                ReadHandshake(x) = <<>>
         /\ writePeerHandshake(hash, id)[1] = Len(PeerProtocol)
<1> DEFINE P == PeerProtocol
           Z == [k \in 1 .. ReservedBytes |-> 0]
           one == <<Len(P) % ByteValues>>
           s2 == one \o P
           s3 == s2 \o Z
           s4 == s3 \o hash
           s5 == s4 \o id
           l2 == 1 + Len(P)
           l3 == l2 + ReservedBytes
           l4 == l3 + HashBytes
           l5 == l4 + HashBytes
<1>1. /\ P \in Seq(Byte) /\ Len(P) \in Nat /\ Len(P) < ByteValues /\ ReservedBytes \in Nat
      /\ HashBytes \in Nat \ {0}
  BY WireAssumption DEF ByteValues
<1>2. ByteValues \in Nat /\ ByteValues > 8 /\ 0 \in Byte /\ 1 \in Byte
  BY ByteFacts DEF Byte
<1>3. Len(P) % ByteValues = Len(P) /\ Len(P) \in Byte
  BY <1>1, <1>2 DEF Byte
<1>4. one \in Seq(Byte) /\ Len(one) = 1 /\ one[1] = Len(P)
  BY <1>3
<1>5. Z \in Seq(Byte) /\ Len(Z) = ReservedBytes
  BY <1>1, <1>2
<1>6. hash \in Seq(Byte) /\ Len(hash) = HashBytes
  <2>1. hash \in [1 .. HashBytes -> Byte]
    BY <1>2 DEF Ends
  <2> QED BY <1>1, <2>1
<1>7. id \in Seq(Byte) /\ Len(id) = HashBytes
  <2>1. id \in [1 .. HashBytes -> Byte]
    BY <1>2 DEF Ends
  <2> QED BY <1>1, <2>1
<1>8. writePeerHandshake(hash, id) = s5
  BY DEF writePeerHandshake, WriteHandshake
<1> HIDE DEF one, Z, P
<1>9. s2 \in Seq(Byte) /\ Len(s2) = Len(one) + Len(P)
  BY <1>1, <1>4, Concat
<1>10. Len(s2) = l2
  BY <1>4, <1>9
<1> HIDE DEF s2
<1>11. s3 \in Seq(Byte) /\ Len(s3) = Len(s2) + Len(Z)
  BY <1>5, <1>9, Concat
<1>12. Len(s3) = l3
  BY <1>5, <1>10, <1>11
<1> HIDE DEF s3
<1>13. s4 \in Seq(Byte) /\ Len(s4) = Len(s3) + Len(hash)
  BY <1>6, <1>11, Concat
<1>14. Len(s4) = l4
  BY <1>6, <1>12, <1>13
<1> HIDE DEF s4
<1>15. s5 \in Seq(Byte) /\ Len(s5) = Len(s4) + Len(id)
  BY <1>7, <1>13, Concat
<1>16. Len(s5) = l5
  BY <1>7, <1>14, <1>15
<1>17. HandshakeLength = l5
  BY DEF HandshakeLength, P
<1>18. /\ l2 \in Nat /\ l3 \in Nat /\ l4 \in Nat /\ l5 \in Nat \ {0} /\ 1 <= l2 /\ l2 <= l3
       /\ l3 <= l4 /\ l4 <= l5
  BY <1>1
<1> HIDE DEF s5, l2, l3, l4, l5
<1>19. ASSUME NEW x \in Seq(Byte), Len(x) >= l5, Seg(x, 0, l5) = s5
       PROVE  /\ x[1] = Len(P)
              /\ Seg(x, 1, l2) = P /\ Seg(x, l2, l3) = Z
              /\ Seg(x, l3, l4) = hash /\ Seg(x, l4, l5) = id
  <2>1. Seg(x, 0, l4) = s4 /\ Seg(x, l4, l5) = id
    <3>1. l4 = Len(s4) /\ l5 = l4 + Len(id) /\ l5 <= Len(x)
      BY <1>14, <1>15, <1>16, <1>18, <1>19
    <3>2. Seg(x, 0, l5) = s4 \o id
      BY <1>19 DEF s5
    <3>3. Begins(x, s4, id, l4, l5)
      BY <3>1, <3>2 DEF Begins
    <3> QED BY <1>7, <1>13, <3>3, Within
  <2>2. Seg(x, 0, l3) = s3 /\ Seg(x, l3, l4) = hash
    <3>1. l3 = Len(s3) /\ l4 = l3 + Len(hash) /\ l4 <= Len(x)
      BY <1>12, <1>13, <1>14, <1>18, <1>19
    <3>2. Seg(x, 0, l4) = s3 \o hash
      BY <2>1 DEF s4
    <3>3. Begins(x, s3, hash, l3, l4)
      BY <3>1, <3>2 DEF Begins
    <3> QED BY <1>6, <1>11, <3>3, Within
  <2>3. Seg(x, 0, l2) = s2 /\ Seg(x, l2, l3) = Z
    <3>1. l2 = Len(s2) /\ l3 = l2 + Len(Z) /\ l3 <= Len(x)
      BY <1>10, <1>11, <1>12, <1>18, <1>19
    <3>2. Seg(x, 0, l3) = s2 \o Z
      BY <2>2 DEF s3
    <3>3. Begins(x, s2, Z, l2, l3)
      BY <3>1, <3>2 DEF Begins
    <3> QED BY <1>5, <1>9, <3>3, Within
  <2>4. Seg(x, 0, 1) = one /\ Seg(x, 1, l2) = P
    <3>1. 1 = Len(one) /\ l2 = 1 + Len(P) /\ l2 <= Len(x)
      BY <1>4, <1>9, <1>10, <1>18, <1>19
    <3>2. Seg(x, 0, l2) = one \o P
      BY <2>3 DEF s2
    <3>3. Begins(x, one, P, 1, l2)
      BY <3>1, <3>2 DEF Begins
    <3> QED BY <1>1, <1>4, <3>3, Within
  <2>5. x[1] = Len(P)
    <3>1. 0 \in Nat /\ 1 \in Nat /\ 0 <= 1 /\ 1 <= Len(x) /\ 1 \in 1 .. 1 - 0 /\ 0 + 1 = 1
      BY <1>18, <1>19
    <3>2. Seg(x, 0, 1)[1] = x[0 + 1]
      BY <3>1, Part DEF Seg
    <3> QED BY <1>4, <2>4, <3>1, <3>2
  <2> QED BY <2>1, <2>2, <2>3, <2>4, <2>5
<1>20. ASSUME NEW x \in Seq(Byte), Len(x) >= l5, Seg(x, 0, l5) = s5
       PROVE  ReadHandshake(x) =
                <<[Protocol |-> P, Reserved |-> Z, InfoHash |-> hash, PeerID |-> id], From(x, l5)>>
  <2>1. 1 + x[1] = l2 /\ l2 + ReservedBytes = l3 /\ l3 + HashBytes = l4 /\ l4 + HashBytes = l5
    BY <1>19, <1>20 DEF l2, l3, l4, l5
  <2>2. x # <<>> /\ ~ Len(x) < l5
    <3>1. Len(<<>>) = 0 /\ Len(x) \in Nat
      OBVIOUS
    <3> QED BY <1>18, <1>20, <3>1
  <2>3. /\ SubSeq(x, 2, l2) = P /\ SubSeq(x, l2 + 1, l3) = Z
        /\ SubSeq(x, l3 + 1, l4) = hash /\ SubSeq(x, l4 + 1, l5) = id
    <3>1. 1 + 1 = 2
      OBVIOUS
    <3> QED BY <1>19, <1>20, <3>1 DEF Seg
  <2> QED BY <2>1, <2>2, <2>3 DEF ReadHandshake
<1>21. ASSUME NEW x \in Seq(Byte), Len(x) < l5, Len(x) > 0 => x[1] = Len(P)
       PROVE  ReadHandshake(x) = <<>>
  <2>1. CASE Len(x) = 0
    <3>1. x = <<>>
      BY <2>1, NoLength
    <3> QED BY <3>1 DEF ReadHandshake
  <2>2. CASE Len(x) > 0
    <3>1. 1 + x[1] = l2 /\ l2 + ReservedBytes = l3 /\ l3 + HashBytes = l4 /\ l4 + HashBytes = l5
      BY <1>21, <2>2 DEF l2, l3, l4, l5
    <3> QED BY <1>21, <3>1 DEF ReadHandshake
  <2> QED BY <2>1, <2>2
<1>22. s5[1] = Len(P)
  <2>1. Seg(s5, 0, l5) = s5 /\ Len(s5) >= l5
    BY <1>15, <1>16, <1>18, Whole
  <2> QED BY <1>15, <1>19, <2>1
<1> QED BY <1>8, <1>15, <1>16, <1>17, <1>18, <1>20, <1>21, <1>22 DEF P, Z

(***************************************************************************)
(* A reader stays in step with the writer wherever the connection breaks:  *)
(* for every torrent and peer, every sequence of messages that can be      *)
(* written and every number of bytes that arrive.                          *)
(***************************************************************************)
THEOREM StreamsStayInStep ==
  \A hash \in Ends, id \in Ends, messages \in Seq(Writable) : StaysInStep(hash, id, messages)
<1> SUFFICES ASSUME NEW hash \in Ends, NEW id \in Ends, NEW messages \in Seq(Writable)
             PROVE  StaysInStep(hash, id, messages)
  OBVIOUS
<1> DEFINE hand == writePeerHandshake(hash, id)
           stream == Written(messages)
           bytes == hand \o stream
           H == HandshakeLength
<1>1. SUFFICES ASSUME NEW cut \in 0 .. Len(bytes)
               PROVE  LET got == ReadHandshake(SubSeq(bytes, 1, cut))
                      IN  /\ cut = Len(bytes) => got # <<>> /\ readLoop(got[2]) = messages
                          /\ got # <<>> =>
                               /\ validatePeerHandshake(got[1], Own, Own) <=> hash = Own /\ id # Own
                               /\ IsPrefix(readLoop(got[2]), messages)
  BY DEF StaysInStep
<1>2. hand \in Seq(Byte) /\ Len(hand) = H /\ H \in Nat \ {0} /\ hand[1] = Len(PeerProtocol)
  BY HandshakeRead
<1>3. stream \in Seq(Byte)
  <2>1. PICK e : Marks(e, stream, messages)
    BY StreamWritten
  <2> QED BY <2>1 DEF Marks
<1> HIDE DEF stream, hand, H
<1>4. bytes \in Seq(Byte) /\ Len(bytes) = H + Len(stream) /\ Len(stream) \in Nat
  BY <1>2, <1>3, Concat
<1>5. Seg(bytes, 0, H) = hand /\ From(bytes, H) = stream
  BY <1>2, <1>3, Parts
<1>6. bytes[1] = Len(PeerProtocol)
  BY <1>2, <1>3, Concat
<1> DEFINE seen == Seg(bytes, 0, cut)
<1>7. cut \in Nat /\ 0 <= cut /\ cut <= Len(bytes)
  BY <1>4
<1> HIDE DEF bytes
<1>8. seen \in Seq(Byte) /\ Len(seen) = cut /\ (cut > 0 => seen[1] = bytes[1])
  <2>1. seen \in Seq(Byte) /\ Len(seen) = cut - 0
    BY <1>4, <1>7, Part DEF Seg
  <2>2. \A k \in 1 .. cut - 0 : seen[k] = bytes[0 + k]
    BY <1>4, <1>7, Part DEF Seg
  <2>3. cut > 0 => 1 \in 1 .. cut - 0 /\ 0 + 1 = 1
    BY <1>7
  <2> QED BY <1>7, <2>1, <2>2, <2>3
<1>9. SubSeq(bytes, 1, cut) = seen
  BY DEF Seg
<1> HIDE DEF seen
<1> DEFINE got == ReadHandshake(seen)
<1>10. CASE cut < H
  <2>1. got = <<>>
    BY <1>6, <1>7, <1>8, <1>10, HandshakeRead DEF H
  <2>2. cut # Len(bytes)
    BY <1>2, <1>4, <1>7, <1>10
  <2> QED BY <1>9, <2>1, <2>2
<1>11. CASE H <= cut
  <2> DEFINE h == [Protocol |-> PeerProtocol, Reserved |-> [k \in 1 .. ReservedBytes |-> 0],
                   InfoHash |-> hash, PeerID |-> id]
             c == cut - H
  <2>1. Seg(seen, 0, H) = hand
    <3>1. /\ 0 \in Nat /\ 0 <= H /\ H <= cut - 0 /\ H \in Nat /\ 0 + 0 = 0 /\ 0 + H = H
      BY <1>2, <1>7, <1>11
    <3>2. Seg(Seg(bytes, 0, cut), 0, H) = Seg(bytes, 0 + 0, 0 + H)
      BY <1>4, <1>7, <3>1, PartOfPart
    <3> QED BY <1>5, <3>1, <3>2 DEF seen
  <2>2. got = <<h, From(seen, H)>>
    BY <1>8, <1>11, <2>1, HandshakeRead DEF H, hand
  <2>3. c \in Nat /\ c \in 0 .. Len(stream) /\ (cut = Len(bytes) => c = Len(stream))
    BY <1>2, <1>4, <1>7, <1>11
  <2>4. From(seen, H) = Seg(stream, 0, c)
    <3>1. From(seen, H) = Seg(Seg(bytes, 0, cut), H, cut)
      BY <1>8 DEF From, Seg, seen
    <3>2. /\ 0 \in Nat /\ H \in Nat /\ H <= cut /\ cut <= cut - 0 /\ 0 + H = H /\ 0 + cut = cut
          /\ H <= Len(bytes) /\ Len(bytes) <= Len(bytes) /\ Len(bytes) \in Nat
          /\ 0 <= c /\ c <= Len(bytes) - H /\ H + 0 = H /\ H + c = cut
      BY <1>2, <1>4, <1>7, <1>11
    <3> HIDE DEF c
    <3>3. Seg(Seg(bytes, 0, cut), H, cut) = Seg(bytes, 0 + H, 0 + cut)
      BY <1>4, <1>7, <3>2, PartOfPart
    <3>4. Seg(bytes, H, Len(bytes)) = stream
      BY <1>5 DEF From, Seg
    <3>5. Seg(Seg(bytes, H, Len(bytes)), 0, c) = Seg(bytes, H + 0, H + c)
      BY <1>4, <2>3, <3>2, PartOfPart
    <3> QED BY <3>1, <3>2, <3>3, <3>4, <3>5
  <2>5. got # <<>> /\ got[1] = h /\ got[2] = Seg(stream, 0, c)
    BY <2>2, <2>4
  <2>6. validatePeerHandshake(h, Own, Own) <=> hash = Own /\ id # Own
    BY DEF validatePeerHandshake
  <2> HIDE DEF c, h, got
  <2>7. /\ IsPrefix(readLoop(Seg(stream, 0, c)), messages)
        /\ c = Len(stream) => readLoop(Seg(stream, 0, c)) = messages
    BY <2>3, ReaderInStep DEF stream
  <2>8. /\ cut = Len(bytes) => got # <<>> /\ readLoop(got[2]) = messages
        /\ got # <<>> =>
             /\ validatePeerHandshake(got[1], Own, Own) <=> hash = Own /\ id # Own
             /\ IsPrefix(readLoop(got[2]), messages)
    BY <2>3, <2>5, <2>6, <2>7
  <2> QED BY <1>9, <2>8 DEF got
<1> QED BY <1>2, <1>7, <1>10, <1>11

-----------------------------------------------------------------------------
(* Bitfields.                                                              *)

\* Half the quotient is the quotient by the double.
LEMMA HalfQuotient ==
  ASSUME NEW x \in Nat, NEW p \in Nat \ {0}
  PROVE  x \div (2 * p) = (x \div p) \div 2
<1> DEFINE q == x \div p
           r == x % p
           u == q \div 2
           s == q % 2
<1>1. q \in Nat /\ r \in 0 .. p - 1 /\ x = q * p + r
  OBVIOUS
<1> HIDE DEF q, r
<1>2. u \in Nat /\ s \in 0 .. 1 /\ q = 2 * u + s
  BY <1>1
<1> HIDE DEF u, s
<1> DEFINE B == 2 * p
           d == s * p + r
<1>3. B \in Nat \ {0}
  OBVIOUS
<1>4. d \in 0 .. B - 1
  <2>1. CASE s = 0
    BY <1>1, <2>1
  <2>2. CASE s = 1
    BY <1>1, <2>2
  <2> QED BY <1>2, <2>1, <2>2
<1>5. x = u * B + d
  <2>1. q * p = u * (2 * p) + s * p
    BY <1>1, <1>2
  <2>2. u * (2 * p) \in Nat /\ s * p \in Nat /\ q * p \in Nat
    BY <1>1, <1>2
  <2> QED BY <1>1, <2>1, <2>2
<1> HIDE DEF B, d
<1>6. (u * B + d) \div B = u
  BY <1>2, <1>3, <1>4, ByteDigits
<1> QED BY <1>5, <1>6 DEF B, u, q

\* What is a multiple more has that much more as quotient.
LEMMA QuotientMore ==
  ASSUME NEW b \in Nat, NEW p \in Nat \ {0}, NEW d \in Nat
  PROVE  (b + d * p) \div p = (b \div p) + d
<1> DEFINE q == b \div p
           r == b % p
<1>1. q \in Nat /\ r \in 0 .. p - 1 /\ b = q * p + r
  OBVIOUS
<1> HIDE DEF q, r
<1>2. b + d * p = (q + d) * p + r
  <2>1. (q + d) * p = q * p + d * p
    BY <1>1
  <2>2. q * p \in Nat /\ d * p \in Nat /\ (q + d) * p \in Nat
    BY <1>1
  <2> QED BY <1>1, <2>1, <2>2
<1>3. q + d \in Nat
  BY <1>1
<1>4. ((q + d) * p + r) \div p = q + d
  BY <1>1, <1>3, ByteDigits
<1> QED BY <1>2, <1>4 DEF q

\* The values of the bits of a byte.
Doubles(pow, n) == pow \in [0 .. n -> Nat \ {0}] /\ pow[0] = 1
                     /\ \A k \in 1 .. n : pow[k] = 2 * pow[k - 1]

\* The mask of a piece is the power of two of its place.
LEMMA MaskPower ==
  \E pow : /\ Doubles(pow, Bits - 1)
           /\ \A index \in Nat : Mask(index) = pow[(Bits - 1) - (index % Bits)]
<1> DEFINE n == Bits - 1
           S == Nat \ {0}
           G == [p \in (1 .. n) \X S |-> 2 * p[2]]
           shifted == CHOOSE f : f = [k \in 0 .. n |-> IF k = 0 THEN 1 ELSE 2 * f[k - 1]]
<1>1. n \in Nat /\ 1 \in S
  BY WireAssumption
<1>2. \A index \in Nat : Mask(index) = shifted[n - (index % Bits)]
  BY DEF Mask
<1> HIDE DEF n
<1>3. G \in [(1 .. n) \X S -> S]
  <2>1. ASSUME NEW p \in (1 .. n) \X S PROVE 2 * p[2] \in S
    <3>1. p[2] \in S
      OBVIOUS
    <3> QED BY <3>1
  <2> QED BY <2>1
<1>4. \A k \in 1 .. n, v \in S : G[<<k, v>>] = 2 * v
  OBVIOUS
<1> HIDE DEF G, S
<1>5. PICK f \in [0 .. n -> S] : f[0] = 1 /\ \A k \in 1 .. n : f[k] = G[<<k, f[k - 1]>>]
  <2>1. Solutions(S, 1, n, G) # {}
    BY <1>1, <1>3, Recursion
  <2> QED BY <2>1 DEF Solutions
<1>6. ASSUME NEW k \in 1 .. n PROVE f[k] = 2 * f[k - 1]
  <2>1. f[k - 1] \in S
    BY <1>1
  <2> QED BY <1>4, <1>5, <2>1
<1>7. f = [k \in 0 .. n |-> IF k = 0 THEN 1 ELSE 2 * f[k - 1]]
  BY <1>1, <1>5, <1>6
<1>8. shifted = [k \in 0 .. n |-> IF k = 0 THEN 1 ELSE 2 * shifted[k - 1]]
  BY <1>7
<1> HIDE DEF shifted
<1>9. shifted[0] = 1 /\ \A k \in 1 .. n : shifted[k] = 2 * shifted[k - 1]
  BY <1>1, <1>8
<1>10. \A k \in 0 .. n : shifted[k] = f[k]
  <2>1. Alike(shifted, f, n)
    BY <1>5, <1>6, <1>9 DEF Alike
  <2> QED BY <1>1, <2>1, OneSolution
<1>11. ASSUME NEW index \in Nat PROVE Mask(index) = f[n - (index % Bits)]
  <2>1. index % Bits \in 0 .. n
    BY WireAssumption DEF n
  <2>2. n - (index % Bits) \in 0 .. n
    BY <1>1, <2>1
  <2> QED BY <1>2, <1>10, <2>2
<1>12. Doubles(f, n)
  BY <1>5, <1>6 DEF Doubles, S
<1> QED BY <1>11, <1>12 DEF n

\* Whether the bit of this value is set.
Bit(b, p) == (b \div p) % 2 = 1

\* To add the value of a bit that is not set sets this bit and no other.
LEMMA SetBit ==
  ASSUME NEW n \in Nat, NEW pow, Doubles(pow, n), NEW b \in Nat, NEW i \in 0 .. n,
         ~ Bit(b, pow[i]), NEW j \in 0 .. n
  PROVE  Bit(b + pow[i], pow[j]) <=> j = i \/ Bit(b, pow[j])
<1> DEFINE p == pow[i]
           c == b + p
           q == b \div p
<1>1. \A k \in 0 .. n : pow[k] \in Nat \ {0}
  BY DEF Doubles
<1>2. \A k \in 1 .. n : pow[k] = 2 * pow[k - 1] /\ k - 1 \in 0 .. n /\ k \in 0 .. n
  BY DEF Doubles
<1>3. p \in Nat \ {0} /\ c \in Nat
  BY <1>1
<1>4. q \in Nat /\ q % 2 = 0
  <2>1. q \in Nat
    BY <1>3
  <2> HIDE DEF q
  <2>2. q % 2 = 0 \/ q % 2 = 1
    BY <2>1
  <2> QED BY <2>1, <2>2 DEF Bit, q
<1>5. c \div p = q + 1
  <2>1. (b + 1 * p) \div p = (b \div p) + 1
    BY <1>3, QuotientMore
  <2>2. 1 * p = p
    BY <1>3
  <2> QED BY <2>1, <2>2
<1> HIDE DEF c, q
<1>6. CASE j = i
  <2>1. (q + 1) % 2 = 1
    BY <1>4
  <2> QED BY <1>5, <1>6, <2>1 DEF Bit, c
<1>7. CASE j > i
  <2> DEFINE T == { k \in 0 .. n - (i + 1) : c \div pow[i + 1 + k] = b \div pow[i + 1 + k] }
  <2>1. n - (i + 1) \in Nat /\ i \in Nat
    BY <1>7
  <2>2. 0 \in T
    <3>1. i + 1 \in 1 .. n /\ (i + 1) - 1 = i /\ i + 1 + 0 = i + 1
      BY <2>1
    <3>2. pow[i + 1] = 2 * p
      BY <1>2, <3>1
    <3>3. c \div (2 * p) = (c \div p) \div 2 /\ b \div (2 * p) = (b \div p) \div 2
      BY <1>3, HalfQuotient
    <3>4. (q + 1) \div 2 = q \div 2
      BY <1>4
    <3>5. c \div pow[i + 1] = b \div pow[i + 1]
      BY <1>5, <3>2, <3>3, <3>4 DEF q
    <3> QED BY <2>1, <3>1, <3>5
  <2>3. ASSUME NEW k \in 1 .. n - (i + 1), k - 1 \in T PROVE k \in T
    <3> DEFINE h == i + 1 + k
    <3>1. h \in 1 .. n /\ h - 1 = i + 1 + (k - 1) /\ h - 1 \in 0 .. n /\ k \in 0 .. n - (i + 1)
      BY <2>1
    <3>2. c \div pow[h - 1] = b \div pow[h - 1]
      BY <2>3, <3>1
    <3> HIDE DEF h
    <3> DEFINE g == pow[h - 1]
    <3>3. pow[h] = 2 * g /\ g \in Nat \ {0}
      BY <1>1, <1>2, <3>1
    <3> HIDE DEF g
    <3>4. c \div (2 * g) = (c \div g) \div 2
      BY <1>3, <3>3, HalfQuotient
    <3>5. b \div (2 * g) = (b \div g) \div 2
      BY <3>3, HalfQuotient
    <3>6. c \div pow[h] = b \div pow[h]
      BY <3>2, <3>3, <3>4, <3>5 DEF g
    <3> QED BY <3>1, <3>6 DEF h
  <2> HIDE DEF T
  <2>4. \A k \in 0 .. n - (i + 1) : k \in T
    BY <2>1, <2>2, <2>3, Induction
  <2>5. j - (i + 1) \in 0 .. n - (i + 1) /\ i + 1 + (j - (i + 1)) = j
    BY <1>7, <2>1
  <2>6. c \div pow[j] = b \div pow[j]
    BY <2>4, <2>5 DEF T
  <2> QED BY <1>7, <2>6 DEF Bit, c
<1>8. CASE j < i
  <2> DEFINE T == { k \in 0 .. i - 1 : \E d \in Nat : p = (2 * d) * pow[(i - 1) - k] }
  <2>1. i - 1 \in Nat /\ i \in 1 .. n
    BY <1>8
  <2>2. 0 \in T
    <3>1. (i - 1) - 0 = i - 1 /\ 0 \in 0 .. i - 1 /\ 2 * 1 = 2
      BY <2>1
    <3>2. p = (2 * 1) * pow[(i - 1) - 0]
      BY <1>2, <2>1, <3>1
    <3> QED BY <3>1, <3>2
  <2>3. ASSUME NEW k \in 1 .. i - 1, k - 1 \in T PROVE k \in T
    <3> DEFINE h == i - k
               g == pow[h - 1]
    <3>1. /\ h \in 1 .. n /\ h = (i - 1) - (k - 1) /\ h - 1 = (i - 1) - k /\ h - 1 \in 0 .. n
          /\ k \in 0 .. i - 1
      BY <2>1
    <3>2. PICK d \in Nat : p = (2 * d) * pow[h]
      BY <2>3, <3>1
    <3> HIDE DEF h
    <3>3. pow[h] = 2 * g /\ g \in Nat \ {0}
      BY <1>1, <1>2, <3>1
    <3> HIDE DEF g
    <3>4. p = (2 * (2 * d)) * g /\ 2 * d \in Nat
      <4>1. (2 * d) * (2 * g) = (2 * (2 * d)) * g
        BY <3>2, <3>3
      <4> QED BY <3>2, <3>3, <4>1
    <3> QED BY <3>1, <3>4 DEF g
  <2> HIDE DEF T
  <2>4. \A k \in 0 .. i - 1 : k \in T
    BY <2>1, <2>2, <2>3, Induction
  <2>5. (i - 1) - j \in 0 .. i - 1 /\ (i - 1) - ((i - 1) - j) = j
    BY <1>8, <2>1
  <2>6. PICK d \in Nat : p = (2 * d) * pow[j]
    BY <2>4, <2>5 DEF T
  <2> DEFINE g == pow[j]
             x == b \div g
  <2>7. g \in Nat \ {0} /\ 2 * d \in Nat
    BY <1>1
  <2>8. c = b + (2 * d) * g
    BY <2>6 DEF c
  <2> HIDE DEF g
  <2>9. (b + (2 * d) * g) \div g = (b \div g) + 2 * d
    BY <2>7, QuotientMore
  <2>10. x \in Nat
    BY <2>7
  <2>11. c \div g = x + 2 * d
    BY <2>8, <2>9
  <2> HIDE DEF x
  <2>12. (x + 2 * d) % 2 = x % 2
    BY <2>10
  <2>13. Bit(c, g) <=> Bit(b, g)
    BY <2>11, <2>12 DEF Bit, x
  <2> QED BY <1>8, <2>13 DEF g, c
<1> QED BY <1>6, <1>7, <1>8

\* The places of a bit: its byte, and its value within it.
ByteOf(index) == index \div Bits
Place(index)  == (Bits - 1) - (index % Bits)

\* A bit has one byte and one place in it, and they have one bit.
LEMMA Places ==
  /\ Bits \in Nat \ {0}
  /\ \A i \in Nat : ByteOf(i) \in Nat /\ Place(i) \in 0 .. Bits - 1
  /\ \A i, j \in Nat : ByteOf(i) = ByteOf(j) /\ Place(i) = Place(j) => i = j
<1> DEFINE B == Bits
<1>1. B \in Nat \ {0}
  BY WireAssumption
<1>2. \A i \in Nat : i \div B \in Nat /\ i % B \in 0 .. B - 1 /\ i = B * (i \div B) + (i % B)
  BY <1>1
<1>3. \A i \in Nat : Place(i) = (B - 1) - (i % B)
  BY DEF Place
<1> HIDE DEF B, ByteOf
<1>4. ASSUME NEW i \in Nat PROVE i \div B \in Nat /\ Place(i) \in 0 .. B - 1
  <2>1. i % B \in 0 .. B - 1 /\ Place(i) = (B - 1) - (i % B) /\ i \div B \in Nat
    BY <1>2, <1>3
  <2> QED BY <1>1, <2>1
<1>5. ASSUME NEW i \in Nat, NEW j \in Nat, i \div B = j \div B, Place(i) = Place(j) PROVE i = j
  <2> DEFINE r == i % B
             t == j % B
             k == i \div B
  <2>1. /\ r \in 0 .. B - 1 /\ t \in 0 .. B - 1 /\ i = B * k + r /\ j = B * k + t
        /\ (B - 1) - r = (B - 1) - t
    <3>1. r \in 0 .. B - 1 /\ i = B * k + r /\ Place(i) = (B - 1) - r
      BY <1>2, <1>3
    <3>2. t \in 0 .. B - 1 /\ j = B * (j \div B) + t /\ Place(j) = (B - 1) - t
      BY <1>2, <1>3
    <3> QED BY <1>5, <3>1, <3>2
  <2> HIDE DEF r, t, k
  <2>2. r = t
    BY <1>1, <2>1
  <2> QED BY <2>1, <2>2
<1> QED BY <1>1, <1>4, <1>5 DEF B, ByteOf

\* The pieces of a bitfield.
Holds(bitfield, pieces) == \A i \in Nat : hasPiece(bitfield, i) <=> i \in pieces

\* A piece that is set is there, and the others are there as before.
LEMMA PieceSet ==
  ASSUME NEW bitfield \in Seq(Nat), NEW index \in Nat, NEW pieces, Holds(bitfield, pieces)
  PROVE  /\ setPiece(bitfield, index) \in Seq(Nat)
         /\ Holds(setPiece(bitfield, index), pieces \cup {index})
<1> DEFINE k == ByteOf(index)
           N == IF k >= Len(bitfield) THEN k + 1 ELSE Len(bitfield)
           grown == [i \in 1 .. N |-> IF i <= Len(bitfield) THEN bitfield[i] ELSE 0]
           set == [grown EXCEPT ![k + 1] = @ + Mask(index)]
<1>1. k \in Nat /\ Len(bitfield) \in Nat
  <2>1. Len(bitfield) \in Nat
    OBVIOUS
  <2> QED BY <2>1, Places
<1>2. PICK pow :
        /\ Doubles(pow, Bits - 1)
        /\ \A i \in Nat : Mask(i) = pow[Place(i)]
  BY MaskPower DEF Place
<1>3. Bits - 1 \in Nat /\ \A i \in Nat : Mask(i) \in Nat \ {0}
  <2>1. Bits - 1 \in Nat
    BY Places
  <2>2. ASSUME NEW i \in Nat PROVE Mask(i) \in Nat \ {0}
    <3>1. Mask(i) = pow[Place(i)] /\ Place(i) \in 0 .. Bits - 1
      BY <1>2, Places
    <3>2. pow \in [0 .. Bits - 1 -> Nat \ {0}]
      BY <1>2 DEF Doubles
    <3> QED BY <3>1, <3>2
  <2> QED BY <2>1, <2>2
<1>4. setPiece(bitfield, index) = IF hasPiece(grown, index) THEN grown ELSE set
  BY DEF setPiece, ByteOf
<1> HIDE DEF k
<1>5. N \in Nat /\ k + 1 \in 1 .. N /\ k < N /\ Len(bitfield) <= N
  BY <1>1
<1> HIDE DEF N
<1>6. /\ grown \in Seq(Nat) /\ Len(grown) = N /\ DOMAIN grown = 1 .. N
      /\ \A i \in 1 .. N : grown[i] = IF i <= Len(bitfield) THEN bitfield[i] ELSE 0
  <2>1. \A i \in 1 .. N : (IF i <= Len(bitfield) THEN bitfield[i] ELSE 0) \in Nat
    BY <1>1, <1>5
  <2>2. grown \in [1 .. N -> Nat]
    BY <2>1
  <2> QED BY <1>5, <2>2
<1> HIDE DEF grown
<1>7. \A i \in Nat : hasPiece(grown, i) <=> i \in pieces
  <2>1. SUFFICES ASSUME NEW i \in Nat PROVE hasPiece(grown, i) <=> hasPiece(bitfield, i)
    BY DEF Holds
  <2> DEFINE h == ByteOf(i)
             p == Mask(i)
  <2>2. h \in Nat /\ p \in Nat \ {0}
    BY <1>3, Places
  <2>3. hasPiece(grown, i) <=> h < Len(grown) /\ (grown[h + 1] \div p) % 2 = 1
    BY DEF hasPiece, ByteOf
  <2>4. hasPiece(bitfield, i) <=> h < Len(bitfield) /\ (bitfield[h + 1] \div p) % 2 = 1
    BY DEF hasPiece, ByteOf
  <2> HIDE DEF h, p
  <2>5. CASE h < Len(bitfield)
    <3>1. h + 1 \in 1 .. N /\ h + 1 <= Len(bitfield) /\ h < N
      BY <1>1, <1>5, <2>2, <2>5
    <3>2. grown[h + 1] = bitfield[h + 1]
      BY <1>6, <3>1
    <3> QED BY <1>6, <2>3, <2>4, <2>5, <3>1, <3>2
  <2>6. CASE ~ h < Len(bitfield)
    <3>1. 0 \div p = 0 /\ 0 % 2 = 0
      BY <2>2
    <3>2. h < N => grown[h + 1] = 0
      <4>1. h < N => h + 1 \in 1 .. N /\ ~ h + 1 <= Len(bitfield)
        BY <1>1, <1>5, <2>2, <2>6
      <4> QED BY <1>6, <4>1
    <3> QED BY <1>6, <2>3, <2>4, <2>6, <3>1, <3>2
  <2> QED BY <2>5, <2>6
<1>8. CASE hasPiece(grown, index)
  <2>1. index \in pieces
    BY <1>7, <1>8
  <2>2. \A i \in Nat : hasPiece(grown, i) <=> i \in pieces \cup {index}
    BY <1>7, <2>1
  <2> QED BY <1>4, <1>6, <1>8, <2>2 DEF Holds
<1>9. CASE ~ hasPiece(grown, index)
  <2> DEFINE b == grown[k + 1]
             m == Mask(index)
  <2>1. b \in Nat /\ m \in Nat \ {0} /\ m = pow[Place(index)] /\ Place(index) \in 0 .. Bits - 1
    <3>1. grown[k + 1] \in Nat
      BY <1>5, <1>6
    <3>2. Place(index) \in 0 .. Bits - 1
      BY Places
    <3> QED BY <1>2, <1>3, <3>1, <3>2
  <2>2. ~ Bit(b, m)
    <3>1. hasPiece(grown, index) <=> k < Len(grown) /\ (b \div m) % 2 = 1
      BY DEF hasPiece, k, ByteOf
    <3> QED BY <1>5, <1>6, <1>9, <3>1 DEF Bit
  <2>3. /\ set \in Seq(Nat) /\ Len(set) = N /\ set[k + 1] = b + m
        /\ \A i \in 1 .. N : i # k + 1 => set[i] = grown[i]
    <3>1. b + m \in Nat
      BY <2>1
    <3> HIDE DEF b, m
    <3>2. set = [grown EXCEPT ![k + 1] = b + m]
      BY DEF b, m
    <3> HIDE DEF set
    <3> QED BY <1>5, <1>6, <3>1, <3>2
  <2> HIDE DEF set, b, m
  <2>4. ASSUME NEW i \in Nat PROVE hasPiece(set, i) <=> i \in pieces \cup {index}
    <3> DEFINE h == ByteOf(i)
    <3>1. h \in Nat /\ Place(i) \in 0 .. Bits - 1 /\ Mask(i) = pow[Place(i)]
      BY <1>2, Places
    <3>2. hasPiece(set, i) <=> h < Len(set) /\ Bit(set[h + 1], Mask(i))
      BY DEF hasPiece, Bit, ByteOf
    <3>3. hasPiece(grown, i) <=> h < Len(grown) /\ Bit(grown[h + 1], Mask(i))
      BY DEF hasPiece, Bit, ByteOf
    <3>4. h = k /\ Place(i) = Place(index) <=> i = index
      BY Places DEF k
    <3> HIDE DEF h
    <3>5. CASE h = k
      <4>1. Bit(b + m, Mask(i)) <=> Place(i) = Place(index) \/ Bit(b, Mask(i))
        <5> DEFINE n == Bits - 1
        <5>1. n \in Nat /\ Doubles(pow, n) /\ Place(index) \in 0 .. n /\ Place(i) \in 0 .. n
          BY <1>2, <1>3, <2>1, <3>1
        <5>2. b \in Nat /\ ~ Bit(b, pow[Place(index)])
          BY <2>1, <2>2
        <5> HIDE DEF n
        <5>3. Bit(b + pow[Place(index)], pow[Place(i)]) <=> Place(i) = Place(index) \/ Bit(b, pow[Place(i)])
          BY <5>1, <5>2, SetBit
        <5> QED BY <2>1, <3>1, <5>3
      <4>2. hasPiece(set, i) <=> Bit(b + m, Mask(i))
        BY <1>5, <2>3, <3>2, <3>5
      <4>3. hasPiece(grown, i) <=> Bit(b, Mask(i))
        BY <1>5, <1>6, <3>3, <3>5 DEF b
      <4> QED BY <1>7, <3>4, <3>5, <4>1, <4>2, <4>3
    <3>6. CASE h # k
      <4>1. h < N => h + 1 \in 1 .. N /\ h + 1 # k + 1
        BY <1>1, <1>5, <3>1, <3>6
      <4>2. hasPiece(set, i) <=> hasPiece(grown, i)
        BY <1>6, <2>3, <3>2, <3>3, <4>1
      <4> QED BY <1>7, <3>4, <3>6, <4>2
    <3> QED BY <3>5, <3>6
  <2> QED BY <1>4, <1>9, <2>3, <2>4 DEF Holds
<1> QED BY <1>8, <1>9

\* A bitfield of a set of pieces has these.
LEMMA BitfieldOf ==
  ASSUME NEW count \in Nat, NEW complete \in SUBSET (0 .. count - 1)
  PROVE  /\ PiecesBitfield(count, complete) \in Seq(Nat)
         /\ Holds(PiecesBitfield(count, complete), complete)
<1> DEFINE S == Seq(Nat)
           first == [k \in 1 .. (count + Bits - 1) \div Bits |-> 0]
           Next1(s, k) == IF k - 1 \in complete THEN setPiece(s, k - 1) ELSE s
           bits == CHOOSE f : f = [n \in 0 .. count |-> IF n = 0 THEN first
                     ELSE IF n - 1 \in complete THEN setPiece(f[n - 1], n - 1) ELSE f[n - 1]]
<1>1. first \in S /\ Holds(first, {})
  <2> DEFINE N == (count + Bits - 1) \div Bits
  <2>1. N \in Nat
    <3>1. count + Bits - 1 \in Nat
      BY Places
    <3>2. ByteOf(count + Bits - 1) \in Nat
      BY <3>1, Places
    <3> QED BY <3>2 DEF ByteOf
  <2> HIDE DEF N
  <2>2. first \in Seq(Nat) /\ Len(first) = N /\ \A k \in 1 .. N : first[k] = 0
    <3>1. first = [k \in 1 .. N |-> 0]
      BY DEF N
    <3> HIDE DEF first
    <3> QED BY <2>1, <3>1
  <2>3. ASSUME NEW i \in Nat PROVE ~ hasPiece(first, i)
    <3> DEFINE h == ByteOf(i)
               p == Mask(i)
    <3>1. PICK pow : Doubles(pow, Bits - 1) /\ p = pow[Place(i)]
      BY MaskPower DEF Place
    <3>2. h \in Nat /\ p \in Nat \ {0}
      BY <3>1, Places DEF Doubles
    <3>3. hasPiece(first, i) => h < Len(first) /\ (first[h + 1] \div p) % 2 = 1
      BY DEF hasPiece, ByteOf
    <3> HIDE DEF h, p, first
    <3>4. h < Len(first) => first[h + 1] = 0
      <4>1. h < N => h + 1 \in 1 .. N
        BY <2>1, <3>2
      <4> QED BY <2>2, <4>1
    <3>5. 0 \div p = 0 /\ 0 % 2 = 0
      BY <3>2
    <3> QED BY <3>3, <3>4, <3>5
  <2> QED BY <2>2, <2>3 DEF Holds
<1>2. PiecesBitfield(count, complete) = bits[count]
  BY DEF PiecesBitfield
<1> DEFINE G == [p \in (1 .. count) \X S |-> Next1(p[2], p[1])]
<1>3. ASSUME NEW s \in S, NEW k \in 1 .. count PROVE Next1(s, k) \in S
  <2>1. k - 1 \in Nat
    OBVIOUS
  <2>2. Holds(s, { i \in Nat : hasPiece(s, i) })
    BY DEF Holds
  <2>3. setPiece(s, k - 1) \in Seq(Nat)
    BY <2>1, <2>2, PieceSet
  <2> QED BY <2>3
<1> HIDE DEF first
<1>4. bits = [n \in 0 .. count |-> IF n = 0 THEN first ELSE Next1(bits[n - 1], n)]
      /\ bits[0] = first /\ \A k \in 1 .. count : bits[k] = Next1(bits[k - 1], k)
  <2> DEFINE b2 == CHOOSE f : f = [n \in 0 .. count |-> IF n = 0 THEN first ELSE Next1(f[n - 1], n)]
  <2>1. bits = b2
    OBVIOUS
  <2> HIDE DEF bits
  <2>2. \A p \in (1 .. count) \X S : Next1(p[2], p[1]) \in S
    <3>1. SUFFICES ASSUME NEW p \in (1 .. count) \X S PROVE Next1(p[2], p[1]) \in S
      OBVIOUS
    <3>2. p[1] \in 1 .. count /\ p[2] \in S
      OBVIOUS
    <3> HIDE DEF Next1
    <3> QED BY <1>3, <3>2
  <2> HIDE DEF Next1, S
  <2>3. G \in [(1 .. count) \X S -> S]
    BY <2>2
  <2>4. \A k \in 1 .. count, s \in S : G[<<k, s>>] = Next1(s, k)
    OBVIOUS
  <2> HIDE DEF G
  <2>5. PICK f \in [0 .. count -> S] : f[0] = first /\ \A k \in 1 .. count : f[k] = G[<<k, f[k - 1]>>]
    <3>1. Solutions(S, first, count, G) # {}
      BY <1>1, <2>3, Recursion DEF S
    <3> QED BY <3>1 DEF Solutions
  <2>6. ASSUME NEW k \in 1 .. count PROVE f[k] = Next1(f[k - 1], k)
    <3>1. f[k - 1] \in S
      OBVIOUS
    <3> QED BY <2>4, <2>5, <3>1
  <2>7. f = [n \in 0 .. count |-> IF n = 0 THEN first ELSE Next1(f[n - 1], n)]
    <3>1. \A n \in 0 .. count : f[n] = IF n = 0 THEN first ELSE Next1(f[n - 1], n)
      BY <2>5, <2>6
    <3> QED BY <3>1
  <2>8. b2 = [n \in 0 .. count |-> IF n = 0 THEN first ELSE Next1(b2[n - 1], n)]
    BY <2>7
  <2> HIDE DEF b2
  <2>9. b2[0] = first /\ \A k \in 1 .. count : b2[k] = Next1(b2[k - 1], k)
    BY <2>8
  <2> QED BY <2>1, <2>8, <2>9
<1> HIDE DEF bits
<1> DEFINE T == { n \in 0 .. count : bits[n] \in S /\ Holds(bits[n], complete \cap (0 .. n - 1)) }
<1>5. 0 \in T
  <2>1. complete \cap (0 .. 0 - 1) = {}
    OBVIOUS
  <2>2. Holds(first, complete \cap (0 .. 0 - 1))
    BY <1>1, <2>1
  <2> QED BY <1>1, <1>4, <2>2
<1>6. ASSUME NEW n \in 1 .. count, n - 1 \in T PROVE n \in T
  <2> DEFINE s == bits[n - 1]
             old == complete \cap (0 .. (n - 1) - 1)
             new == complete \cap (0 .. n - 1)
  <2>1. s \in Seq(Nat) /\ Holds(s, old) /\ n - 1 \in Nat
    BY <1>6
  <2>2. bits[n] = Next1(s, n)
    BY <1>4
  <2>3. CASE n - 1 \in complete
    <3>1. new = old \cup {n - 1}
      BY <2>3
    <3>2. bits[n] = setPiece(s, n - 1)
      BY <2>2, <2>3
    <3> HIDE DEF s, old, new
    <3>3. setPiece(s, n - 1) \in Seq(Nat) /\ Holds(setPiece(s, n - 1), old \cup {n - 1})
      BY <2>1, PieceSet
    <3>4. bits[n] \in Seq(Nat) /\ Holds(bits[n], new)
      BY <3>1, <3>2, <3>3
    <3> QED BY <3>4 DEF new
  <2>4. CASE n - 1 \notin complete
    <3>1. new = old
      BY <2>4
    <3>2. bits[n] = s
      BY <2>2, <2>4
    <3> HIDE DEF s, old, new
    <3>3. bits[n] \in Seq(Nat) /\ Holds(bits[n], new)
      BY <2>1, <3>1, <3>2
    <3> QED BY <3>3 DEF new
  <2> QED BY <2>3, <2>4
<1> HIDE DEF T
<1>7. count \in T
  BY <1>5, <1>6, Induction
<1>8. complete \cap (0 .. count - 1) = complete
  OBVIOUS
<1> QED BY <1>2, <1>7, <1>8 DEF T

\* What is claimed is what the bitfield holds, and counted.
LEMMA HeldIsClaimed ==
  ASSUME NEW bitfield, NEW claimed \in SUBSET (0 .. MaxPieces - 1), Holds(bitfield, claimed)
  PROVE  ClaimsExact(bitfield, claimed)
<1>1. MaxPieces \in Nat
  BY ConnectionAssumption
<1>2. ASSUME NEW N \in Nat, 0 .. MaxPieces - 1 \subseteq 0 .. N
      PROVE  { i \in 0 .. N : hasPiece(bitfield, i) } = claimed
  <2>1. ASSUME NEW i \in 0 .. N PROVE hasPiece(bitfield, i) <=> i \in claimed
    <3>1. i \in Nat
      OBVIOUS
    <3> QED BY <3>1 DEF Holds
  <2>2. claimed \subseteq 0 .. N
    BY <1>2
  <2> QED BY <2>1, <2>2
<1>3. { i \in 0 .. 2 * MaxPieces : hasPiece(bitfield, i) } = claimed
  <2>1. 2 * MaxPieces \in Nat /\ 0 .. MaxPieces - 1 \subseteq 0 .. 2 * MaxPieces
    BY <1>1
  <2> QED BY <1>2, <2>1
<1>4. { i \in 0 .. MaxPieces - 1 : hasPiece(bitfield, i) } = claimed
  <2>1. ASSUME NEW i \in 0 .. MaxPieces - 1 PROVE hasPiece(bitfield, i) <=> i \in claimed
    <3>1. i \in Nat
      OBVIOUS
    <3> QED BY <3>1 DEF Holds
  <2> QED BY <2>1
<1> QED BY <1>3, <1>4, Zenon DEF ClaimsExact, bitCount

(***************************************************************************)
(* The inputs that are reached: bytes, messages that can be written, and   *)
(* claims that the bitfield holds, which is the invariant of setPiece and  *)
(* PiecesBitfield.                                                         *)
(***************************************************************************)
Frames  == [of : {"frame"}, bytes : Seq(Byte), faults : Nat]
Streams == [of : {"stream"}, hash : Ends, id : Ends, messages : Seq(Writable)]
Claims  == { s \in [of : {"claims"}, bitfield : Seq(Nat), claimed : SUBSET (0 .. MaxPieces - 1)] :
               Holds(s.bitfield, s.claimed) }

Reached == sample \in Frames \/ sample \in Streams \/ sample \in Claims

\* The first samples are in the invariant.
LEMMA ConnectionInitReached == ConnectionInit => Reached
<1> SUFFICES ASSUME ConnectionInit PROVE Reached
  OBVIOUS
<1>1. CASE FrameInit
  <2>1. PICK m \in Message : sample = [of |-> "frame", bytes |-> WriteMessage(m) \o <<0>>, faults |-> 0]
    BY <1>1 DEF FrameInit
  <2>2. WriteMessage(m) \in Seq(Byte)
    BY ConnectionAssumption, WritableFacts
  <2>3. <<0>> \in Seq(Byte)
    <3>1. 0 \in Byte
      BY ByteFacts DEF Byte
    <3> QED BY <3>1
  <2>4. WriteMessage(m) \o <<0>> \in Seq(Byte)
    BY <2>2, <2>3, Concat
  <2>5. sample \in Frames
    BY <2>1, <2>4 DEF Frames
  <2> QED BY <2>5 DEF Reached
<1>2. CASE StreamInit
  <2>1. sample \in Streams
    BY <1>2 DEF StreamInit, Streams
  <2> QED BY <2>1 DEF Reached
<1>3. CASE ClaimsInit
  <2>1. sample = [of |-> "claims", bitfield |-> <<>>, claimed |-> {}]
    BY <1>3 DEF ClaimsInit
  <2>2. Holds(<<>>, {})
    <3>1. ASSUME NEW i \in Nat PROVE ~ hasPiece(<<>>, i)
      <4>1. hasPiece(<<>>, i) => ByteOf(i) < 0
        BY DEF hasPiece, ByteOf
      <4>2. ByteOf(i) \in Nat
        BY Places
      <4> QED BY <4>1, <4>2
    <3> QED BY <3>1 DEF Holds
  <2>3. sample \in Claims
    BY <2>1, <2>2 DEF Claims
  <2> QED BY <2>3 DEF Reached
<1> QED BY <1>1, <1>2, <1>3 DEF ConnectionInit

\* Samples that grow stay in the invariant.
LEMMA ConnectionNextReached == Reached /\ [ConnectionNext]_sample => Reached'
<1> SUFFICES ASSUME Reached, [ConnectionNext]_sample PROVE Reached'
  OBVIOUS
<1>1. CASE ChangeByte
  <2>1. sample \in Frames
    BY <1>1 DEF Reached, ChangeByte, Is, Streams, Claims
  <2>2. PICK k \in DOMAIN sample.bytes, b \in NoiseByte :
          sample' = [sample EXCEPT !.bytes[k] = b, !.faults = @ + 1]
    BY <1>1 DEF ChangeByte
  <2>3. [sample.bytes EXCEPT ![k] = b] \in Seq(Byte)
    BY <2>1, ConnectionAssumption DEF Frames
  <2>4. sample' = [of |-> "frame", bytes |-> [sample.bytes EXCEPT ![k] = b], faults |-> sample.faults + 1]
    BY <2>1, <2>2 DEF Frames
  <2>5. sample' \in Frames
    BY <2>1, <2>3, <2>4 DEF Frames
  <2> QED BY <2>5 DEF Reached
<1>2. CASE LoseByte
  <2>1. sample \in Frames
    BY <1>2 DEF Reached, LoseByte, Is, Streams, Claims
  <2>2. PICK k \in DOMAIN sample.bytes :
          sample' = [sample EXCEPT !.bytes = RemoveAt(@, k), !.faults = @ + 1]
    BY <1>2 DEF LoseByte
  <2> DEFINE s == sample.bytes
  <2>3. RemoveAt(s, k) \in Seq(Byte)
    <3>1. s \in Seq(Byte) /\ k \in 1 .. Len(s) /\ Len(s) \in Nat
      BY <2>1 DEF Frames
    <3> HIDE DEF s
    <3>2. SubSeq(s, 1, k - 1) \in Seq(Byte)
      BY <3>1
    <3>3. SubSeq(s, k + 1, Len(s)) \in Seq(Byte)
      BY <3>1
    <3> QED BY <3>2, <3>3, Concat DEF RemoveAt
  <2>4. sample' = [of |-> "frame", bytes |-> RemoveAt(s, k), faults |-> sample.faults + 1]
    BY <2>1, <2>2 DEF Frames
  <2>5. sample' \in Frames
    BY <2>1, <2>3, <2>4 DEF Frames
  <2> QED BY <2>5 DEF Reached
<1>3. CASE SendMessage
  <2>1. sample \in Streams
    BY <1>3 DEF Reached, SendMessage, Is, Frames, Claims
  <2>2. PICK m \in Message : sample' = [sample EXCEPT !.messages = Append(@, m)]
    BY <1>3 DEF SendMessage
  <2>3. Append(sample.messages, m) \in Seq(Writable)
    BY <2>1, ConnectionAssumption DEF Streams
  <2>4. sample' \in Streams
    BY <2>1, <2>2, <2>3 DEF Streams
  <2> QED BY <2>4 DEF Reached
<1>4. CASE HaveArrives
  <2>1. sample \in Claims
    BY <1>4 DEF Reached, HaveArrives, Is, Frames, Streams
  <2>2. PICK i \in 0 .. MaxPieces - 1 :
          sample' = [sample EXCEPT !.bitfield = setPiece(@, i), !.claimed = @ \cup {i}]
    BY <1>4 DEF HaveArrives
  <2> DEFINE bitfield == setPiece(sample.bitfield, i)
             claimed  == sample.claimed \cup {i}
  <2>3. bitfield \in Seq(Nat) /\ Holds(bitfield, claimed)
    <3>1. i \in Nat /\ sample.bitfield \in Seq(Nat) /\ Holds(sample.bitfield, sample.claimed)
      BY <2>1, ConnectionAssumption DEF Claims
    <3> QED BY <3>1, PieceSet
  <2>4. claimed \in SUBSET (0 .. MaxPieces - 1)
    BY <2>1 DEF Claims
  <2>5. sample' = [of |-> "claims", bitfield |-> bitfield, claimed |-> claimed]
    BY <2>1, <2>2 DEF Claims
  <2> HIDE DEF bitfield, claimed
  <2>6. sample' \in Claims
    BY <2>3, <2>4, <2>5 DEF Claims
  <2> QED BY <2>6 DEF Reached
<1>5. CASE BitfieldArrives
  <2>1. sample \in Claims
    BY <1>5 DEF Reached, BitfieldArrives, Is, Frames, Streams
  <2>2. PICK complete \in SUBSET (0 .. MaxPieces - 1) :
          sample' = [sample EXCEPT !.bitfield = PiecesBitfield(MaxPieces, complete),
                                   !.claimed = complete]
    BY <1>5 DEF BitfieldArrives
  <2> DEFINE bitfield == PiecesBitfield(MaxPieces, complete)
  <2>3. bitfield \in Seq(Nat) /\ Holds(bitfield, complete)
    BY ConnectionAssumption, BitfieldOf
  <2>4. sample' = [of |-> "claims", bitfield |-> bitfield, claimed |-> complete]
    BY <2>1, <2>2 DEF Claims
  <2> HIDE DEF bitfield
  <2>5. sample' \in Claims
    BY <2>3, <2>4 DEF Claims
  <2> QED BY <2>5 DEF Reached
<1>6. CASE UNCHANGED sample
  BY <1>6 DEF Reached
<1> QED BY <1>1, <1>2, <1>3, <1>4, <1>5, <1>6 DEF ConnectionNext

\* What is reached is understood.
LEMMA ReachedUnderstood == Reached => PeersUnderstood
<1> SUFFICES ASSUME Reached PROVE PeersUnderstood
  OBVIOUS
<1>1. ASSUME Is("frame") PROVE Canonical(sample.bytes)
  <2>1. sample.bytes \in Seq(Byte)
    BY <1>1 DEF Reached, Is, Frames, Streams, Claims
  <2> QED BY <2>1, FramesAlwaysCanonical
<1>2. ASSUME Is("stream") PROVE StaysInStep(sample.hash, sample.id, sample.messages)
  <2>1. sample.hash \in Ends /\ sample.id \in Ends /\ sample.messages \in Seq(Writable)
    BY <1>2 DEF Reached, Is, Frames, Streams, Claims
  <2> QED BY <2>1, StreamsStayInStep
<1>3. ASSUME Is("claims") PROVE ClaimsExact(sample.bitfield, sample.claimed)
  <2>1. sample.claimed \in SUBSET (0 .. MaxPieces - 1) /\ Holds(sample.bitfield, sample.claimed)
    BY <1>3 DEF Reached, Is, Frames, Streams, Claims
  <2> QED BY <2>1, HeldIsClaimed
<1> QED BY <1>1, <1>2, <1>3 DEF PeersUnderstood

(***************************************************************************)
(* Two peers understand each other, for every size of a byte, a word and a *)
(* hash, every limit of the message size, and any number of faults and of  *)
(* messages: what ReadMessage accepts has one meaning, the reader stays in *)
(* step with the writer, and a peer's bitfield holds what it claims.       *)
(***************************************************************************)
THEOREM PeersAlwaysUnderstood == ConnectionSpec => []PeersUnderstood
<1>1. ConnectionSpec => []Reached
  BY ConnectionInitReached, ConnectionNextReached, PTL DEF ConnectionSpec
<1> QED BY <1>1, ReachedUnderstood, PTL

-----------------------------------------------------------------------------
(* Decimal numbers.                                                        *)

\* A digit is what it counts.
LEMMA DigitRead ==
  ASSUME NEW v \in 0 .. 9
  PROVE  Digits[v + 1] \in ToSet(Digits) /\ DigitValue(Digits[v + 1]) = v
<1>1. DOMAIN Digits = 1 .. 10
  BY DEF Digits
<1>2. Digits[v + 1] \in ToSet(Digits)
  BY <1>1 DEF ToSet
<1>3. \A u, w \in 0 .. 9 : Digits[u + 1] = Digits[w + 1] => u = w
  BY DEF Digits
<1> QED BY <1>2, <1>3 DEF DigitValue

\* What is left of a number after each digit, until nothing is.
Shifts(n) ==
  { f \in [0 .. n + 1 -> Nat] : f[0] = n /\ \A k \in 1 .. n + 1 : f[k] = f[k - 1] \div 10 }

\* A tenth is a natural number, less than a number that is not zero.
LEMMA Tenth ==
  ASSUME NEW a \in Nat
  PROVE  /\ a \div 10 \in Nat /\ a % 10 \in 0 .. 9 /\ a = (a \div 10) * 10 + (a % 10)
         /\ a \div 10 <= a /\ (a # 0 => a \div 10 <= a - 1)
<1> DEFINE q == a \div 10
           r == a % 10
<1>1. q \in Nat
  OBVIOUS
<1>2. r \in 0 .. 9
  OBVIOUS
<1>3. a = q * 10 + r
  OBVIOUS
<1> HIDE DEF q, r
<1>4. q <= a /\ (a # 0 => q <= a - 1)
  BY <1>1, <1>2, <1>3
<1> QED BY <1>1, <1>2, <1>3, <1>4 DEF q, r

\* There is a number of digits after which nothing is left.
LEMMA ShiftsEnd ==
  ASSUME NEW n \in Nat
  PROVE  \E f \in Shifts(n) : f[n + 1] = 0
<1> DEFINE G == [p \in (1 .. n + 1) \X Nat |-> p[2] \div 10]
<1>1. G \in [(1 .. n + 1) \X Nat -> Nat]
  BY Tenth
<1>2. \A k \in 1 .. n + 1, v \in Nat : G[<<k, v>>] = v \div 10
  OBVIOUS
<1> HIDE DEF G
<1>3. PICK f \in Solutions(Nat, n, n + 1, G) : TRUE
  <2>1. n + 1 \in Nat
    OBVIOUS
  <2> QED BY <1>1, <2>1, Recursion
<1>4. f \in [0 .. n + 1 -> Nat] /\ f[0] = n
  BY <1>3 DEF Solutions
<1>5. ASSUME NEW k \in 1 .. n + 1 PROVE f[k] = f[k - 1] \div 10 /\ f[k - 1] \in Nat
  <2>1. f[k - 1] \in Nat
    BY <1>4
  <2>2. f[k] = G[<<k, f[k - 1]>>]
    BY <1>3 DEF Solutions
  <2> QED BY <1>2, <2>1, <2>2
<1> DEFINE T == { k \in 0 .. n + 1 : f[k] = 0 \/ f[k] <= n - k }
<1>6. 0 \in T
  BY <1>4
<1>7. ASSUME NEW k \in 1 .. n + 1, k - 1 \in T PROVE k \in T
  <2> DEFINE a == f[k - 1]
  <2>1. a \in Nat /\ f[k] = a \div 10 /\ (a = 0 \/ a <= n - (k - 1))
    BY <1>5, <1>7
  <2> HIDE DEF a
  <2>2. CASE a = 0
    BY <2>1, <2>2
  <2>3. CASE a # 0
    <3>1. a \div 10 <= a - 1 /\ a \div 10 \in Nat
      BY <2>1, <2>3, Tenth
    <3>2. f[k] <= n - k
      BY <2>1, <2>3, <3>1
    <3> QED BY <3>2
  <2> QED BY <2>2, <2>3
<1> HIDE DEF T
<1>8. n + 1 \in T
  BY <1>6, <1>7, Induction
<1>9. f[n + 1] \in Nat
  BY <1>4
<1>10. f[n + 1] = 0
  BY <1>8, <1>9 DEF T
<1> QED BY <1>4, <1>5, <1>10 DEF Shifts

\* A number is written as its digits, at least one, from the highest on.
LEMMA Formatted ==
  ASSUME NEW n \in Nat
  PROVE  \E f \in Shifts(n), length \in 1 .. n + 1 :
           /\ f[length] = 0
           /\ FormatUint(n) = [k \in 1 .. length |-> Digits[(f[length - k] % 10) + 1]]
<1> DEFINE shifted == CHOOSE g : g = [k \in 0 .. n + 1 |-> IF k = 0 THEN n ELSE g[k - 1] \div 10]
           First(k) == shifted[k] = 0 /\ \A j \in 1 .. k - 1 : shifted[j] # 0
           length == CHOOSE k \in 1 .. n + 1 : First(k)
<1>1. FormatUint(n) = [k \in 1 .. length |-> Digits[(shifted[length - k] % 10) + 1]]
  BY DEF FormatUint
<1>2. PICK f \in Shifts(n) : f[n + 1] = 0
  BY ShiftsEnd
<1>3. f \in [0 .. n + 1 -> Nat] /\ f[0] = n /\ \A k \in 1 .. n + 1 : f[k] = f[k - 1] \div 10
  BY <1>2 DEF Shifts
<1>4. f = [k \in 0 .. n + 1 |-> IF k = 0 THEN n ELSE f[k - 1] \div 10]
  BY <1>3
<1>5. shifted = [k \in 0 .. n + 1 |-> IF k = 0 THEN n ELSE shifted[k - 1] \div 10]
  BY <1>4
<1> HIDE DEF shifted
<1>6. shifted[0] = n /\ \A k \in 1 .. n + 1 : shifted[k] = shifted[k - 1] \div 10
  BY <1>5
<1>7. \A k \in 0 .. n + 1 : shifted[k] = f[k]
  <2>1. Alike(shifted, f, n + 1) /\ n + 1 \in Nat
    BY <1>3, <1>6 DEF Alike
  <2> QED BY <2>1, OneSolution
<1>8. shifted = f
  BY <1>3, <1>5, <1>7
<1>9. \E k \in 1 .. n + 1 : First(k)
  <2> DEFINE F == { k \in 1 .. n + 1 : shifted[k] = 0 }
  <2>1. n + 1 \in F /\ F \subseteq Nat
    BY <1>2, <1>8
  <2>2. PICK x \in F : \A y \in F : ~ y < x
    <3> DEFINE R == OpToRel(<, Nat)
    <3> HIDE DEF F
    <3>1. \A x, y \in Nat : <<y, x>> \in R <=> y < x
      BY DEF OpToRel
    <3>2. IsWellFoundedOn(R, Nat)
      BY NatLessThanWellFounded
    <3> HIDE DEF R
    <3>3. PICK x \in F : \A y \in F : ~ (<<y, x>> \in R)
      BY <2>1, <3>2, WFMin
    <3> QED BY <2>1, <3>1, <3>3
  <2> QED BY <2>2
<1>10. length \in 1 .. n + 1 /\ First(length)
  BY <1>9
<1> HIDE DEF length
<1> QED BY <1>1, <1>2, <1>8, <1>10

\* A number that is written is read as the same number.
LEMMA ParsedBack ==
  ASSUME NEW n \in Nat
  PROVE  /\ FormatUint(n) # <<>> /\ AllDigits(FormatUint(n))
         /\ ParseUint(FormatUint(n)) = n
<1>1. PICK f \in Shifts(n), length \in 1 .. n + 1 :
        /\ f[length] = 0
        /\ FormatUint(n) = [k \in 1 .. length |-> Digits[(f[length - k] % 10) + 1]]
  BY Formatted
<1> DEFINE s == FormatUint(n)
<1>2. length \in Nat \ {0} /\ length <= n + 1 /\ f \in [0 .. n + 1 -> Nat] /\ f[0] = n
  BY DEF Shifts
<1>3. DOMAIN s = 1 .. length /\ Len(s) = length /\ s # <<>>
  <2>1. s = [k \in 1 .. length |-> Digits[(f[length - k] % 10) + 1]]
    BY <1>1
  <2> HIDE DEF s
  <2>2. s \in [1 .. length -> { Digits[v + 1] : v \in 0 .. 9 }]
    <3>1. ASSUME NEW k \in 1 .. length PROVE f[length - k] % 10 \in 0 .. 9
      <4>1. f[length - k] \in Nat
        BY <1>2
      <4> QED BY <4>1, Tenth
    <3> QED BY <2>1, <3>1
  <2> QED BY <1>2, <2>2
<1>4. ASSUME NEW k \in 1 .. length
      PROVE  /\ s[k] \in ToSet(Digits) /\ f[length - k] \in Nat
             /\ DigitValue(s[k]) = f[length - k] % 10
  <2>1. f[length - k] \in Nat
    BY <1>2
  <2>2. f[length - k] % 10 \in 0 .. 9
    BY <2>1, Tenth
  <2>3. s[k] = Digits[(f[length - k] % 10) + 1]
    BY <1>1
  <2> HIDE DEF s
  <2> QED BY <2>1, <2>2, <2>3, DigitRead
<1>5. AllDigits(s)
  <2> HIDE DEF s
  <2> QED BY <1>3, <1>4 DEF AllDigits
<1>6. ParseUint(s) = n
  <2> DEFINE value == CHOOSE g : g = [k \in 0 .. Len(s) |->
                        IF k = 0 THEN 0 ELSE g[k - 1] * 10 + DigitValue(s[k])]
             h == [k \in 0 .. length |-> f[length - k]]
  <2>1. ParseUint(s) = value[length]
    BY <1>3 DEF ParseUint
  <2> HIDE DEF s
  <2>2. h[0] = 0 /\ h[length] = n
    BY <1>1, <1>2
  <2>3. ASSUME NEW k \in 1 .. length PROVE h[k] = h[k - 1] * 10 + DigitValue(s[k])
    <3> DEFINE a == f[length - k]
    <3>1. h[k] = a /\ h[k - 1] = f[length - k + 1] /\ length - k + 1 \in 1 .. n + 1
          /\ (length - k + 1) - 1 = length - k
      BY <1>2
    <3>2. f[length - k + 1] = a \div 10
      BY <3>1 DEF Shifts
    <3>3. a \in Nat /\ DigitValue(s[k]) = a % 10
      BY <1>4
    <3> HIDE DEF a, h
    <3>4. a = (a \div 10) * 10 + (a % 10)
      BY <3>3, Tenth
    <3> QED BY <3>1, <3>2, <3>3, <3>4
  <2>4. h = [k \in 0 .. Len(s) |-> IF k = 0 THEN 0 ELSE h[k - 1] * 10 + DigitValue(s[k])]
    <3>1. \A k \in 0 .. length : h[k] = IF k = 0 THEN 0 ELSE h[k - 1] * 10 + DigitValue(s[k])
      <4> HIDE DEF h
      <4> QED BY <1>2, <2>2, <2>3
    <3> QED BY <1>3, <3>1
  <2>5. value = [k \in 0 .. Len(s) |-> IF k = 0 THEN 0 ELSE value[k - 1] * 10 + DigitValue(s[k])]
    BY <2>4
  <2> HIDE DEF value, h
  <2>6. value[0] = 0 /\ \A k \in 1 .. length : value[k] = value[k - 1] * 10 + DigitValue(s[k])
    BY <1>2, <1>3, <2>5
  <2>7. Alike(value, h, length)
    BY <2>2, <2>3, <2>6 DEF Alike
  <2>8. value[length] = h[length]
    BY <1>2, <2>7, OneSolution
  <2> QED BY <2>1, <2>2, <2>8
<1> QED BY <1>3, <1>5, <1>6

-----------------------------------------------------------------------------
(* Announces.                                                              *)

\* What a torrent announces: its ids, a port to connect to, and three uint64.
Requests ==
  [ok : {TRUE}, InfoHash : [1 .. IDBytes -> STRING], PeerID : [1 .. IDBytes -> STRING],
   Port : 1 .. PortValues - 1, Uploaded : 0 .. 2 * MaxInt64 + 1, Downloaded : 0 .. 2 * MaxInt64 + 1,
   Left : 0 .. 2 * MaxInt64 + 1, Compact : BOOLEAN, Event : Events]

\* A parameter with a number is read as the number.
LEMMA NumberRead ==
  ASSUME NEW query, NEW key, NEW n \in 0 .. 2 * MaxInt64 + 1,
         key \in DOMAIN query, query[key] = FormatUint(n)
  PROVE  parseUint64Query(query, key) = [ok |-> TRUE, n |-> n]
<1>1. n \in Nat /\ ~ n > 2 * MaxInt64 + 1
  BY DurationAssumption
<1>2. Get(query, key) = FormatUint(n)
  BY DEF Get
<1> QED BY <1>1, <1>2, ParsedBack DEF parseUint64Query

\* What a query says about each parameter, and which others it keeps.
LEMMA QueryBuilt ==
  ASSUME NEW base, NEW request \in Requests, NEW query, query = buildAnnounceUrl(base, request)
  PROVE  /\ \A key \in DOMAIN Parameters(request) \ {"event"} :
              key \in DOMAIN query /\ query[key] = Parameters(request)[key]
         /\ Get(query, "event") = request.Event
         /\ \A key \in DOMAIN base \ DOMAIN Parameters(request) :
              key \in DOMAIN query /\ query[key] = base[key]
<1> DEFINE set == Parameters(request)
<1>1. "event" \in DOMAIN set /\ set["event"] = request.Event
  BY DEF Parameters
<1>2. query = [key \in { k \in DOMAIN set \cup DOMAIN base : k = "event" => request.Event # <<>> } |->
                 IF key \in DOMAIN set THEN set[key] ELSE base[key]]
  BY DEF buildAnnounceUrl
<1> HIDE DEF set
<1>3. DOMAIN query = { k \in DOMAIN set \cup DOMAIN base : k = "event" => request.Event # <<>> }
  BY <1>2
<1>4. \A key \in DOMAIN query : query[key] = IF key \in DOMAIN set THEN set[key] ELSE base[key]
  BY <1>2, <1>3
<1>5. Get(query, "event") = request.Event
  BY <1>1, <1>3, <1>4 DEF Get
<1>6. ASSUME NEW key \in DOMAIN set \ {"event"} PROVE key \in DOMAIN query /\ query[key] = set[key]
  BY <1>3, <1>4
<1>7. ASSUME NEW key \in DOMAIN base \ DOMAIN set
      PROVE  key \in DOMAIN query /\ query[key] = base[key]
  BY <1>1, <1>3, <1>4
<1> QED BY <1>5, <1>6, <1>7 DEF set

(***************************************************************************)
(* The tracker understands every announce of every torrent: whatever       *)
(* parameters the announce URL has, parseAnnounceRequest reads from the    *)
(* query of buildAnnounceUrl the very request, and the parameters that no  *)
(* announce sets are passed on.                                            *)
(***************************************************************************)
THEOREM RequestsAlwaysUnderstood ==
  \A base : \A request \in Requests : Understood(base, request)
<1> SUFFICES ASSUME NEW base, NEW request \in Requests PROVE Understood(base, request)
  OBVIOUS
<1> DEFINE query == buildAnnounceUrl(base, request)
           set   == Parameters(request)
           names == { "info_hash", "peer_id", "port", "uploaded", "downloaded", "left", "compact" }
<1>1. /\ \A key \in DOMAIN set \ {"event"} : key \in DOMAIN query /\ query[key] = set[key]
      /\ Get(query, "event") = request.Event
      /\ \A key \in DOMAIN base \ DOMAIN set : key \in DOMAIN query /\ query[key] = base[key]
  BY QueryBuilt
<1>2. /\ names \subseteq DOMAIN set \ {"event"}
      /\ set["info_hash"] = request.InfoHash /\ set["peer_id"] = request.PeerID
      /\ set["port"] = FormatUint(request.Port)
      /\ set["uploaded"] = FormatUint(request.Uploaded)
      /\ set["downloaded"] = FormatUint(request.Downloaded)
      /\ set["left"] = FormatUint(request.Left)
      /\ set["compact"] = IF request.Compact THEN <<"1">> ELSE <<"0">>
  BY DEF Parameters
<1> HIDE DEF query, set
<1>3. names \subseteq DOMAIN query /\ \A key \in names : query[key] = set[key]
  BY <1>1, <1>2
<1>4. /\ request.Port \in 1 .. PortValues - 1 /\ request.Port \in 0 .. 2 * MaxInt64 + 1
      /\ request.Uploaded \in 0 .. 2 * MaxInt64 + 1
      /\ request.Downloaded \in 0 .. 2 * MaxInt64 + 1
      /\ request.Left \in 0 .. 2 * MaxInt64 + 1
  BY DurationAssumption, QueryAssumption DEF Requests
<1>5. parseUint64Query(query, "port") = [ok |-> TRUE, n |-> request.Port]
  BY <1>2, <1>3, <1>4, NumberRead
<1>6. parseUint64Query(query, "uploaded") = [ok |-> TRUE, n |-> request.Uploaded]
  BY <1>2, <1>3, <1>4, NumberRead
<1>7. parseUint64Query(query, "downloaded") = [ok |-> TRUE, n |-> request.Downloaded]
  BY <1>2, <1>3, <1>4, NumberRead
<1>8. parseUint64Query(query, "left") = [ok |-> TRUE, n |-> request.Left]
  BY <1>2, <1>3, <1>4, NumberRead
<1>9. parseUint16Query(query, "port") = [ok |-> TRUE, n |-> request.Port] /\ request.Port # 0
  <2>1. request.Port % PortValues = request.Port /\ request.Port # 0
    BY <1>4, QueryAssumption
  <2> DEFINE v == parseUint64Query(query, "port")
  <2>2. v.ok /\ v.n = request.Port
    BY <1>5
  <2>3. parseUint16Query(query, "port") = IF v.ok THEN [ok |-> TRUE, n |-> v.n % PortValues] ELSE Failed
    BY DEF parseUint16Query
  <2> HIDE DEF v
  <2> QED BY <2>1, <2>2, <2>3
<1>10. /\ Get(query, "info_hash") = request.InfoHash /\ Get(query, "peer_id") = request.PeerID
       /\ Len(request.InfoHash) = IDBytes /\ Len(request.PeerID) = IDBytes
  <2>1. Get(query, "info_hash") = request.InfoHash /\ Get(query, "peer_id") = request.PeerID
    BY <1>2, <1>3 DEF Get
  <2>2. \A id \in [1 .. IDBytes -> STRING] : Len(id) = IDBytes
    BY QueryAssumption
  <2>3. request.InfoHash \in [1 .. IDBytes -> STRING] /\ request.PeerID \in [1 .. IDBytes -> STRING]
    BY DEF Requests
  <2> QED BY <2>1, <2>2, <2>3
<1>11. (Get(query, "compact") = <<"1">>) = request.Compact
  <2>1. Get(query, "compact") = IF request.Compact THEN <<"1">> ELSE <<"0">>
    BY <1>2, <1>3 DEF Get
  <2>2. request.Compact \in BOOLEAN
    BY DEF Requests
  <2>3. <<"1">> # <<"0">>
    OBVIOUS
  <2> QED BY <2>1, <2>2, <2>3
<1>12. request.Event \in Events
  BY DEF Requests
<1>13. query["info_hash"] = request.InfoHash /\ query["peer_id"] = request.PeerID
  BY <1>2, <1>3
<1>14. parseAnnounceRequest(query) =
         [ok |-> TRUE, InfoHash |-> request.InfoHash, PeerID |-> request.PeerID,
          Port |-> request.Port, Uploaded |-> request.Uploaded, Downloaded |-> request.Downloaded,
          Left |-> request.Left, Compact |-> request.Compact, Event |-> request.Event]
  <2> DEFINE port       == parseUint16Query(query, "port")
             uploaded   == parseUint64Query(query, "uploaded")
             downloaded == parseUint64Query(query, "downloaded")
             left       == parseUint64Query(query, "left")
             accepted   ==
               /\ Len(Get(query, "info_hash")) = IDBytes /\ Len(Get(query, "peer_id")) = IDBytes
               /\ port.ok /\ uploaded.ok /\ downloaded.ok /\ left.ok
               /\ port.n # 0 /\ Get(query, "event") \in Events
             result ==
               [ok |-> TRUE, InfoHash |-> query["info_hash"], PeerID |-> query["peer_id"],
                Port |-> port.n, Uploaded |-> uploaded.n, Downloaded |-> downloaded.n,
                Left |-> left.n, Compact |-> Get(query, "compact") = <<"1">>,
                Event |-> Get(query, "event")]
  <2>1. port.ok /\ uploaded.ok /\ downloaded.ok /\ left.ok
    BY <1>6, <1>7, <1>8, <1>9
  <2>2. /\ port.n = request.Port /\ uploaded.n = request.Uploaded
        /\ downloaded.n = request.Downloaded /\ left.n = request.Left
    BY <1>6, <1>7, <1>8, <1>9
  <2>3. parseAnnounceRequest(query) = IF accepted THEN result ELSE Failed
    BY DEF parseAnnounceRequest
  <2> HIDE DEF port, uploaded, downloaded, left
  <2>4. accepted
    BY <1>1, <1>9, <1>10, <1>12, <2>1, <2>2
  <2>5. parseAnnounceRequest(query) = result
    BY <2>3, <2>4
  <2> QED BY <1>1, <1>11, <1>13, <2>2, <2>5
<1>15. request = [ok |-> TRUE, InfoHash |-> request.InfoHash, PeerID |-> request.PeerID,
          Port |-> request.Port, Uploaded |-> request.Uploaded, Downloaded |-> request.Downloaded,
          Left |-> request.Left, Compact |-> request.Compact, Event |-> request.Event]
  BY DEF Requests
<1> QED BY <1>1, <1>14, <1>15 DEF Understood, query, set

(***************************************************************************)
(* No answer of any tracker makes the loop announce without a pause or     *)
(* sooner than it asked: for every number of seconds that                  *)
(* decodeAnnounceResponse accepts, the duration does not wrap around, and  *)
(* the timer is at least a second and at least that long.                  *)
(***************************************************************************)
THEOREM TimersNeverBusy ==
  \A n \in Int : IntervalInRange(n) =>
    IntervalOf(n) = n * Second /\ TimerSound(n, IntervalOf(n))
<1> SUFFICES ASSUME NEW n \in Int, IntervalInRange(n)
             PROVE  IntervalOf(n) = n * Second /\ TimerSound(n, IntervalOf(n))
  OBVIOUS
<1> DEFINE q == MaxInt64 \div Second
           d == n * Second
<1>1. n \in Nat /\ n <= q /\ q \in Nat /\ q * Second <= MaxInt64
  BY DurationAssumption DEF IntervalInRange
<1>2. d \in Nat /\ d <= q * Second
  BY <1>1, DurationAssumption
<1>3. d \in 0 .. MaxInt64 /\ MaxInt64 \in Nat /\ Second \in Nat \ {0}
  BY <1>1, <1>2, DurationAssumption
<1>4. d >= Second \/ (d < Second /\ 30 * Second >= Second /\ 30 * Second >= d)
  <2> HIDE DEF d
  <2> QED BY <1>3
<1> HIDE DEF d
<1>5. Int64(d) = d
  BY <1>3 DEF Int64
<1> QED BY <1>3, <1>4, <1>5 DEF IntervalOf, TimerSound, normalizeTrackerInterval, d
=============================================================================
