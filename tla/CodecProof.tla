----------------------------- MODULE CodecProof -----------------------------
(***************************************************************************)
(* The codec and the header lose nothing, for any base, any widths of the  *)
(* fields and any limits.  An integer is read back as it was written: the  *)
(* value of the bytes read so far and what was left of the integer when    *)
(* they were written are the same number.  A datagram is then a string in  *)
(* which each field stands at its place, and reading a field gives what    *)
(* stands there.                                                           *)
(***************************************************************************)
EXTENDS Codec, SequenceTheorems, WellFoundedInduction, TLAPS

\* A set of natural numbers has a least element.
LEMMA LeastNatural ==
    ASSUME NEW T \in SUBSET Nat, T # {}
    PROVE  \E k \in T : \A j \in T : k <= j
<1>1. PICK k \in T : \A j \in T : ~(<<j, k>> \in OpToRel(<, Nat))
  BY WFMin, NatLessThanWellFounded, Zenon
<1>2. \A j \in T : ~(j < k)
  BY <1>1 DEF OpToRel
<1> QED BY <1>2

\* Induction over m .. n: a set that holds m and the successor of each of its
\* members below n holds them all.
LEMMA Upwards ==
    ASSUME NEW m \in Nat, NEW n \in Nat, NEW S, m \in S,
           \A i \in m .. n : i \in S /\ i < n => i + 1 \in S
    PROVE  \A i \in m .. n : i \in S
<1> DEFINE T == {i \in m .. n : i \notin S}
<1> SUFFICES ASSUME T # {} PROVE FALSE
  OBVIOUS
<1>1. T \in SUBSET Nat
  OBVIOUS
<1>2. PICK k \in T : \A j \in T : k <= j
  BY <1>1, LeastNatural
<1>3. k \in m .. n /\ k # m
  BY <1>2
<1>4. k - 1 \in m .. n /\ k - 1 < n /\ k - 1 \notin T
  BY <1>2, <1>3
<1>5. (k - 1) + 1 \in S
  BY <1>4
<1> QED BY <1>2, <1>3, <1>5

\* A function that starts at a and goes on with g.
Runs(f, m, n, a, g) == f[m] = a /\ \A i \in m .. n : i # m => f[i] = g[i][f[i - 1]]

\* A function defined by recursion over m .. n exists: a recursive definition says
\* what it seems to say only for a function that is there to be chosen.
LEMMA Recursion ==
    ASSUME NEW m \in Nat, NEW n \in Nat, m <= n, NEW V, NEW a \in V,
           NEW g \in [m .. n -> [V -> V]]
    PROVE  \E f : Runs(f, m, n, a, g) /\ f \in [m .. n -> V]
<1> DEFINE Good(k) == \E f \in [m .. k -> V] :
                         f[m] = a /\ \A i \in m .. k : i # m => f[i] = g[i][f[i - 1]]
           S == {k \in m .. n : Good(k)}
<1>1. m \in S
  <2> DEFINE h == [i \in m .. m |-> a]
  <2>1. h \in [m .. m -> V] /\ h[m] = a /\ \A i \in m .. m : i = m
    OBVIOUS
  <2> HIDE DEF h
  <2>2. Good(m)
    BY <2>1
  <2> QED BY <2>2
<1>2. ASSUME NEW k \in m .. n, k \in S, k < n PROVE k + 1 \in S
  <2>1. PICK f \in [m .. k -> V] : f[m] = a /\ \A i \in m .. k : i # m => f[i] = g[i][f[i - 1]]
    BY <1>2
  <2> DEFINE h == [i \in m .. (k + 1) |-> IF i = k + 1 THEN g[k + 1][f[k]] ELSE f[i]]
  <2>2. k + 1 \in m .. n /\ k \in m .. k /\ m \in m .. k
    BY <1>2
  <2>3. g[k + 1] \in [V -> V] /\ f[k] \in V
    BY <2>2
  <2>4. g[k + 1][f[k]] \in V
    BY <2>3
  <2>5. h \in [m .. (k + 1) -> V]
    BY <2>4
  <2>6. h[m] = a
    BY <2>1
  <2>7. ASSUME NEW i \in m .. (k + 1), i # m PROVE h[i] = g[i][h[i - 1]]
    <3>1. i - 1 \in m .. k /\ h[i - 1] = f[i - 1]
      BY <2>7
    <3>2. CASE i = k + 1
      <4>1. i - 1 = k /\ h[i] = g[k + 1][f[k]]
        BY <3>2
      <4> QED BY <3>1, <3>2, <4>1
    <3>3. CASE i # k + 1
      <4>1. i \in m .. k /\ h[i] = f[i]
        BY <3>3
      <4> QED BY <2>1, <2>7, <3>1, <4>1
    <3> QED BY <3>2, <3>3
  <2> HIDE DEF h
  <2>8. Good(k + 1)
    BY <2>5, <2>6, <2>7
  <2> HIDE DEF Good
  <2> QED BY <2>2, <2>8
<1> HIDE DEF S, Runs
<1>3. \A i \in m .. n : i \in S
  BY <1>1, <1>2, Upwards
<1>4. n \in S
  BY <1>3
<1> QED BY <1>4 DEF S, Runs

\* The powers of Base.
Pow(w) == CHOOSE f : f = [i \in 0 .. w |-> IF i = 0 THEN 1 ELSE Base * f[i - 1]]

\* The powers are what their definition says, and positive.
LEMMA PowIs ==
    ASSUME NEW w \in Nat
    PROVE  /\ \A i \in 0 .. w : Pow(w)[i] \in Nat \ {0}
           /\ Pow(w)[0] = 1
           /\ \A i \in 0 .. w : i # 0 => Pow(w)[i] = Base * Pow(w)[i - 1]
<1> DEFINE V == Nat \ {0}
           g == [i \in 0 .. w |-> [x \in V |-> Base * x]]
           Body(f) == [i \in 0 .. w |-> IF i = 0 THEN 1 ELSE Base * f[i - 1]]
<1>1. g \in [0 .. w -> [V -> V]]
  BY CodecAssumption
<1>2. PICK f \in [0 .. w -> V] : Runs(f, 0, w, 1, g)
  <2>1. 0 \in Nat /\ 0 <= w /\ 1 \in V
    OBVIOUS
  <2> HIDE DEF g, V
  <2> QED BY <1>1, <2>1, Recursion
<1>3. f = Body(f)
  <2>1. ASSUME NEW i \in 0 .. w PROVE f[i] = IF i = 0 THEN 1 ELSE Base * f[i - 1]
    <3>1. CASE i # 0
      <4>1. i - 1 \in 0 .. w /\ f[i - 1] \in V
        BY <3>1
      <4> QED BY <1>2, <3>1, <4>1 DEF Runs
    <3> QED BY <1>2, <3>1 DEF Runs
  <2> QED BY <2>1
<1>4. Pow(w) = Body(Pow(w))
  BY <1>3, Zenon DEF Pow
<1> HIDE DEF Pow
<1>5. Pow(w)[0] = 1 /\ \A i \in 0 .. w : i # 0 => Pow(w)[i] = Base * Pow(w)[i - 1]
  BY <1>4
<1> DEFINE S == {i \in 0 .. w : Pow(w)[i] \in V}
<1>6. 0 \in S
  BY <1>5
<1>7. ASSUME NEW i \in 0 .. w, i \in S, i < w PROVE i + 1 \in S
  <2>1. i + 1 \in 0 .. w /\ Pow(w)[i + 1] = Base * Pow(w)[i]
    BY <1>5, <1>7
  <2> QED BY <1>7, <2>1, CodecAssumption
<1> HIDE DEF S
<1>8. \A i \in 0 .. w : i \in S
  BY <1>6, <1>7, Upwards
<1> QED BY <1>5, <1>8 DEF S

\* What UInt names.
LEMMA UIntIs ==
    ASSUME NEW w
    PROVE  UInt(w) = 0 .. (Pow(w)[w] - 1)
BY Zenon DEF UInt, Pow

\* Multiplying by the base keeps the order.
LEMMA TimesBase ==
    ASSUME NEW x \in Nat, NEW y \in Nat, x <= y
    PROVE  /\ Base * x \in Nat /\ Base * y \in Nat /\ Base * x <= Base * y
<1>1. Base \in Nat \ {0}
  BY CodecAssumption
<1> QED BY <1>1

\* One more byte.
LEMMA OneMoreByte ==
    ASSUME NEW x \in Nat, NEW b \in Byte
    PROVE  /\ x * Base + b \in Nat
           /\ \A p \in Nat : x < p => x * Base + b < Base * p
           /\ (x * Base + b) \div Base = x /\ (x * Base + b) % Base = b
<1>1. Base \in Nat \ {0} /\ b \in 0 .. (Base - 1)
  BY CodecAssumption DEF Byte
<1>2. (x * Base + b) \div Base = x /\ (x * Base + b) % Base = b
  BY <1>1
<1>3. x * Base \in Nat /\ Base * (x + 1) = x * Base + Base
  BY <1>1
<1>4. ASSUME NEW p \in Nat, x < p PROVE x * Base + b < Base * p
  <2>1. x + 1 \in Nat /\ x + 1 <= p
    BY <1>4
  <2>2. Base * (x + 1) <= Base * p /\ Base * p \in Nat
    BY <2>1, TimesBase
  <2> QED BY <1>1, <1>3, <2>2
<1> QED BY <1>1, <1>2, <1>3, <1>4

\* Dividing by the base.
LEMMA DivBase ==
    ASSUME NEW x \in Nat
    PROVE  /\ x \div Base \in Nat /\ x % Base \in Byte
           /\ x = (x \div Base) * Base + (x % Base)
           /\ \A p \in Nat : x < Base * p => x \div Base < p
<1> DEFINE q == x \div Base
           r == x % Base
<1>1. Base \in Nat \ {0}
  BY CodecAssumption
<1>2. q \in Nat /\ r \in 0 .. (Base - 1) /\ x = Base * q + r
  BY <1>1
<1> HIDE DEF q, r
<1>3. ASSUME NEW p \in Nat, x < Base * p PROVE q < p
  <2> SUFFICES ASSUME p <= q PROVE FALSE
    BY <1>2
  <2>1. Base * p <= Base * q /\ Base * p \in Nat /\ Base * q \in Nat
    BY <1>2, TimesBase
  <2> QED BY <1>2, <1>3, <2>1
<1>4. Base * q = q * Base
  BY <1>1, <1>2
<1>5. q \in Nat /\ r \in Byte /\ x = q * Base + r
  BY <1>2, <1>4 DEF Byte
<1>6. \A p \in Nat : x < Base * p => q < p
  BY <1>3
<1> QED BY <1>5, <1>6 DEF q, r

\* What is left of n after its lowest bytes are written.
Rest(n, w) == CHOOSE f : f = [i \in 0 .. w |-> IF i = 0 THEN n ELSE f[i - 1] \div Base]

\* What is left of an integer, and the bytes it is written as (to_be_bytes).
LEMMA RestIs ==
    ASSUME NEW w \in Nat, NEW n \in Nat
    PROVE  /\ \A i \in 0 .. w : Rest(n, w)[i] \in Nat
           /\ Rest(n, w)[0] = n
           /\ \A i \in 0 .. w : i # 0 => Rest(n, w)[i] = Rest(n, w)[i - 1] \div Base
           /\ ToBytes(n, w) \in [1 .. w -> Byte]
           /\ \A i \in 1 .. w : ToBytes(n, w)[i] = Rest(n, w)[w - i] % Base
<1> DEFINE g == [i \in 0 .. w |-> [x \in Nat |-> x \div Base]]
           Body(f) == [i \in 0 .. w |-> IF i = 0 THEN n ELSE f[i - 1] \div Base]
<1>1. g \in [0 .. w -> [Nat -> Nat]]
  BY DivBase
<1>2. PICK f \in [0 .. w -> Nat] : Runs(f, 0, w, n, g)
  <2>1. 0 \in Nat /\ 0 <= w
    OBVIOUS
  <2> HIDE DEF g
  <2> QED BY <1>1, <2>1, Recursion
<1>3. f = Body(f)
  <2>1. ASSUME NEW i \in 0 .. w PROVE f[i] = IF i = 0 THEN n ELSE f[i - 1] \div Base
    <3>1. CASE i # 0
      <4>1. i - 1 \in 0 .. w /\ f[i - 1] \in Nat
        BY <3>1
      <4> QED BY <1>2, <3>1, <4>1 DEF Runs
    <3> QED BY <1>2, <3>1 DEF Runs
  <2> QED BY <2>1
<1> DEFINE R == Rest(n, w)
<1>4. R = Body(R)
  BY <1>3, Zenon DEF Rest
<1>5. ToBytes(n, w) = [i \in 1 .. w |-> R[w - i] % Base]
  BY Zenon DEF ToBytes, Rest
<1> HIDE DEF R
<1>6. R[0] = n /\ \A i \in 0 .. w : i # 0 => R[i] = R[i - 1] \div Base
  BY <1>4
<1> DEFINE S == {i \in 0 .. w : R[i] \in Nat}
<1>7. 0 \in S
  BY <1>6
<1>8. ASSUME NEW i \in 0 .. w, i \in S, i < w PROVE i + 1 \in S
  <2>1. i + 1 \in 0 .. w /\ R[i + 1] = R[i] \div Base
    BY <1>6, <1>8
  <2> QED BY <1>8, <2>1, DivBase
<1> HIDE DEF S
<1>9. \A i \in 0 .. w : i \in S
  BY <1>7, <1>8, Upwards
<1>10. \A i \in 0 .. w : R[i] \in Nat
  BY <1>9 DEF S
<1>11. ASSUME NEW i \in 1 .. w PROVE R[w - i] % Base \in Byte
  <2>1. w - i \in 0 .. w
    OBVIOUS
  <2> QED BY <1>10, <2>1, DivBase
<1> QED BY <1>6, <1>5, <1>10, <1>11 DEF R

\* The value of the first bytes of bs.
Val(bs) == CHOOSE f : f = [i \in 0 .. Len(bs) |-> IF i = 0 THEN 0 ELSE f[i - 1] * Base + bs[i]]

\* The value of bytes, byte by byte (from_be_bytes).
LEMMA ValIs ==
    ASSUME NEW w \in Nat, NEW bs \in [1 .. w -> Byte]
    PROVE  /\ Len(bs) = w
           /\ \A i \in 0 .. w : Val(bs)[i] \in Nat
           /\ Val(bs)[0] = 0
           /\ \A i \in 0 .. w : i # 0 => Val(bs)[i] = Val(bs)[i - 1] * Base + bs[i]
           /\ FromBytes(bs) = Val(bs)[w]
<1> DEFINE g == [i \in 0 .. w |-> [x \in Nat |-> IF i = 0 THEN 0 ELSE x * Base + bs[i]]]
           Body(f) == [i \in 0 .. w |-> IF i = 0 THEN 0 ELSE f[i - 1] * Base + bs[i]]
<1>1. Len(bs) = w
  <2>1. bs \in Seq(Byte)
    BY SeqDef
  <2> QED BY <2>1, LenProperties
<1>2. g \in [0 .. w -> [Nat -> Nat]]
  <2>1. ASSUME NEW i \in 0 .. w, i # 0, NEW x \in Nat PROVE x * Base + bs[i] \in Nat
    <3>1. bs[i] \in Byte
      BY <2>1
    <3> QED BY <3>1, CodecAssumption DEF Byte
  <2> QED BY <2>1
<1>3. PICK f \in [0 .. w -> Nat] : Runs(f, 0, w, 0, g)
  <2>1. 0 \in Nat /\ 0 <= w
    OBVIOUS
  <2> HIDE DEF g
  <2> QED BY <1>2, <2>1, Recursion
<1>4. f = Body(f)
  <2>1. ASSUME NEW i \in 0 .. w PROVE f[i] = IF i = 0 THEN 0 ELSE f[i - 1] * Base + bs[i]
    <3>1. CASE i # 0
      <4>1. i - 1 \in 0 .. w /\ f[i - 1] \in Nat
        BY <3>1
      <4> QED BY <1>3, <3>1, <4>1 DEF Runs
    <3> QED BY <1>3, <3>1 DEF Runs
  <2> QED BY <2>1
<1> DEFINE X == Val(bs)
<1>5. X = Body(X)
  BY <1>1, <1>4, Zenon DEF Val
<1>6. FromBytes(bs) = X[w]
  BY <1>1, Zenon DEF FromBytes, Val
<1> HIDE DEF X
<1>7. X[0] = 0 /\ \A i \in 0 .. w : i # 0 => X[i] = X[i - 1] * Base + bs[i]
  BY <1>5
<1> DEFINE S == {i \in 0 .. w : X[i] \in Nat}
<1>8. 0 \in S
  BY <1>7
<1>9. ASSUME NEW i \in 0 .. w, i \in S, i < w PROVE i + 1 \in S
  <2>1. i + 1 \in 0 .. w /\ X[i + 1] = X[i] * Base + bs[i + 1] /\ bs[i + 1] \in Byte
    BY <1>7, <1>9
  <2>2. X[i] \in Nat
    BY <1>9
  <2>3. X[i + 1] \in Nat
    BY <2>1, <2>2, OneMoreByte, Zenon
  <2> QED BY <2>1, <2>3
<1> HIDE DEF S
<1>10. \A i \in 0 .. w : i \in S
  BY <1>8, <1>9, Upwards
<1>11. \A i \in 0 .. w : X[i] \in Nat
  BY <1>10 DEF S
<1> QED BY <1>1, <1>7, <1>6, <1>11 DEF X

\* An integer that fits its width is read back as written: what is left of it once
\* all its bytes are written is nothing, and the bytes read so far are worth what
\* was left before them (to_be_bytes, from_be_bytes).
LEMMA WrittenThenRead ==
    ASSUME NEW w \in Nat, NEW n \in UInt(w)
    PROVE  /\ n \in Nat /\ ToBytes(n, w) \in [1 .. w -> Byte]
           /\ FromBytes(ToBytes(n, w)) = n
<1> DEFINE P  == Pow(w)
           R  == Rest(n, w)
           bs == ToBytes(n, w)
           X  == Val(bs)
<1>1. /\ \A i \in 0 .. w : P[i] \in Nat \ {0}
      /\ P[0] = 1
      /\ \A i \in 0 .. w : i # 0 => P[i] = Base * P[i - 1]
  BY PowIs
<1>2. w \in 0 .. w /\ P[w] \in Nat
  BY <1>1
<1>3. n \in Nat /\ n < P[w]
  BY <1>2, UIntIs
<1>4. /\ \A i \in 0 .. w : R[i] \in Nat
      /\ R[0] = n
      /\ \A i \in 0 .. w : i # 0 => R[i] = R[i - 1] \div Base
      /\ bs \in [1 .. w -> Byte]
      /\ \A i \in 1 .. w : bs[i] = R[w - i] % Base
  BY <1>3, RestIs
<1> HIDE DEF bs
<1>5. /\ Len(bs) = w
      /\ \A i \in 0 .. w : X[i] \in Nat
      /\ X[0] = 0
      /\ \A i \in 0 .. w : i # 0 => X[i] = X[i - 1] * Base + bs[i]
      /\ FromBytes(bs) = X[w]
  BY <1>4, ValIs
<1> HIDE DEF P, R, X
<1>6. \A i \in 0 .. w : R[i] < P[w - i]
  <2> DEFINE S == {i \in 0 .. w : R[i] < P[w - i]}
  <2>1. 0 \in S
    BY <1>3, <1>4
  <2>2. ASSUME NEW i \in 0 .. w, i \in S, i < w PROVE i + 1 \in S
    <3>1. /\ i + 1 \in 0 .. w /\ w - i \in 0 .. w /\ w - i # 0 /\ (w - i) - 1 = w - (i + 1)
          /\ w - (i + 1) \in 0 .. w
      BY <2>2
    <3>2. R[i + 1] = R[i] \div Base /\ P[w - i] = Base * P[w - (i + 1)] /\ R[i] < P[w - i]
          /\ R[i] \in Nat /\ P[w - (i + 1)] \in Nat
      BY <1>1, <1>4, <2>2, <3>1
    <3>3. R[i] < Base * P[w - (i + 1)] => R[i] \div Base < P[w - (i + 1)]
      BY <3>2, DivBase
    <3> QED BY <3>1, <3>2, <3>3
  <2> HIDE DEF S
  <2>3. \A i \in 0 .. w : i \in S
    BY <2>1, <2>2, Upwards
  <2> QED BY <2>3 DEF S
<1>7. R[w] = 0
  <2>1. R[w] < P[w - w] /\ R[w] \in Nat /\ w - w = 0
    BY <1>2, <1>4, <1>6
  <2> QED BY <1>1, <2>1
<1>8. \A i \in 0 .. w : X[i] = R[w - i]
  <2> DEFINE S == {i \in 0 .. w : X[i] = R[w - i]}
  <2>1. 0 \in S
    BY <1>5, <1>7
  <2>2. ASSUME NEW i \in 0 .. w, i \in S, i < w PROVE i + 1 \in S
    <3>1. /\ i + 1 \in 0 .. w /\ i + 1 # 0 /\ i + 1 \in 1 .. w /\ (i + 1) - 1 = i
          /\ w - i \in 0 .. w /\ w - i # 0 /\ (w - i) - 1 = w - (i + 1)
          /\ w - (i + 1) \in 0 .. w
      BY <2>2
    <3>2. X[i + 1] = X[i] * Base + bs[i + 1] /\ bs[i + 1] = R[w - (i + 1)] % Base
      BY <1>4, <1>5, <3>1
    <3>3. X[i] = R[w - i] /\ R[w - i] = R[w - (i + 1)] \div Base /\ R[w - (i + 1)] \in Nat
      BY <1>4, <2>2, <3>1
    <3>4. R[w - (i + 1)] = (R[w - (i + 1)] \div Base) * Base + (R[w - (i + 1)] % Base)
      BY <3>3, DivBase, Zenon
    <3>5. X[i + 1] = R[w - i] * Base + (R[w - (i + 1)] % Base)
      BY <3>2, <3>3, Zenon
    <3>6. R[w - (i + 1)] = R[w - i] * Base + (R[w - (i + 1)] % Base)
      BY <3>3, <3>4, Zenon
    <3>7. X[i + 1] = R[w - (i + 1)]
      BY <3>5, <3>6, Zenon
    <3> QED BY <3>1, <3>7
  <2> HIDE DEF S
  <2>3. \A i \in 0 .. w : i \in S
    BY <2>1, <2>2, Upwards
  <2> QED BY <2>3 DEF S
<1>9. X[w] = R[0]
  BY <1>2, <1>8
<1> QED BY <1>3, <1>4, <1>5, <1>9 DEF bs

\* Bytes that are read are the ones that would be written, and what they are worth
\* fits their number (from_be_bytes, to_be_bytes).
LEMMA ReadThenWritten ==
    ASSUME NEW w \in Nat, NEW bs \in [1 .. w -> Byte]
    PROVE  FromBytes(bs) \in UInt(w) /\ ToBytes(FromBytes(bs), w) = bs
<1> DEFINE P  == Pow(w)
           X  == Val(bs)
           n  == FromBytes(bs)
           R  == Rest(n, w)
<1>1. /\ \A i \in 0 .. w : P[i] \in Nat \ {0}
      /\ P[0] = 1
      /\ \A i \in 0 .. w : i # 0 => P[i] = Base * P[i - 1]
  BY PowIs
<1>2. /\ \A i \in 0 .. w : X[i] \in Nat
      /\ X[0] = 0
      /\ \A i \in 0 .. w : i # 0 => X[i] = X[i - 1] * Base + bs[i]
      /\ n = X[w]
  BY ValIs
<1>3. w \in 0 .. w /\ P[w] \in Nat /\ X[w] \in Nat
  BY <1>1, <1>2
<1> HIDE DEF n
<1>4. /\ \A i \in 0 .. w : R[i] \in Nat
      /\ R[0] = n
      /\ \A i \in 0 .. w : i # 0 => R[i] = R[i - 1] \div Base
      /\ ToBytes(n, w) \in [1 .. w -> Byte]
      /\ \A i \in 1 .. w : ToBytes(n, w)[i] = R[w - i] % Base
  BY <1>2, <1>3, RestIs
<1>5. UInt(w) = 0 .. (P[w] - 1)
  BY UIntIs
<1> HIDE DEF P, R, X
<1>6. \A i \in 0 .. w : X[i] < P[i]
  <2> DEFINE S == {i \in 0 .. w : X[i] < P[i]}
  <2>1. 0 \in S
    BY <1>1, <1>2
  <2>2. ASSUME NEW i \in 0 .. w, i \in S, i < w PROVE i + 1 \in S
    <3>1. i + 1 \in 0 .. w /\ i + 1 # 0 /\ (i + 1) - 1 = i /\ bs[i + 1] \in Byte
      BY <2>2
    <3>2. X[i + 1] = X[i] * Base + bs[i + 1] /\ P[i + 1] = Base * P[i]
      BY <1>1, <1>2, <3>1
    <3>3. X[i] \in Nat /\ P[i] \in Nat /\ X[i] < P[i]
      BY <1>1, <1>2, <2>2
    <3>4. X[i] * Base + bs[i + 1] < Base * P[i]
      BY <3>1, <3>3, OneMoreByte, Zenon
    <3>5. X[i + 1] < P[i + 1]
      BY <3>2, <3>4, Zenon
    <3> QED BY <3>1, <3>5
  <2> HIDE DEF S
  <2>3. \A i \in 0 .. w : i \in S
    BY <2>1, <2>2, Upwards
  <2> QED BY <2>3 DEF S
<1>7. n \in UInt(w)
  BY <1>2, <1>3, <1>6, <1>5
<1>8. \A i \in 0 .. w : R[i] = X[w - i]
  <2> DEFINE S == {i \in 0 .. w : R[i] = X[w - i]}
  <2>1. 0 \in S
    BY <1>2, <1>4
  <2>2. ASSUME NEW i \in 0 .. w, i \in S, i < w PROVE i + 1 \in S
    <3>1. /\ i + 1 \in 0 .. w /\ i + 1 # 0 /\ (i + 1) - 1 = i
          /\ w - i \in 0 .. w /\ w - i # 0 /\ (w - i) - 1 = w - (i + 1)
          /\ w - (i + 1) \in 0 .. w /\ bs[w - i] \in Byte
      BY <2>2
    <3>2. R[i + 1] = R[i] \div Base /\ R[i] = X[w - i]
      BY <1>4, <2>2, <3>1
    <3>3. X[w - i] = X[w - (i + 1)] * Base + bs[w - i] /\ X[w - (i + 1)] \in Nat
      BY <1>2, <3>1
    <3>4. R[i + 1] = X[w - (i + 1)]
      BY <3>1, <3>2, <3>3, OneMoreByte, Zenon
    <3> QED BY <3>1, <3>4
  <2> HIDE DEF S
  <2>3. \A i \in 0 .. w : i \in S
    BY <2>1, <2>2, Upwards
  <2> QED BY <2>3 DEF S
<1>9. ASSUME NEW i \in 1 .. w PROVE ToBytes(n, w)[i] = bs[i]
  <2>1. /\ w - i \in 0 .. w /\ w - (w - i) = i /\ i \in 0 .. w /\ i # 0
        /\ i - 1 \in 0 .. w /\ bs[i] \in Byte
    OBVIOUS
  <2>2. R[w - i] = X[i]
    BY <1>8, <2>1
  <2>3. X[i] = X[i - 1] * Base + bs[i] /\ X[i - 1] \in Nat
    BY <1>2, <2>1
  <2>4. X[i] % Base = bs[i]
    <3>1. (X[i - 1] * Base + bs[i]) % Base = bs[i]
      BY <2>1, <2>3, OneMoreByte, Zenon
    <3> QED BY <2>3, <3>1, Zenon
  <2> QED BY <1>4, <2>2, <2>4
<1>10. ToBytes(n, w) = bs
  BY <1>4, <1>9
<1> QED BY <1>7, <1>10 DEF n

-----------------------------------------------------------------------------
\* Strings of n members of B, a piece of one, and a piece that stands in one.
Str(n, B) == [1 .. n -> B]
Cut(s, a, w) == SubSeq(s, a + 1, a + w)
AtPlace(u, a, t, n) == \A i \in 1 .. n : u[a + i] = t[i]

\* A string is a sequence of its length, and the other way round.
LEMMA StringIs ==
    ASSUME NEW n \in Nat, NEW B, NEW s \in Str(n, B)
    PROVE  s \in Seq(B) /\ Len(s) = n /\ DOMAIN s = 1 .. n
<1>1. s \in [1 .. n -> B]
  BY DEF Str
<1>2. s \in Seq(B)
  BY <1>1, SeqDef
<1> QED BY <1>1, <1>2, LenProperties

\* Two strings with the same bytes are the same.
LEMMA SameString ==
    ASSUME NEW n \in Nat, NEW B, NEW s \in Str(n, B), NEW t \in Str(n, B), AtPlace(s, 0, t, n)
    PROVE  s = t
<1>1. s \in [1 .. n -> B] /\ t \in [1 .. n -> B]
  BY DEF Str
<1>2. \A i \in 1 .. n : s[i] = t[i]
  BY DEF AtPlace
<1> QED BY <1>1, <1>2

\* One string after another.
LEMMA Joined ==
    ASSUME NEW m \in Nat, NEW n \in Nat, NEW B, NEW s \in Str(m, B), NEW t \in Str(n, B)
    PROVE  /\ s \o t \in Str(m + n, B)
           /\ AtPlace(s \o t, 0, s, m) /\ AtPlace(s \o t, m, t, n)
<1>1. s \in Seq(B) /\ Len(s) = m /\ t \in Seq(B) /\ Len(t) = n
  BY StringIs
<1> DEFINE u == s \o t
<1>2. u \in Seq(B) /\ Len(u) = m + n
  BY <1>1
<1>3. \A i \in 1 .. (m + n) : u[i] = IF i <= m THEN s[i] ELSE t[i - m]
  BY <1>1
<1> HIDE DEF u
<1>4. u \in [1 .. (m + n) -> B]
  BY <1>2, LenProperties
<1>5. \A i \in 1 .. m : u[0 + i] = s[i]
  BY <1>3
<1>6. \A i \in 1 .. n : u[m + i] = t[i]
  BY <1>3
<1> QED BY <1>4, <1>5, <1>6 DEF u, Str, AtPlace

\* A piece of a string.
LEMMA CutOut ==
    ASSUME NEW n \in Nat, NEW B, NEW s \in Str(n, B), NEW a \in Nat, NEW w \in Nat, a + w <= n
    PROVE  Cut(s, a, w) \in Str(w, B) /\ AtPlace(s, a, Cut(s, a, w), w)
<1>1. s \in Seq(B) /\ Len(s) = n /\ s \in [1 .. n -> B]
  BY StringIs DEF Str
<1> DEFINE t == Cut(s, a, w)
<1>2. Len(t) = w /\ t \in Seq(B)
  BY <1>1 DEF Cut
<1>3. \A i \in 1 .. w : t[i] = s[a + i]
  BY <1>1 DEF Cut
<1> HIDE DEF t
<1>4. t \in [1 .. w -> B]
  BY <1>2, LenProperties
<1> QED BY <1>3, <1>4 DEF t, Str, AtPlace

\* What stands at a place is what is cut out there.
LEMMA CutIs ==
    ASSUME NEW n \in Nat, NEW B, NEW s \in Str(n, B), NEW a \in Nat, NEW w \in Nat, a + w <= n,
           NEW t \in Str(w, B), AtPlace(s, a, t, w)
    PROVE  Cut(s, a, w) = t
<1> DEFINE c == Cut(s, a, w)
<1>1. c \in Str(w, B) /\ AtPlace(s, a, c, w)
  BY CutOut
<1> HIDE DEF c
<1>2. AtPlace(c, 0, t, w)
  BY <1>1 DEF AtPlace
<1>3. c = t
  BY <1>1, <1>2, SameString
<1> QED BY <1>3 DEF c

\* A place in a piece is a place in the whole.
LEMMA PlaceInPlace ==
    ASSUME NEW u, NEW a \in Nat, NEW x, NEW m \in Nat, AtPlace(u, a, x, m),
           NEW b \in Nat, NEW y, NEW n \in Nat, AtPlace(x, b, y, n), b + n <= m
    PROVE  AtPlace(u, a + b, y, n)
<1> SUFFICES ASSUME NEW i \in 1 .. n PROVE u[(a + b) + i] = y[i]
  BY DEF AtPlace
<1>1. b + i \in 1 .. m /\ (a + b) + i = a + (b + i)
  OBVIOUS
<1>2. u[a + (b + i)] = x[b + i] /\ x[b + i] = y[i]
  BY <1>1 DEF AtPlace
<1> QED BY <1>1, <1>2

\* Two pieces that stand side by side make one.
LEMMA SideBySide ==
    ASSUME NEW u, NEW a \in Nat, NEW m \in Nat, NEW n \in Nat, NEW B,
           NEW s \in Str(m, B), NEW t \in Str(n, B),
           AtPlace(u, a, s, m), AtPlace(u, a + m, t, n)
    PROVE  AtPlace(u, a, s \o t, m + n)
<1>1. AtPlace(s \o t, 0, s, m) /\ AtPlace(s \o t, m, t, n)
  BY Joined
<1> DEFINE v == s \o t
<1> HIDE DEF v
<1>2. ASSUME NEW i \in 1 .. (m + n) PROVE u[a + i] = v[i]
  <2>1. CASE i <= m
    <3>1. i \in 1 .. m /\ 0 + i = i
      BY <2>1
    <3>2. u[a + i] = s[i] /\ v[0 + i] = s[i]
      BY <1>1, <3>1 DEF AtPlace, v
    <3> QED BY <3>1, <3>2
  <2>2. CASE i > m
    <3>1. i - m \in 1 .. n /\ m + (i - m) = i /\ (a + m) + (i - m) = a + i
      BY <2>2
    <3>2. u[(a + m) + (i - m)] = t[i - m] /\ v[m + (i - m)] = t[i - m]
      BY <1>1, <3>1 DEF AtPlace, v
    <3> QED BY <3>1, <3>2
  <2> QED BY <2>1, <2>2
<1> QED BY <1>2 DEF AtPlace, v

\* Blocks of L, one after the other.
LEMMA Blocks ==
    ASSUME NEW L \in Nat, NEW i \in Nat, NEW j \in 1 .. i
    PROVE  /\ (j - 1) * L \in Nat /\ i * L \in Nat /\ (j - 1) * L + L <= i * L
           /\ (i + 1) * L = i * L + L /\ 1 * L = L /\ ((i + 1) - 1) * L = i * L
<1>1. i - j \in Nat /\ j - 1 \in Nat
  OBVIOUS
<1>2. (i - j) * L \in Nat /\ (j - 1) * L \in Nat
  BY <1>1
<1>3. i * L = (j - 1) * L + L + (i - j) * L
  OBVIOUS
<1>4. (i + 1) * L = i * L + L /\ 1 * L = L /\ ((i + 1) - 1) * L = i * L
  OBVIOUS
<1> QED BY <1>2, <1>3, <1>4

\* The blocks written so far.
Flat(blocks) ==
    CHOOSE f : f = [i \in 1 .. Len(blocks) |->
                       IF i = 1 THEN blocks[i] ELSE f[i - 1] \o blocks[i]]

\* Where the blocks of a flattened sequence stand.
LEMMA Flattened ==
    ASSUME NEW c \in Nat, NEW L \in Nat, NEW B, NEW blocks \in Str(c, Str(L, B))
    PROVE  /\ FlattenSeq(blocks) \in Str(c * L, B)
           /\ \A j \in 1 .. c : AtPlace(FlattenSeq(blocks), (j - 1) * L, blocks[j], L)
<1>1. Len(blocks) = c /\ \A i \in 1 .. c : blocks[i] \in Str(L, B)
  <2>1. blocks \in [1 .. c -> Str(L, B)]
    BY DEF Str
  <2> QED BY <2>1, StringIs
<1>2. CASE c = 0
  <2>1. FlattenSeq(blocks) = blocks
    BY <1>1, <1>2 DEF FlattenSeq
  <2>2. c * L = 0 /\ 1 .. c = {} /\ 1 .. 0 = {}
    BY <1>2
  <2>3. blocks \in Str(c * L, B)
    <3>1. blocks \in [1 .. 0 -> Str(L, B)]
      BY <1>2 DEF Str
    <3>2. blocks \in [1 .. 0 -> B]
      BY <2>2, <3>1
    <3> QED BY <2>2, <3>2 DEF Str
  <2> QED BY <2>1, <2>2, <2>3
<1>3. CASE c # 0
  <2> DEFINE g == [i \in 1 .. c |-> [x \in Seq(B) |-> x \o blocks[i]]]
             Body(f) == [i \in 1 .. c |-> IF i = 1 THEN blocks[i] ELSE f[i - 1] \o blocks[i]]
             F == Flat(blocks)
  <2>1. \A i \in 1 .. c : blocks[i] \in Seq(B)
    BY <1>1, StringIs
  <2>2. g \in [1 .. c -> [Seq(B) -> Seq(B)]]
    BY <2>1
  <2>3. PICK f \in [1 .. c -> Seq(B)] : Runs(f, 1, c, blocks[1], g)
    <3>1. 1 \in Nat /\ 1 <= c /\ blocks[1] \in Seq(B)
      BY <1>3, <2>1
    <3> HIDE DEF g
    <3> QED BY <2>2, <3>1, Recursion
  <2>4. f = Body(f)
    <3>1. ASSUME NEW i \in 1 .. c
          PROVE  f[i] = IF i = 1 THEN blocks[i] ELSE f[i - 1] \o blocks[i]
      <4>1. CASE i # 1
        <5>1. i - 1 \in 1 .. c /\ f[i - 1] \in Seq(B)
          BY <4>1
        <5> QED BY <2>3, <4>1, <5>1 DEF Runs
      <4>2. CASE i = 1
        BY <2>3, <4>2 DEF Runs
      <4> QED BY <4>1, <4>2
    <3> QED BY <3>1
  <2>5. F = Body(F)
    BY <1>1, <2>4, Zenon DEF Flat
  <2>6. FlattenSeq(blocks) = F[c]
    BY <1>1, <1>3, Zenon DEF FlattenSeq, Flat
  <2> HIDE DEF F
  <2>7. F[1] = blocks[1] /\ \A i \in 1 .. c : i # 1 => F[i] = F[i - 1] \o blocks[i]
    <3> DEFINE G == Body(F)
    <3>1. 1 \in 1 .. c
      BY <1>3
    <3>2. G[1] = blocks[1]
      BY <3>1
    <3>3. ASSUME NEW i \in 1 .. c, i # 1 PROVE G[i] = F[i - 1] \o blocks[i]
      BY <3>3, Zenon
    <3> HIDE DEF G
    <3>4. F = G
      BY <2>5 DEF G
    <3> QED BY <3>2, <3>3, <3>4, Zenon
  <2> DEFINE S == {i \in 1 .. c : /\ F[i] \in Str(i * L, B)
                                  /\ \A j \in 1 .. i : AtPlace(F[i], (j - 1) * L, blocks[j], L)}
  <2>8. 1 \in S
    <3>1. 1 * L = L /\ (1 - 1) * L = 0 /\ 1 \in 1 .. c
      BY <1>3
    <3>2. AtPlace(F[1], 0, blocks[1], L)
      BY <2>7 DEF AtPlace
    <3>3. \A j \in 1 .. 1 : j = 1
      OBVIOUS
    <3> QED BY <1>1, <2>7, <3>1, <3>2, <3>3
  <2>9. ASSUME NEW i \in 1 .. c, i \in S, i < c PROVE i + 1 \in S
    <3>1. i + 1 \in 1 .. c /\ i + 1 # 1 /\ (i + 1) - 1 = i
      BY <2>9
    <3>2. F[i + 1] = F[(i + 1) - 1] \o blocks[i + 1] /\ blocks[i + 1] \in Str(L, B)
      BY <1>1, <2>7, <3>1, Zenon
    <3>3. i * L \in Nat /\ (i + 1) * L = i * L + L /\ ((i + 1) - 1) * L = i * L
      BY Blocks
    <3>4. F[i] \in Str(i * L, B)
      BY <2>9
    <3>5. /\ F[i + 1] \in Str(i * L + L, B)
          /\ AtPlace(F[i + 1], 0, F[i], i * L) /\ AtPlace(F[i + 1], i * L, blocks[i + 1], L)
      BY <3>2, <3>3, <3>4, Joined
    <3>6. ASSUME NEW j \in 1 .. (i + 1)
          PROVE  AtPlace(F[i + 1], (j - 1) * L, blocks[j], L)
      <4>1. CASE j = i + 1
        BY <3>3, <3>5, <4>1
      <4>2. CASE j # i + 1
        <5>1. j \in 1 .. i
          BY <4>2
        <5>2. AtPlace(F[i], (j - 1) * L, blocks[j], L)
          BY <2>9, <5>1
        <5>3. (j - 1) * L \in Nat /\ (j - 1) * L + L <= i * L /\ 0 + (j - 1) * L = (j - 1) * L
          BY <5>1, Blocks
        <5>4. AtPlace(F[i + 1], 0 + (j - 1) * L, blocks[j], L)
          BY <3>3, <3>5, <5>2, <5>3, PlaceInPlace
        <5> QED BY <5>3, <5>4
      <4> QED BY <4>1, <4>2
    <3>7. F[i + 1] \in Str((i + 1) * L, B)
      BY <3>3, <3>5
    <3> QED BY <3>1, <3>6, <3>7
  <2> HIDE DEF S
  <2>10. \A i \in 1 .. c : i \in S
    BY <2>8, <2>9, Upwards
  <2>11. c \in S
    BY <1>3, <2>10
  <2> QED BY <2>6, <2>11 DEF S
<1> QED BY <1>2, <1>3

\* A string in which every block stands at its place is the flattened sequence.
LEMMA FlattenedIs ==
    ASSUME NEW c \in Nat, NEW L \in Nat \ {0}, NEW B, NEW blocks \in Str(c, Str(L, B)),
           NEW r \in Str(c * L, B),
           \A j \in 1 .. c : AtPlace(r, (j - 1) * L, blocks[j], L)
    PROVE  FlattenSeq(blocks) = r
<1> DEFINE F == FlattenSeq(blocks)
<1>1. F \in Str(c * L, B) /\ \A j \in 1 .. c : AtPlace(F, (j - 1) * L, blocks[j], L)
  BY Flattened
<1> HIDE DEF F
<1>2. c * L \in Nat
  OBVIOUS
<1>3. ASSUME NEW i \in 1 .. (c * L) PROVE F[0 + i] = r[i]
  <2> DEFINE q == (i - 1) \div L
             b == (i - 1) % L
  <2>1. i - 1 \in Nat
    BY <1>2
  <2>2. q \in Nat /\ b \in 0 .. (L - 1) /\ i - 1 = L * q + b
    BY <2>1
  <2> HIDE DEF q, b
  <2>3. q < c
    <3> SUFFICES ASSUME c <= q PROVE FALSE
      BY <2>2
    <3>1. L * c <= L * q /\ L * c = c * L /\ L * q \in Nat
      BY <2>2
    <3> QED BY <1>2, <2>2, <3>1
  <2>4. q + 1 \in 1 .. c /\ ((q + 1) - 1) * L = L * q /\ b + 1 \in 1 .. L
    BY <2>2, <2>3
  <2>5. L * q \in Nat /\ L * q + (b + 1) = i
    BY <2>2
  <2>6. AtPlace(F, L * q, blocks[q + 1], L) /\ AtPlace(r, L * q, blocks[q + 1], L)
    BY <1>1, <2>4
  <2>7. F[L * q + (b + 1)] = blocks[q + 1][b + 1] /\ r[L * q + (b + 1)] = blocks[q + 1][b + 1]
    BY <2>4, <2>6 DEF AtPlace
  <2> QED BY <2>5, <2>7
<1>4. AtPlace(F, 0, r, c * L)
  BY <1>3 DEF AtPlace
<1>5. F = r
  BY <1>1, <1>2, <1>4, SameString
<1> QED BY <1>5 DEF F

-----------------------------------------------------------------------------
\* The widths and limits of the codec, and what fits them.
LEMMA Widths ==
    /\ U16Len \in Nat \ {0} /\ U32Len \in Nat \ {0} /\ U64Len \in Nat \ {0} /\ IdLen \in Nat
    /\ MaxPayload \in Nat /\ MaxNackEntries \in Nat
    /\ \A n \in 0 .. MaxNackEntries : n \in UInt(U16Len)
<1>1. UInt(U16Len) = 0 .. (Pow(U16Len)[U16Len] - 1)
  BY UIntIs
<1>2. Pow(U16Len)[U16Len] \in Nat
  <2>1. U16Len \in Nat /\ U16Len \in 0 .. U16Len
    BY CodecAssumption
  <2> QED BY <2>1, PowIs
<1>3. MaxNackEntries \in UInt(U16Len)
  BY CodecAssumption
<1> QED BY <1>1, <1>2, <1>3, CodecAssumption

\* An integer where it was written is taken as it was.
LEMMA TakeIs ==
    ASSUME NEW m \in Nat, NEW buf \in Str(m, Byte), NEW a \in Nat, NEW w \in Nat, a + w <= m,
           NEW n \in UInt(w), AtPlace(buf, a, ToBytes(n, w), w)
    PROVE  Take(buf, a, w) = n
<1>1. ToBytes(n, w) \in Str(w, Byte) /\ FromBytes(ToBytes(n, w)) = n
  BY WrittenThenRead DEF Str
<1>2. Cut(buf, a, w) = ToBytes(n, w)
  BY <1>1, CutIs
<1> QED BY <1>1, <1>2 DEF Take, Cut

\* An integer that is taken would be written as it stands.
LEMMA TakenStands ==
    ASSUME NEW m \in Nat, NEW buf \in Str(m, Byte), NEW a \in Nat, NEW w \in Nat, a + w <= m
    PROVE  /\ Take(buf, a, w) \in UInt(w) /\ ToBytes(Take(buf, a, w), w) \in Str(w, Byte)
           /\ AtPlace(buf, a, ToBytes(Take(buf, a, w), w), w)
<1> DEFINE c == Cut(buf, a, w)
<1>1. c \in Str(w, Byte) /\ AtPlace(buf, a, c, w)
  BY CutOut
<1>2. Take(buf, a, w) = FromBytes(c)
  BY DEF Take, Cut
<1> HIDE DEF c
<1>3. FromBytes(c) \in UInt(w) /\ ToBytes(FromBytes(c), w) = c
  BY <1>1, ReadThenWritten DEF Str
<1> QED BY <1>1, <1>2, <1>3

\* An integer as it is written.
LEMMA Written ==
    ASSUME NEW w \in Nat, NEW n \in UInt(w)
    PROVE  ToBytes(n, w) \in Str(w, Byte)
BY WrittenThenRead DEF Str

\* Any string stands in itself.
LEMMA StandsInItself ==
    ASSUME NEW n \in Nat, NEW s
    PROVE  AtPlace(s, 0, s, n)
BY DEF AtPlace

\* A sequence of bounded length has a length.
LEMMA BoundedIs ==
    ASSUME NEW B, NEW n \in Nat, NEW s \in BoundedSeq(B, n)
    PROVE  \E m \in 0 .. n : s \in Str(m, B)
BY DEF BoundedSeq, SeqOf, Str

\* A frame comes back from its encoding (encode_body and decode_body of Data).
LEMMA DataReturns ==
    ASSUME NEW body \in Bodies("Data")
    PROVE  LET buf == EncodeBody("Data", body)
           IN  Decodable("Data", buf) /\ DecodeBody("Data", buf) = body
<1> DEFINE x   == ToBytes(body.ts, U64Len)
           buf == x \o body.payload
<1>1. body \in [ts : UInt(U64Len), payload : BoundedSeq(Byte, MaxPayload)]
  BY DEF Bodies
<1>2. PICK m \in 0 .. MaxPayload : body.payload \in Str(m, Byte)
  BY <1>1, BoundedIs, Widths
<1>3. x \in Str(U64Len, Byte) /\ U64Len \in Nat /\ m \in Nat
  BY <1>1, Written, Widths
<1>4. /\ buf \in Str(U64Len + m, Byte)
      /\ AtPlace(buf, 0, x, U64Len) /\ AtPlace(buf, U64Len, body.payload, m)
  BY <1>2, <1>3, Joined
<1>5. EncodeBody("Data", body) = buf
  BY DEF EncodeBody
<1> HIDE DEF buf
<1>6. Len(buf) = U64Len + m
  BY <1>3, <1>4, StringIs
<1>7. Take(buf, 0, U64Len) = body.ts
  BY <1>1, <1>3, <1>4, TakeIs
<1>8. SubSeq(buf, U64Len + 1, Len(buf)) = body.payload
  <2>1. Cut(buf, U64Len, m) = body.payload
    BY <1>2, <1>3, <1>4, CutIs
  <2> QED BY <1>6, <2>1 DEF Cut
<1>9. Decodable("Data", buf)
  BY <1>3, <1>6, Widths DEF Decodable
<1>10. DecodeBody("Data", buf) = [ts |-> body.ts, payload |-> body.payload]
  BY <1>7, <1>8 DEF DecodeBody
<1>11. [ts |-> body.ts, payload |-> body.payload] = body
  BY <1>1
<1> QED BY <1>5, <1>9, <1>10, <1>11

\* Bytes that decode as Data are what its body is encoded as.
LEMMA DataStands ==
    ASSUME NEW n \in Nat, NEW buf \in Str(n, Byte), Decodable("Data", buf)
    PROVE  LET body == DecodeBody("Data", buf)
           IN  Encodable("Data", body) /\ EncodeBody("Data", body) = buf
<1> DEFINE m    == n - U64Len
           t    == Take(buf, 0, U64Len)
           y    == SubSeq(buf, U64Len + 1, Len(buf))
           body == [ts |-> t, payload |-> y]
<1>1. Len(buf) = n
  BY StringIs
<1>2. U64Len \in Nat /\ m \in Nat /\ m <= MaxPayload /\ U64Len + m = n
  BY <1>1, Widths DEF Decodable
<1>3. y = Cut(buf, U64Len, m)
  BY <1>1, <1>2 DEF Cut
<1> HIDE DEF m, t, y
<1>4. y \in Str(m, Byte) /\ AtPlace(buf, U64Len, y, m)
  BY <1>2, <1>3, CutOut
<1>5. ToBytes(t, U64Len) \in Str(U64Len, Byte) /\ AtPlace(buf, 0, ToBytes(t, U64Len), U64Len)
  BY <1>2, TakenStands DEF t
<1>6. ToBytes(t, U64Len) \o y \in Str(U64Len + m, Byte)
  BY <1>2, <1>4, <1>5, Joined
<1>7. AtPlace(buf, 0, ToBytes(t, U64Len) \o y, U64Len + m)
  <2>1. 0 + U64Len = U64Len
    BY <1>2
  <2> QED BY <1>2, <1>4, <1>5, <2>1, SideBySide
<1>8. buf = ToBytes(t, U64Len) \o y
  BY <1>2, <1>6, <1>7, SameString
<1>9. DecodeBody("Data", buf) = body
  BY DEF DecodeBody, t, y
<1>10. body.ts = t /\ body.payload = y /\ Len(y) = m
  BY <1>2, <1>4, StringIs
<1> HIDE DEF body
<1>11. EncodeBody("Data", body) = ToBytes(body.ts, U64Len) \o body.payload
  BY DEF EncodeBody
<1>12. Encodable("Data", body)
  BY <1>2, <1>10 DEF Encodable
<1> QED BY <1>8, <1>9, <1>10, <1>11, <1>12

\* One integer and nothing else: End and Keepalive.
LEMMA OneIntegerReturns ==
    ASSUME NEW n \in UInt(U32Len)
    PROVE  Len(ToBytes(n, U32Len)) = U32Len /\ Take(ToBytes(n, U32Len), 0, U32Len) = n
<1> DEFINE x == ToBytes(n, U32Len)
<1>1. U32Len \in Nat /\ x \in Str(U32Len, Byte) /\ 0 + U32Len <= U32Len
  BY Written, Widths
<1>2. AtPlace(x, 0, x, U32Len)
  BY <1>1, StandsInItself
<1>3. Take(x, 0, U32Len) = n
  BY <1>1, <1>2, TakeIs
<1> QED BY <1>1, <1>3, StringIs

\* Bytes of that length are the encoding of the one integer they decode to.
LEMMA OneIntegerStands ==
    ASSUME NEW buf \in Str(U32Len, Byte)
    PROVE  ToBytes(Take(buf, 0, U32Len), U32Len) = buf
<1> DEFINE x == ToBytes(Take(buf, 0, U32Len), U32Len)
<1>1. U32Len \in Nat /\ 0 + U32Len <= U32Len
  BY Widths
<1>2. x \in Str(U32Len, Byte) /\ AtPlace(buf, 0, x, U32Len)
  BY <1>1, TakenStands
<1> HIDE DEF x
<1>3. buf = x
  BY <1>1, <1>2, SameString
<1> QED BY <1>3 DEF x

\* The body of End comes back from its encoding.
LEMMA EndReturns ==
    ASSUME NEW body \in Bodies("End")
    PROVE  LET buf == EncodeBody("End", body)
           IN  Decodable("End", buf) /\ DecodeBody("End", buf) = body
<1> DEFINE buf == ToBytes(body.final_seq, U32Len)
<1>1. body \in [final_seq : UInt(U32Len)]
  BY DEF Bodies
<1>2. Len(buf) = U32Len /\ Take(buf, 0, U32Len) = body.final_seq
  BY <1>1, OneIntegerReturns
<1>3. EncodeBody("End", body) = buf
  BY DEF EncodeBody
<1> HIDE DEF buf
<1>4. Decodable("End", buf)
  BY <1>2 DEF Decodable, ExpectLen
<1>5. DecodeBody("End", buf) = [final_seq |-> body.final_seq]
  BY <1>2 DEF DecodeBody
<1> QED BY <1>1, <1>3, <1>4, <1>5

\* Bytes that decode as End are what its body is encoded as.
LEMMA EndStands ==
    ASSUME NEW n \in Nat, NEW buf \in Str(n, Byte), Decodable("End", buf)
    PROVE  LET body == DecodeBody("End", buf)
           IN  Encodable("End", body) /\ EncodeBody("End", body) = buf
<1> DEFINE t    == Take(buf, 0, U32Len)
           body == [final_seq |-> t]
<1>1. n = U32Len
  BY StringIs DEF Decodable, ExpectLen
<1>2. ToBytes(t, U32Len) = buf
  BY <1>1, OneIntegerStands
<1> HIDE DEF t
<1>3. DecodeBody("End", buf) = body
  BY DEF DecodeBody, t
<1>4. body.final_seq = t
  OBVIOUS
<1> HIDE DEF body
<1>5. Encodable("End", body) /\ EncodeBody("End", body) = ToBytes(body.final_seq, U32Len)
  BY DEF Encodable, EncodeBody
<1> QED BY <1>2, <1>3, <1>4, <1>5

\* The body of Keepalive comes back from its encoding.
LEMMA KeepaliveReturns ==
    ASSUME NEW body \in Bodies("Keepalive")
    PROVE  LET buf == EncodeBody("Keepalive", body)
           IN  Decodable("Keepalive", buf) /\ DecodeBody("Keepalive", buf) = body
<1> DEFINE buf == ToBytes(body.lost_below, U32Len)
<1>1. body \in [lost_below : UInt(U32Len)]
  BY DEF Bodies
<1>2. Len(buf) = U32Len /\ Take(buf, 0, U32Len) = body.lost_below
  BY <1>1, OneIntegerReturns
<1>3. EncodeBody("Keepalive", body) = buf
  BY DEF EncodeBody
<1> HIDE DEF buf
<1>4. Decodable("Keepalive", buf)
  BY <1>2 DEF Decodable, ExpectLen
<1>5. DecodeBody("Keepalive", buf) = [lost_below |-> body.lost_below]
  BY <1>2 DEF DecodeBody
<1> QED BY <1>1, <1>3, <1>4, <1>5

\* Bytes that decode as Keepalive are what its body is encoded as.
LEMMA KeepaliveStands ==
    ASSUME NEW n \in Nat, NEW buf \in Str(n, Byte), Decodable("Keepalive", buf)
    PROVE  LET body == DecodeBody("Keepalive", buf)
           IN  Encodable("Keepalive", body) /\ EncodeBody("Keepalive", body) = buf
<1> DEFINE t    == Take(buf, 0, U32Len)
           body == [lost_below |-> t]
<1>1. n = U32Len
  BY StringIs DEF Decodable, ExpectLen
<1>2. ToBytes(t, U32Len) = buf
  BY <1>1, OneIntegerStands
<1> HIDE DEF t
<1>3. DecodeBody("Keepalive", buf) = body
  BY DEF DecodeBody, t
<1>4. body.lost_below = t
  OBVIOUS
<1> HIDE DEF body
<1>5. /\ Encodable("Keepalive", body)
      /\ EncodeBody("Keepalive", body) = ToBytes(body.lost_below, U32Len)
  BY DEF Encodable, EncodeBody
<1> QED BY <1>2, <1>3, <1>4, <1>5

\* The body of EndAck comes back from its encoding.
LEMMA EndAckReturns ==
    ASSUME NEW body \in Bodies("EndAck")
    PROVE  LET buf == EncodeBody("EndAck", body)
           IN  Decodable("EndAck", buf) /\ DecodeBody("EndAck", buf) = body
<1>1. body = <<>> /\ EncodeBody("EndAck", body) = <<>>
  BY DEF Bodies, EncodeBody
<1>2. Len(<<>>) = 0
  OBVIOUS
<1>3. Decodable("EndAck", <<>>) /\ DecodeBody("EndAck", <<>>) = <<>>
  BY <1>2 DEF Decodable, DecodeBody, ExpectLen
<1> QED BY <1>1, <1>3

\* Bytes that decode as EndAck are what its body is encoded as.
LEMMA EndAckStands ==
    ASSUME NEW n \in Nat, NEW buf \in Str(n, Byte), Decodable("EndAck", buf)
    PROVE  LET body == DecodeBody("EndAck", buf)
           IN  Encodable("EndAck", body) /\ EncodeBody("EndAck", body) = buf
<1>1. Len(buf) = 0
  BY DEF Decodable, ExpectLen
<1>2. buf = <<>>
  BY <1>1, StringIs, EmptySeq
<1>3. DecodeBody("EndAck", buf) = <<>> /\ EncodeBody("EndAck", <<>>) = <<>>
  BY DEF DecodeBody, EncodeBody
<1>4. Encodable("EndAck", <<>>)
  BY DEF Encodable
<1> QED BY <1>2, <1>3, <1>4

\* The body of Ack comes back from its encoding.
LEMMA AckReturns ==
    ASSUME NEW body \in Bodies("Ack")
    PROVE  LET buf == EncodeBody("Ack", body)
           IN  Decodable("Ack", buf) /\ DecodeBody("Ack", buf) = body
<1> DEFINE x   == ToBytes(body.contiguous, U32Len)
           y   == ToBytes(body.highest, U32Len)
           z   == ToBytes(body.buffered_ms, U16Len)
           xy  == x \o y
           buf == xy \o z
           L   == U32Len
           W   == U16Len
<1>1. body \in [contiguous : UInt(L), highest : UInt(L), buffered_ms : UInt(W)]
  BY DEF Bodies
<1>2. /\ L \in Nat /\ W \in Nat /\ x \in Str(L, Byte) /\ y \in Str(L, Byte)
      /\ z \in Str(W, Byte)
  BY <1>1, Written, Widths
<1>3. EncodeBody("Ack", body) = buf
  BY DEF EncodeBody
<1>4. L + L = 2 * L /\ 2 * L \in Nat /\ 2 * L + W \in Nat
  BY <1>2
<1>5. xy \in Str(2 * L, Byte) /\ AtPlace(xy, 0, x, L) /\ AtPlace(xy, L, y, L)
  BY <1>2, <1>4, Joined
<1> HIDE DEF xy
<1>6. /\ buf \in Str(2 * L + W, Byte)
      /\ AtPlace(buf, 0, xy, 2 * L) /\ AtPlace(buf, 2 * L, z, W)
  BY <1>2, <1>4, <1>5, Joined
<1> HIDE DEF buf, x, y, z
<1>7. AtPlace(buf, 0, x, L) /\ AtPlace(buf, L, y, L)
  <2>1. 0 + L <= 2 * L /\ L + L <= 2 * L /\ 0 + L = L /\ 0 + 0 = 0
    BY <1>2
  <2>2. AtPlace(buf, 0 + 0, x, L) /\ AtPlace(buf, 0 + L, y, L)
    BY <1>2, <1>4, <1>5, <1>6, <2>1, PlaceInPlace
  <2> QED BY <2>1, <2>2
<1>8. Len(buf) = 2 * L + W
  BY <1>4, <1>6, StringIs
<1>9. 0 + L <= 2 * L + W /\ L + L <= 2 * L + W /\ 2 * L + W <= 2 * L + W
  BY <1>2
<1>10. Take(buf, 0, L) = body.contiguous
  BY <1>1, <1>2, <1>4, <1>6, <1>7, <1>9, TakeIs DEF x
<1>11. Take(buf, L, L) = body.highest
  BY <1>1, <1>2, <1>4, <1>6, <1>7, <1>9, TakeIs DEF y
<1>12. Take(buf, 2 * L, W) = body.buffered_ms
  BY <1>1, <1>2, <1>4, <1>6, <1>9, TakeIs DEF z
<1>13. Decodable("Ack", buf)
  BY <1>8 DEF Decodable, ExpectLen
<1>14. DecodeBody("Ack", buf) = [contiguous |-> body.contiguous, highest |-> body.highest,
                                 buffered_ms |-> body.buffered_ms]
  BY <1>10, <1>11, <1>12 DEF DecodeBody
<1>15. [contiguous |-> body.contiguous, highest |-> body.highest,
        buffered_ms |-> body.buffered_ms] = body
  BY <1>1
<1> QED BY <1>3, <1>13, <1>14, <1>15

\* Bytes that decode as Ack are what its body is encoded as.
LEMMA AckStands ==
    ASSUME NEW n \in Nat, NEW buf \in Str(n, Byte), Decodable("Ack", buf)
    PROVE  LET body == DecodeBody("Ack", buf)
           IN  Encodable("Ack", body) /\ EncodeBody("Ack", body) = buf
<1> DEFINE L    == U32Len
           W    == U16Len
           c    == Take(buf, 0, L)
           h    == Take(buf, L, L)
           b    == Take(buf, 2 * L, W)
           body == [contiguous |-> c, highest |-> h, buffered_ms |-> b]
           x    == ToBytes(c, L)
           y    == ToBytes(h, L)
           z    == ToBytes(b, W)
           xy   == x \o y
<1>1. n = 2 * L + W
  BY StringIs DEF Decodable, ExpectLen
<1>2. /\ L \in Nat /\ W \in Nat /\ L + L = 2 * L /\ 2 * L \in Nat
      /\ 0 + L <= n /\ L + L <= n /\ 2 * L + W <= n /\ 0 + L = L /\ 0 + 2 * L = 2 * L
  BY <1>1, Widths
<1>3. x \in Str(L, Byte) /\ AtPlace(buf, 0, x, L)
  BY <1>2, TakenStands
<1>4. y \in Str(L, Byte) /\ AtPlace(buf, L, y, L)
  BY <1>2, TakenStands
<1>5. z \in Str(W, Byte) /\ AtPlace(buf, 2 * L, z, W)
  BY <1>2, TakenStands
<1>6. DecodeBody("Ack", buf) = body
  BY DEF DecodeBody
<1>7. body.contiguous = c /\ body.highest = h /\ body.buffered_ms = b
  OBVIOUS
<1> HIDE DEF x, y, z, body, c, h, b
<1>8. xy \in Str(2 * L, Byte) /\ AtPlace(buf, 0, xy, 2 * L)
  <2>1. xy \in Str(L + L, Byte)
    BY <1>2, <1>3, <1>4, Joined
  <2>2. AtPlace(buf, 0, xy, L + L)
    BY <1>2, <1>3, <1>4, SideBySide
  <2> QED BY <1>2, <2>1, <2>2
<1> HIDE DEF xy
<1>9. xy \o z \in Str(2 * L + W, Byte) /\ AtPlace(buf, 0, xy \o z, 2 * L + W)
  BY <1>2, <1>5, <1>8, Joined, SideBySide
<1>10. buf = xy \o z
  BY <1>1, <1>9, SameString
<1>11. EncodeBody("Ack", body) = xy \o z
  BY <1>7 DEF EncodeBody, xy, x, y, z
<1>12. Encodable("Ack", body)
  BY DEF Encodable
<1> QED BY <1>6, <1>10, <1>11, <1>12

\* A place in the whole that falls within a piece is a place in the piece.
LEMMA PlaceWithin ==
    ASSUME NEW u, NEW a \in Nat, NEW x, NEW m \in Nat, AtPlace(u, a, x, m),
           NEW b \in Nat, NEW y, NEW n \in Nat, AtPlace(u, a + b, y, n), b + n <= m
    PROVE  AtPlace(x, b, y, n)
<1> SUFFICES ASSUME NEW i \in 1 .. n PROVE x[b + i] = y[i]
  BY DEF AtPlace
<1>1. b + i \in 1 .. m /\ (a + b) + i = a + (b + i)
  OBVIOUS
<1>2. u[a + (b + i)] = x[b + i] /\ u[(a + b) + i] = y[i]
  BY <1>1 DEF AtPlace
<1> QED BY <1>1, <1>2

\* The list of a Nack comes back from its encoding: the count is read before the
\* entries, and entry i stands i - 1 entries after the count.
LEMMA NackReturns ==
    ASSUME NEW body \in Bodies("Nack")
    PROVE  LET buf == EncodeBody("Nack", body)
           IN  Decodable("Nack", buf) /\ DecodeBody("Nack", buf) = body
<1> DEFINE L      == U32Len
           W      == U16Len
           q      == body.missing
           x      == ToBytes(Len(q), W)
           blocks == [i \in DOMAIN q |-> ToBytes(q[i], L)]
           F      == FlattenSeq(blocks)
           buf    == x \o F
<1>1. body \in [missing : BoundedSeq(UInt(L), MaxNackEntries)]
  BY DEF Bodies
<1>2. L \in Nat /\ W \in Nat /\ MaxNackEntries \in Nat
  BY Widths
<1>3. PICK c \in 0 .. MaxNackEntries : q \in Str(c, UInt(L))
  BY <1>1, <1>2, BoundedIs
<1>4. c \in Nat /\ c \in UInt(W) /\ Len(q) = c /\ DOMAIN q = 1 .. c /\ c <= MaxNackEntries
  BY <1>2, <1>3, StringIs, Widths
<1>5. \A i \in 1 .. c : q[i] \in UInt(L) /\ ToBytes(q[i], L) \in Str(L, Byte)
  BY <1>2, <1>3, <1>4, Written DEF Str
<1>6. x = ToBytes(c, W) /\ x \in Str(W, Byte)
  BY <1>2, <1>4, Written
<1>7. blocks \in Str(c, Str(L, Byte)) /\ \A i \in 1 .. c : blocks[i] = ToBytes(q[i], L)
  <2>1. blocks = [i \in 1 .. c |-> ToBytes(q[i], L)]
    BY <1>4
  <2>2. blocks \in [1 .. c -> Str(L, Byte)]
    BY <1>5, <2>1
  <2>3. Str(c, Str(L, Byte)) = [1 .. c -> Str(L, Byte)]
    BY DEF Str
  <2> QED BY <2>1, <2>2, <2>3
<1>8. EncodeBody("Nack", body) = buf
  BY DEF EncodeBody
<1> HIDE DEF blocks, x
<1>9. c * L \in Nat
  BY <1>2, <1>4
<1>10. F \in Str(c * L, Byte) /\ \A i \in 1 .. c : AtPlace(F, (i - 1) * L, blocks[i], L)
  BY <1>2, <1>4, <1>7, Flattened
<1> HIDE DEF F
<1>11. /\ buf \in Str(W + c * L, Byte) /\ W + c * L \in Nat
       /\ AtPlace(buf, 0, x, W) /\ AtPlace(buf, W, F, c * L)
  BY <1>2, <1>6, <1>9, <1>10, Joined
<1> HIDE DEF buf, q
<1>12. Len(buf) = W + c * L
  BY <1>11, StringIs
<1>13. Take(buf, 0, W) = c
  BY <1>2, <1>4, <1>6, <1>9, <1>11, TakeIs
<1>14. ASSUME NEW i \in 1 .. c PROVE Take(buf, W + (i - 1) * L, L) = q[i]
  <2> DEFINE a == (i - 1) * L
  <2>1. a \in Nat /\ a + L <= c * L
    BY <1>2, <1>4, Blocks
  <2>2. AtPlace(F, a, ToBytes(q[i], L), L)
    BY <1>7, <1>10
  <2> HIDE DEF a
  <2>3. AtPlace(buf, W + a, ToBytes(q[i], L), L)
    BY <1>2, <1>9, <1>11, <2>1, <2>2, PlaceInPlace
  <2>4. W + a \in Nat /\ (W + a) + L <= W + c * L /\ q[i] \in UInt(L)
    BY <1>2, <1>5, <1>9, <2>1
  <2>5. Take(buf, W + a, L) = q[i]
    BY <1>2, <1>11, <2>3, <2>4, TakeIs
  <2> QED BY <2>5 DEF a
<1>15. Decodable("Nack", buf)
  BY <1>2, <1>4, <1>9, <1>12, <1>13 DEF Decodable, ExpectLen
<1>16. DecodeBody("Nack", buf) = [missing |-> q]
  <2>1. DecodeBody("Nack", buf) =
          [missing |-> [i \in 1 .. Take(buf, 0, W) |-> Take(buf, W + (i - 1) * L, L)]]
    BY DEF DecodeBody
  <2>2. q = [i \in 1 .. c |-> q[i]]
    BY <1>3 DEF Str
  <2>3. [i \in 1 .. c |-> Take(buf, W + (i - 1) * L, L)] = [i \in 1 .. c |-> q[i]]
    BY <1>14
  <2> QED BY <1>13, <2>1, <2>2, <2>3
<1>17. [missing |-> q] = body
  BY <1>1 DEF q
<1> QED BY <1>8, <1>15, <1>16, <1>17

\* Bytes that decode as Nack are what its body is encoded as, so its length is the one the
\* count says.
LEMMA NackStands ==
    ASSUME NEW n \in Nat, NEW buf \in Str(n, Byte), Decodable("Nack", buf)
    PROVE  LET body == DecodeBody("Nack", buf)
           IN  Encodable("Nack", body) /\ EncodeBody("Nack", body) = buf
<1> DEFINE L      == U32Len
           W      == U16Len
           c      == Take(buf, 0, W)
           q      == [i \in 1 .. c |-> Take(buf, W + (i - 1) * L, L)]
           body   == [missing |-> q]
           x      == ToBytes(c, W)
           blocks == [i \in DOMAIN q |-> ToBytes(q[i], L)]
           r      == Cut(buf, W, c * L)
<1>1. L \in Nat \ {0} /\ L \in Nat /\ W \in Nat /\ MaxNackEntries \in Nat
  BY Widths
<1>2. W <= n /\ c <= MaxNackEntries /\ n = W + c * L
  BY <1>1, StringIs DEF Decodable, ExpectLen
<1>3. x \in Str(W, Byte) /\ AtPlace(buf, 0, x, W) /\ c \in UInt(W)
  BY <1>1, <1>2, TakenStands
<1>4. c \in Nat
  BY <1>1, <1>3, WrittenThenRead
<1>5. DecodeBody("Nack", buf) = body
  BY DEF DecodeBody
<1> HIDE DEF x, c
<1>6. c * L \in Nat
  BY <1>1, <1>4
<1>7. ASSUME NEW i \in 1 .. c
      PROVE  /\ q[i] \in UInt(L) /\ ToBytes(q[i], L) \in Str(L, Byte)
             /\ AtPlace(buf, W + (i - 1) * L, ToBytes(q[i], L), L)
             /\ (i - 1) * L \in Nat /\ (i - 1) * L + L <= c * L
  <2> DEFINE a == (i - 1) * L
             t == Take(buf, W + a, L)
  <2>1. a \in Nat /\ a + L <= c * L
    BY <1>1, <1>4, Blocks
  <2>2. q[i] = t
    OBVIOUS
  <2> HIDE DEF q
  <2>3. W + a \in Nat /\ (W + a) + L <= n
    BY <1>1, <1>2, <1>6, <2>1
  <2>4. t \in UInt(L) /\ ToBytes(t, L) \in Str(L, Byte) /\ AtPlace(buf, W + a, ToBytes(t, L), L)
    <3> HIDE DEF a
    <3> QED BY <1>1, <2>3, TakenStands
  <2> HIDE DEF t
  <2> QED BY <2>1, <2>2, <2>4
<1>8. DOMAIN q = 1 .. c
  OBVIOUS
<1>9. Len(q) = c
  BY <1>4, <1>8
<1>10. body.missing = q
  OBVIOUS
<1> HIDE DEF q
<1>11. blocks \in Str(c, Str(L, Byte)) /\ \A i \in 1 .. c : blocks[i] = ToBytes(q[i], L)
  <2>1. blocks = [i \in 1 .. c |-> ToBytes(q[i], L)]
    BY <1>8
  <2>2. blocks \in [1 .. c -> Str(L, Byte)]
    BY <1>7, <2>1
  <2>3. Str(c, Str(L, Byte)) = [1 .. c -> Str(L, Byte)]
    BY DEF Str
  <2> QED BY <2>1, <2>2, <2>3
<1>12. r \in Str(c * L, Byte) /\ AtPlace(buf, W, r, c * L)
  BY <1>1, <1>2, <1>6, CutOut
<1> HIDE DEF blocks, r
<1>13. ASSUME NEW i \in 1 .. c PROVE AtPlace(r, (i - 1) * L, blocks[i], L)
  <2> DEFINE a == (i - 1) * L
  <2>1. a \in Nat /\ a + L <= c * L /\ AtPlace(buf, W + a, blocks[i], L)
    BY <1>7, <1>11
  <2> HIDE DEF a
  <2>2. AtPlace(r, a, blocks[i], L)
    BY <1>1, <1>6, <1>12, <2>1, PlaceWithin
  <2> QED BY <2>2 DEF a
<1>14. FlattenSeq(blocks) = r
  BY <1>1, <1>4, <1>11, <1>12, <1>13, FlattenedIs
<1>15. x \o r \in Str(W + c * L, Byte) /\ AtPlace(buf, 0, x \o r, W + c * L)
  <2>1. 0 + W = W
    BY <1>1
  <2> QED BY <1>1, <1>3, <1>6, <1>12, <2>1, Joined, SideBySide
<1>16. buf = x \o r
  BY <1>2, <1>15, SameString
<1> HIDE DEF body
<1>17. EncodeBody("Nack", body) = x \o FlattenSeq(blocks)
  BY <1>9, <1>10 DEF EncodeBody, x, blocks
<1>18. Encodable("Nack", body)
  BY <1>2, <1>9, <1>10 DEF Encodable
<1> QED BY <1>5, <1>14, <1>16, <1>17, <1>18

\* Every kind: what can be encoded decodes to itself ...
LEMMA EveryBodyReturns ==
    ASSUME NEW kind \in Kinds, NEW body \in Bodies(kind)
    PROVE  LET buf == EncodeBody(kind, body)
           IN  Decodable(kind, buf) /\ DecodeBody(kind, buf) = body
BY DataReturns, EndReturns, EndAckReturns, AckReturns, NackReturns, KeepaliveReturns DEF Kinds

\* ... and what decodes is what would be encoded.
LEMMA EveryStringStands ==
    ASSUME NEW kind \in Kinds, NEW m \in Nat, NEW buf \in BoundedSeq(Byte, m), Decodable(kind, buf)
    PROVE  LET body == DecodeBody(kind, buf)
           IN  Encodable(kind, body) /\ EncodeBody(kind, body) = buf
<1>1. PICK n \in 0 .. m : buf \in Str(n, Byte)
  BY BoundedIs
<1>2. n \in Nat
  OBVIOUS
<1> QED BY <1>1, <1>2, DataStands, EndStands, EndAckStands, AckStands, NackStands,
           KeepaliveStands DEF Kinds

\* encode_body and decode_body are inverse to each other: a body that fits its
\* types comes back from its encoding, and a byte string of whatever length that
\* decodes is the encoding of what it decodes to, so a body has one encoding.
THEOREM OneToOneForAnyLength ==
    \A n \in Nat, kind \in Kinds :
        /\ \A body \in Bodies(kind) :
              LET buf == EncodeBody(kind, body)
              IN  Decodable(kind, buf) /\ DecodeBody(kind, buf) = body
        /\ \A buf \in BoundedSeq(Byte, n) :
              Decodable(kind, buf) =>
                  LET body == DecodeBody(kind, buf)
                  IN  Encodable(kind, body) /\ EncodeBody(kind, body) = buf
BY EveryBodyReturns, EveryStringStands, Zenon

-----------------------------------------------------------------------------
\* A kind and its byte.
LEMMA KindReturns ==
    ASSUME NEW kind \in Kinds
    PROVE  KindByte[kind] \in Byte /\ KindOf(KindByte[kind]) = kind
<1>1. KindByte[kind] \in Byte
  BY CodecAssumption DEF Kinds, KindByte, Byte
<1>2. ASSUME NEW k \in Kinds, KindByte[k] = KindByte[kind] PROVE k = kind
  BY <1>2 DEF Kinds, KindByte
<1> HIDE DEF KindByte
<1>3. KindOf(KindByte[kind]) = kind
  BY <1>2 DEF KindOf
<1> QED BY <1>1, <1>3

\* A datagram is parsed into the header and the text it was made of, and a relay
\* reads the same request id off it (to_bytes, parse, peek_request_id).
LEMMA HeaderReturns ==
    ASSUME NEW kind \in Kinds, NEW id \in Str(IdLen, Byte), NEW seq \in UInt(U32Len),
           NEW m \in Nat, NEW text \in Str(m, Byte)
    PROVE  LET h   == [kind |-> kind, request_id |-> id, seq |-> seq]
               buf == HeaderBytes(h) \o text
           IN  /\ Peekable(buf) /\ Parseable(buf) /\ PeekRequestId(buf) = id
               /\ ParsedHeader(buf) = h /\ AfterHeader(buf) = text
<1> DEFINE h   == [kind |-> kind, request_id |-> id, seq |-> seq]
           L   == U32Len
           I   == IdLen
           pre == <<Version, KindByte[kind]>>
           mid == pre \o id
           x   == ToBytes(seq, L)
           hd  == mid \o x
           buf == hd \o text
<1>1. L \in Nat /\ I \in Nat /\ 2 + I \in Nat /\ (2 + I) + L \in Nat /\ (2 + I) + L + m \in Nat
  BY Widths
<1>2. HeaderLen = (2 + I) + L
  BY <1>1 DEF HeaderLen
<1>3. KindByte[kind] \in Byte /\ KindOf(KindByte[kind]) = kind
  BY KindReturns
<1> HIDE DEF KindByte
<1>4. pre \in Str(2, Byte) /\ pre[1] = Version /\ pre[2] = KindByte[kind]
  <2>1. Version \in Byte
    BY CodecAssumption DEF Byte
  <2> QED BY <1>3, <2>1 DEF Str
<1>5. x \in Str(L, Byte)
  BY <1>1, Written
<1>6. HeaderBytes(h) = hd
  BY DEF HeaderBytes
<1> HIDE DEF pre, x
<1>7. mid \in Str(2 + I, Byte) /\ AtPlace(mid, 0, pre, 2) /\ AtPlace(mid, 2, id, I)
  BY <1>1, <1>4, Joined
<1> HIDE DEF mid
<1>8. hd \in Str((2 + I) + L, Byte) /\ AtPlace(hd, 0, mid, 2 + I) /\ AtPlace(hd, 2 + I, x, L)
  BY <1>1, <1>5, <1>7, Joined
<1> HIDE DEF hd
<1>9. /\ buf \in Str((2 + I) + L + m, Byte)
      /\ AtPlace(buf, 0, hd, (2 + I) + L) /\ AtPlace(buf, (2 + I) + L, text, m)
  BY <1>1, <1>8, Joined
<1> HIDE DEF buf
<1>10. AtPlace(buf, 0, mid, 2 + I) /\ AtPlace(buf, 2 + I, x, L)
  <2>1. /\ 0 + (2 + I) <= (2 + I) + L /\ 0 + 0 = 0 /\ 0 + (2 + I) = 2 + I
        /\ (2 + I) + L <= (2 + I) + L
    BY <1>1
  <2>2. AtPlace(buf, 0 + 0, mid, 2 + I) /\ AtPlace(buf, 0 + (2 + I), x, L)
    BY <1>1, <1>8, <1>9, <2>1, PlaceInPlace
  <2> QED BY <2>1, <2>2
<1>11. AtPlace(buf, 0, pre, 2) /\ AtPlace(buf, 2, id, I)
  <2>1. 0 + 2 <= 2 + I /\ 0 + 0 = 0 /\ 0 + 2 = 2 /\ 2 + I <= 2 + I
    BY <1>1
  <2>2. AtPlace(buf, 0 + 0, pre, 2) /\ AtPlace(buf, 0 + 2, id, I)
    BY <1>1, <1>7, <1>10, <2>1, PlaceInPlace
  <2> QED BY <2>1, <2>2
<1>12. Len(buf) = (2 + I) + L + m
  BY <1>1, <1>9, StringIs
<1>13. buf[1] = Version /\ buf[2] = KindByte[kind]
  BY <1>4, <1>11 DEF AtPlace
<1>14. Cut(buf, 2, I) = id
  <2>1. 2 + I <= (2 + I) + L + m
    BY <1>1
  <2> QED BY <1>1, <1>9, <1>11, <2>1, CutIs
<1>15. Take(buf, 2 + I, L) = seq
  <2>1. (2 + I) + L <= (2 + I) + L + m
    BY <1>1
  <2> QED BY <1>1, <1>9, <1>10, <2>1, TakeIs DEF x
<1>16. Cut(buf, (2 + I) + L, m) = text
  <2>1. ((2 + I) + L) + m <= (2 + I) + L + m
    BY <1>1
  <2> QED BY <1>1, <1>9, <2>1, CutIs
<1>17. Peekable(buf) /\ Parseable(buf)
  BY <1>1, <1>2, <1>12, <1>13 DEF Peekable, Parseable
<1>18. PeekRequestId(buf) = id
  BY <1>14 DEF PeekRequestId, Cut
<1>19. ParsedHeader(buf) = h
  <2>1. SubSeq(buf, 3, 2 + IdLen) = id
    BY <1>14 DEF Cut
  <2>2. FromBytes(SubSeq(buf, 3 + IdLen, HeaderLen)) = seq
    <3>1. (2 + I) + 1 = 3 + IdLen
      BY <1>1
    <3> QED BY <1>2, <1>15, <3>1 DEF Take
  <2> QED BY <1>3, <1>13, <2>1, <2>2 DEF ParsedHeader
<1>20. AfterHeader(buf) = text
  BY <1>2, <1>12, <1>16 DEF AfterHeader, Cut
<1> HIDE DEF h
<1>21. HeaderBytes(h) \o text = buf
  BY <1>6 DEF buf
<1> QED BY <1>17, <1>18, <1>19, <1>20, <1>21 DEF h
=============================================================================
