-------------------------- MODULE ByteArrayProofs ---------------------------
(***************************************************************************)
(* Proofs about ByteArray and Codec, for every size of a node, every width *)
(* of the numbers and of the groups they are cut into, and every text.     *)
(*                                                                         *)
(* Induction over the groups of a number and over the pieces of a write is *)
(* done with a set of naturals (Induction), since recursive functions and  *)
(* sums have no other handle here.                                         *)
(***************************************************************************)
EXTENDS ByteArray, TLAPS, FiniteSetTheorems, SequenceTheorems, WellFoundedInduction

-----------------------------------------------------------------------------
(* Numbers. *)

\* A set of naturals with an element has a least one.
LEMMA LeastNatural ==
    ASSUME NEW S \in SUBSET Nat, S # {}
    PROVE  \E n \in S : \A m \in S : n <= m
<1> DEFINE R == OpToRel(<, Nat)
<1>1. PICK n \in S : \A m \in S : ~ (<<m, n>> \in R)
  <2>1. IsWellFoundedOn(R, Nat)
    BY NatLessThanWellFounded
  <2> QED BY <2>1, WFMin
<1>2. \A m \in S : ~ (m < n)
  BY <1>1 DEF OpToRel
<1> QED BY <1>2

\* A set that has 0, and with a number of 0 .. n the next one, has all of them.
LEMMA Induction ==
    ASSUME NEW n \in Nat, NEW P, 0 \in P, \A m \in 0 .. n - 1 : m \in P => m + 1 \in P
    PROVE  \A m \in 0 .. n : m \in P
<1> SUFFICES ASSUME ~ \A m \in 0 .. n : m \in P PROVE FALSE
  OBVIOUS
<1> DEFINE Bad == {m \in 0 .. n : m \notin P}
<1>1. PICK b \in Bad : \A m \in Bad : b <= m
  <2>1. Bad \in SUBSET Nat /\ Bad # {}
    OBVIOUS
  <2> QED BY <2>1, LeastNatural
<1>2. b # 0 /\ b - 1 \in 0 .. n - 1 /\ b - 1 \in P
  BY <1>1
<1>3. (b - 1) + 1 = b
  BY <1>1
<1> QED BY <1>1, <1>2, <1>3

\* Powers of two, from the number of subsets of a set.
LEMMA PowerIsNatural ==
    ASSUME NEW n \in Nat
    PROVE  2 ^ n \in Nat \ {0}
<1> DEFINE S == 1 .. n
<1>1. IsFiniteSet(S) /\ Cardinality(S) = n
  BY FS_Interval
<1>2. IsFiniteSet(SUBSET S) /\ Cardinality(SUBSET S) = 2 ^ n
  BY <1>1, FS_SUBSET
<1>3. Cardinality(SUBSET S) \in Nat /\ SUBSET S # {}
  BY <1>2, FS_CardinalityType
<1>4. Cardinality(SUBSET S) # 0
  BY <1>2, <1>3, FS_EmptySet
<1> QED BY <1>2, <1>3, <1>4

\* One element more doubles the number of subsets.
LEMMA PowerOfNext ==
    ASSUME NEW n \in Nat
    PROVE  2 ^ (n + 1) = 2 * 2 ^ n
<1> DEFINE S == 1 .. n
           T == 1 .. n + 1
           New == {x \cup {n + 1} : x \in SUBSET S}
<1>1. IsFiniteSet(S) /\ Cardinality(S) = n /\ IsFiniteSet(T) /\ Cardinality(T) = n + 1
  BY FS_Interval
<1>2. /\ IsFiniteSet(SUBSET S) /\ Cardinality(SUBSET S) = 2 ^ n
      /\ IsFiniteSet(SUBSET T) /\ Cardinality(SUBSET T) = 2 ^ (n + 1)
  BY <1>1, FS_SUBSET
<1>3. n + 1 \notin S /\ T = S \cup {n + 1}
  OBVIOUS
<1> HIDE DEF S, T
<1>4. SUBSET T = (SUBSET S) \cup New
  <2>1. ASSUME NEW x \in SUBSET T, n + 1 \in x PROVE x \in New
    <3>1. x \ {n + 1} \in SUBSET S /\ x = (x \ {n + 1}) \cup {n + 1}
      BY <1>3, <2>1
    <3> QED BY <3>1
  <2>2. ASSUME NEW x \in SUBSET T, n + 1 \notin x PROVE x \in SUBSET S
    BY <1>3, <2>2
  <2>3. ASSUME NEW x \in SUBSET S PROVE x \in SUBSET T /\ x \cup {n + 1} \in SUBSET T
    BY <1>3
  <2>4. \A x \in (SUBSET S) \cup New : x \in SUBSET T
    BY <2>3
  <2>5. \A x \in SUBSET T : x \in (SUBSET S) \cup New
    BY <2>1, <2>2
  <2> QED BY <2>4, <2>5
<1>5. (SUBSET S) \cap New = {}
  BY <1>3
<1>6. IsFiniteSet(New) /\ Cardinality(New) = 2 ^ n
  <2> DEFINE f == [x \in SUBSET S |-> x \cup {n + 1}]
  <2>1. f \in Bijection(SUBSET S, New)
    <3>1. f \in Surjection(SUBSET S, New)
      BY DEF Surjection
    <3>2. ASSUME NEW x \in SUBSET S, NEW y \in SUBSET S, f[x] = f[y] PROVE x = y
      <4>1. x = f[x] \ {n + 1} /\ y = f[y] \ {n + 1}
        BY <1>3
      <4> QED BY <3>2, <4>1
    <3>3. f \in [SUBSET S -> New]
      OBVIOUS
    <3> HIDE DEF f
    <3>4. f \in Injection(SUBSET S, New)
      BY <3>2, <3>3 DEF Injection, IsInjective
    <3> QED BY <3>1, <3>4 DEF Bijection
  <2>2. ExistsBijection(SUBSET S, New)
    BY <2>1 DEF ExistsBijection
  <2> QED BY <1>2, <2>2, FS_Bijection
<1> HIDE DEF New
<1>7. Cardinality(SUBSET T) = 2 ^ n + 2 ^ n - Cardinality({})
  <2>1. Cardinality((SUBSET S) \cup New)
          = Cardinality(SUBSET S) + Cardinality(New) - Cardinality((SUBSET S) \cap New)
    BY <1>2, <1>6, FS_Union
  <2> QED BY <1>2, <1>4, <1>5, <1>6, <2>1
<1>8. Cardinality({}) = 0
  BY FS_EmptySet
<1> QED BY <1>2, <1>7, <1>8, PowerIsNatural

\* The power of a sum is the product of the powers.
LEMMA PowerOfSum ==
    ASSUME NEW m \in Nat, NEW n \in Nat
    PROVE  2 ^ (m + n) = 2 ^ m * 2 ^ n
<1> DEFINE P == {k \in Nat : 2 ^ (m + k) = 2 ^ m * 2 ^ k}
<1>1. 0 \in P
  <2>1. 2 ^ 0 = 1 /\ m + 0 = m
    OBVIOUS
  <2> QED BY <2>1, PowerIsNatural
<1>2. ASSUME NEW k \in 0 .. n - 1, k \in P PROVE k + 1 \in P
  <2>1. /\ 2 ^ (m + k) \in Nat /\ 2 ^ m \in Nat /\ 2 ^ k \in Nat
        /\ 2 ^ (m + k) = 2 ^ m * 2 ^ k
    BY <1>2, PowerIsNatural
  <2>2. 2 ^ ((m + k) + 1) = 2 * 2 ^ (m + k) /\ 2 ^ (k + 1) = 2 * 2 ^ k
    BY PowerOfNext
  <2>3. (m + k) + 1 = m + (k + 1)
    OBVIOUS
  <2>4. \A a, b, c \in Nat : a = b * c => 2 * a = b * (2 * c)
    OBVIOUS
  <2> QED BY <2>1, <2>2, <2>3, <2>4
<1> QED
  <2> HIDE DEF P
  <2>1. \A k \in 0 .. n : k \in P
    BY <1>1, <1>2, Induction
  <2>2. n \in P
    BY <2>1
  <2> QED BY <2>2 DEF P

\* A function that is defined by recursion on 0 .. n exists, and has its type.
LEMMA Iteration ==
    ASSUME NEW S, NEW a \in S, NEW n \in Nat, NEW F \in [1 .. n -> [S -> S]]
    PROVE  \E g \in [0 .. n -> S] : g[0] = a /\ \A i \in 1 .. n : g[i] = F[i][g[i - 1]]
<1> DEFINE Fits(g, m) == g[0] = a /\ \A i \in 1 .. m : g[i] = F[i][g[i - 1]]
           P == {m \in 0 .. n : \E g \in [0 .. m -> S] : Fits(g, m)}
<1>1. 0 \in P
  <2> DEFINE g == [i \in 0 .. 0 |-> a]
  <2>1. g \in [0 .. 0 -> S] /\ Fits(g, 0)
    OBVIOUS
  <2> HIDE DEF g, Fits
  <2>2. 0 \in 0 .. n
    OBVIOUS
  <2> QED BY <2>1, <2>2
<1>2. ASSUME NEW m \in 0 .. n - 1, m \in P PROVE m + 1 \in P
  <2>1. PICK g \in [0 .. m -> S] : Fits(g, m)
    BY <1>2
  <2> DEFINE h == [i \in 0 .. m + 1 |-> IF i = m + 1 THEN F[m + 1][g[m]] ELSE g[i]]
  <2>2. F[m + 1][g[m]] \in S
    OBVIOUS
  <2>3. h \in [0 .. m + 1 -> S]
    BY <2>2
  <2>4. h[0] = a
    BY <2>1
  <2>5. ASSUME NEW i \in 1 .. m + 1 PROVE h[i] = F[i][h[i - 1]]
    BY <2>1
  <2>6. Fits(h, m + 1)
    BY <2>4, <2>5
  <2> HIDE DEF h, Fits
  <2>7. m + 1 \in 0 .. n
    OBVIOUS
  <2> QED BY <2>3, <2>6, <2>7
<1>3. n \in P
  <2> HIDE DEF P
  <2>1. \A m \in 0 .. n : m \in P
    BY <1>1, <1>2, Induction
  <2> QED BY <2>1
<1> QED BY <1>3

\* The steps F, and g as the results of applying them one after the other to a.
Iterates(g, S, a, n, F) == g \in [0 .. n -> S] /\ g[0] = a /\ \A i \in 1 .. n : g[i] = F[i][g[i - 1]]
Steps(n, S) == [1 .. n -> [S -> S]]

\* Functions to be applied one after the other have a sequence of results.
LEMMA CanIterate ==
    ASSUME NEW S, NEW a, NEW n, NEW F, a \in S, n \in Nat, F \in Steps(n, S)
    PROVE  \E g : Iterates(g, S, a, n, F)
  BY Iteration, SMTT(30) DEF Iterates, Steps

\* Division with remainder.
LEMMA Division ==
    ASSUME NEW a \in Nat, NEW b \in Nat \ {0}
    PROVE  a \div b \in Nat /\ a % b \in 0 .. b - 1 /\ a = b * (a \div b) + (a % b)
  OBVIOUS

\* A quotient and a remainder determine each other.
LEMMA Quotient ==
    ASSUME NEW b \in Nat \ {0}, NEW q \in Nat, NEW r \in 0 .. b - 1
    PROVE  (b * q + r) \div b = q /\ (b * q + r) % b = r
  OBVIOUS

\* The larger of two numbers.
LEMMA MaxOfTwo ==
    ASSUME NEW a \in Int, NEW b \in Int
    PROVE  Max({a, b}) = IF a >= b THEN a ELSE b
  BY DEF Max

\* The smaller of two numbers.
LEMMA MinOfTwo ==
    ASSUME NEW a \in Int, NEW b \in Int
    PROVE  Min({a, b}) = IF a <= b THEN a ELSE b
  BY DEF Min

\* A least element is the minimum.
LEMMA LeastIsMin ==
    ASSUME NEW S \in SUBSET Nat, NEW n \in S, \A m \in S : n <= m
    PROVE  Min(S) = n
<1> DEFINE x == Min(S)
<1>1. x \in S /\ \A m \in S : x <= m
  BY DEF Min
<1> HIDE DEF x
<1>2. x = n
  BY <1>1
<1> QED BY <1>2 DEF x

\* A set of naturals with an element has its minimum among its elements.
LEMMA MinIsLeast ==
    ASSUME NEW S \in SUBSET Nat, S # {}
    PROVE  Min(S) \in S /\ \A m \in S : Min(S) <= m
  BY LeastNatural DEF Min

-----------------------------------------------------------------------------
(* The coding of numbers. *)

\* What the low groups of a number are worth.
Power(i) == 2 ^ (Group * i)

\* 2 ^ Width values and 2 ^ Group of a group are positive numbers, and the powers start at 1.
LEMMA Powers ==
    /\ Width \in Nat \ {0} /\ Group \in Nat \ {0}
    /\ More \in Nat \ {0} /\ Byte = 0 .. 2 * More - 1
    /\ 2 ^ Width \in Nat \ {0} /\ 2 ^ (Width - 1) \in Nat \ {0} /\ 2 ^ Width = 2 * 2 ^ (Width - 1)
    /\ Power(0) = 1 /\ Power(1) = More
<1>1. Width \in Nat \ {0} /\ Group \in Nat \ {0} /\ Width - 1 \in Nat /\ (Width - 1) + 1 = Width
  BY WidthAssumption
<1>2. More \in Nat \ {0} /\ 2 ^ (Group + 1) = 2 * More
  BY <1>1, PowerIsNatural, PowerOfNext DEF More
<1>3. /\ 2 ^ Width \in Nat \ {0} /\ 2 ^ (Width - 1) \in Nat \ {0}
      /\ 2 ^ Width = 2 * 2 ^ (Width - 1)
  BY <1>1, PowerIsNatural, PowerOfNext
<1>4. Group * 0 = 0 /\ Group * 1 = Group /\ 2 ^ 0 = 1
  BY <1>1
<1> QED BY <1>1, <1>2, <1>3, <1>4 DEF Power, Byte, More

\* The next group is worth More times as much.
LEMMA PowerOfGroup ==
    ASSUME NEW i \in Nat
    PROVE  Power(i) \in Nat \ {0} /\ Power(i + 1) = More * Power(i)
<1>1. Group \in Nat /\ Group * i \in Nat /\ Group * (i + 1) = Group + Group * i
  BY WidthAssumption
<1>2. 2 ^ (Group + Group * i) = 2 ^ Group * 2 ^ (Group * i)
  BY <1>1, PowerOfSum
<1> QED BY <1>1, <1>2, PowerIsNatural DEF Power, More

\* The loops run often enough for every number.
LEMMA GroupsSuffice ==
    /\ MaxGroups \in Nat \ {0}
    /\ \A v \in Unsigned : v < Power(MaxGroups)
<1>1. /\ Width \in Nat \ {0} /\ Group \in Nat \ {0}
  BY WidthAssumption
<1>2. PICK a \in Nat : a = Width + Group - 1
  BY <1>1
<1>3. MaxGroups = a \div Group /\ a \div Group \in Nat /\ a % Group \in 0 .. Group - 1
      /\ a = Group * (a \div Group) + (a % Group)
  BY <1>1, <1>2, Division DEF MaxGroups
<1>4. MaxGroups \in Nat /\ Group * MaxGroups >= Width
  BY <1>1, <1>2, <1>3
<1>5. MaxGroups # 0
  BY <1>1, <1>4
<1>6. PICK d \in Nat : Group * MaxGroups = Width + d
  <2>1. Group * MaxGroups - Width \in Nat
    BY <1>1, <1>4
  <2> QED BY <1>1, <1>4, <2>1
<1>7. Power(MaxGroups) = 2 ^ Width * 2 ^ d
  BY <1>1, <1>6, PowerOfSum DEF Power
<1>8. 2 ^ Width \in Nat \ {0} /\ 2 ^ d \in Nat \ {0}
  BY <1>1, PowerIsNatural
<1>9. \A x, y \in Nat \ {0} : x * y >= x
  OBVIOUS
<1>10. Power(MaxGroups) >= 2 ^ Width
  BY <1>7, <1>8, <1>9
<1> QED BY <1>4, <1>5, <1>7, <1>8, <1>10 DEF Unsigned

\* writeUint32: the number is cut into n groups of bits, and all bytes but the
\* last have the marker.
LEMMA Encoded ==
    ASSUME NEW v \in Unsigned
    PROVE  \E n \in 1 .. MaxGroups :
             /\ v < Power(n)
             /\ EncodeUint(v) \in Seq(Byte) /\ Len(EncodeUint(v)) = n
             /\ \A i \in 1 .. n : /\ EncodeUint(v)[i] % More = (v \div Power(i - 1)) % More
                                  /\ i < n <=> EncodeUint(v)[i] >= More
<1> DEFINE Fits(k) == v < 2 ^ (Group * k) /\ (k = 1 \/ v >= 2 ^ (Group * (k - 1)))
           n == CHOOSE k \in 1 .. MaxGroups : Fits(k)
           B(i) == ((v \div Power(i - 1)) % More) + (IF i < n THEN More ELSE 0)
<1>0. v \in Nat /\ MaxGroups \in Nat \ {0} /\ v < Power(MaxGroups)
  BY GroupsSuffice, Powers DEF Unsigned
<1>1. \E k \in 1 .. MaxGroups : Fits(k)
  <2> DEFINE S == {k \in 1 .. MaxGroups : v < Power(k)}
  <2>1. S \in SUBSET Nat /\ MaxGroups \in S
    BY <1>0
  <2>2. PICK k \in S : \A m \in S : k <= m
    BY <2>1, LeastNatural
  <2>3. ASSUME k # 1 PROVE v >= Power(k - 1)
    <3>1. k - 1 \in 1 .. MaxGroups /\ k - 1 \notin S
      BY <1>0, <2>2, <2>3
    <3>2. Power(k - 1) \in Nat
      BY <3>1, PowerOfGroup
    <3> QED BY <1>0, <3>1, <3>2
  <2>4. v < Power(k)
    BY <2>2
  <2> QED BY <2>2, <2>3, <2>4 DEF Power
<1>2. n \in 1 .. MaxGroups /\ Fits(n)
  BY <1>1
<1>3. EncodeUint(v) = [i \in 1 .. n |-> B(i)]
  BY DEF EncodeUint, Power
<1> HIDE DEF n
<1>4. ASSUME NEW i \in 1 .. n
      PROVE  /\ B(i) \in Byte
             /\ B(i) % More = (v \div Power(i - 1)) % More
             /\ i < n <=> B(i) >= More
  <2>1. PICK p \in Nat \ {0} : p = Power(i - 1)
    BY <1>2, PowerOfGroup
  <2>2. PICK q \in Nat : q = v \div p
    BY <1>0, Division
  <2>3. PICK r \in 0 .. More - 1 : r = q % More
    BY Powers, Division
  <2>4. B(i) = IF i < n THEN More * 1 + r ELSE More * 0 + r
    BY <2>1, <2>2, <2>3, Powers
  <2>5. (More * 1 + r) % More = r /\ (More * 0 + r) % More = r
    BY Powers, Quotient
  <2>6. n \in Nat /\ i \in Nat
    BY <1>2
  <2>7. (v \div Power(i - 1)) % More = r
    BY <2>1, <2>2, <2>3
  <2> HIDE DEF B
  <2>8. B(i) \in Byte
    BY <2>3, <2>4, Powers
  <2>9. B(i) % More = r
    BY <2>4, <2>5
  <2>10. i < n <=> B(i) >= More
    BY <2>3, <2>4, <2>6, Powers
  <2> QED BY <2>7, <2>8, <2>9, <2>10
<1>5. EncodeUint(v) \in Seq(Byte) /\ Len(EncodeUint(v)) = n
  <2>1. \A i \in 1 .. n : EncodeUint(v)[i] \in Byte
    BY <1>3, <1>4
  <2> QED BY <1>2, <1>3, <2>1
<1>6. v < Power(n)
  BY <1>2 DEF Power
<1> QED BY <1>2, <1>3, <1>4, <1>5, <1>6

\* readUint32: what result is after each byte.
LEMMA Decoded ==
    ASSUME NEW bytes \in Seq(Byte)
    PROVE  /\ DecodeUint(bytes) \in Nat
           /\ Decoding(bytes)[0] = 0
           /\ \A i \in 1 .. Len(bytes) :
                /\ Decoding(bytes)[i - 1] \in Nat
                /\ Decoding(bytes)[i] = Decoding(bytes)[i - 1] + Shifted(bytes[i], i)
<1> DEFINE n == Len(bytes)
           F == [i \in 1 .. n |-> [x \in Nat |-> x + Shifted(bytes[i], i)]]
           Defines(f) == f = [i \in 0 .. n |-> IF i = 0 THEN 0 ELSE f[i - 1] + Shifted(bytes[i], i)]
<1>0. n \in Nat
  OBVIOUS
<1>1. \A i \in 1 .. n : Shifted(bytes[i], i) \in Nat
  <2> SUFFICES ASSUME NEW i \in 1 .. n PROVE Shifted(bytes[i], i) \in Nat
    OBVIOUS
  <2>1. bytes[i] \in Nat
    BY Powers
  <2>2. bytes[i] % More \in Nat
    <3>1. More \in Nat \ {0}
      BY Powers
    <3>2. bytes[i] % More \in 0 .. More - 1
      BY <2>1, <3>1, Division
    <3> QED BY <3>1, <3>2
  <2>3. 2 ^ (Group * (i - 1)) \in Nat
    <3>1. i - 1 \in Nat
      OBVIOUS
    <3>2. Power(i - 1) \in Nat
      BY <3>1, PowerOfGroup
    <3> QED BY <3>2 DEF Power
  <2>4. PICK x \in Nat : x = (bytes[i] % More) * 2 ^ (Group * (i - 1))
    BY <2>2, <2>3
  <2>5. x % 2 ^ Width \in Nat
    BY Powers, Division
  <2> QED BY <2>4, <2>5 DEF Shifted
<1>2. F \in [1 .. n -> [Nat -> Nat]]
  BY <1>1
<1>3. PICK g \in [0 .. n -> Nat] : g[0] = 0 /\ \A i \in 1 .. n : g[i] = F[i][g[i - 1]]
  <2>1. PICK S, a : S = Nat /\ a = 0
    OBVIOUS
  <2>2. PICK m, G : m = n /\ G = F
    OBVIOUS
  <2>3. a \in S /\ m \in Nat /\ G \in Steps(m, S)
    BY <1>0, <1>2, <2>1, <2>2 DEF Steps
  <2> HIDE DEF F
  <2>4. \E g : Iterates(g, S, a, m, G)
    BY <2>3, CanIterate
  <2> QED BY <2>1, <2>2, <2>4 DEF Iterates
<1>4. Defines(g)
  <2> SUFFICES ASSUME NEW i \in 0 .. n
               PROVE  g[i] = IF i = 0 THEN 0 ELSE g[i - 1] + Shifted(bytes[i], i)
    BY <1>3
  <2>1. CASE i = 0
    BY <1>3, <2>1
  <2>2. CASE i # 0
    <3>1. i - 1 \in 0 .. n /\ i \in 1 .. n
      BY <2>2
    <3>2. F[i][g[i - 1]] = g[i - 1] + Shifted(bytes[i], i)
      BY <3>1
    <3>3. g[i] = F[i][g[i - 1]]
      BY <1>3, <3>1
    <3> QED BY <2>2, <3>2, <3>3
  <2> QED BY <2>1, <2>2
<1>5. Decoding(bytes) = CHOOSE f : Defines(f)
  BY DEF Decoding
<1>6. PICK f : f = Decoding(bytes)
  OBVIOUS
<1>7. Defines(f)
  <2> HIDE DEF Defines
  <2> QED BY <1>4, <1>5, <1>6
<1>8. f[0] = 0 /\ \A i \in 1 .. n : f[i] = f[i - 1] + Shifted(bytes[i], i)
  BY <1>7
<1> DEFINE P == {i \in 0 .. n : f[i] \in Nat}
<1>9. \A i \in 0 .. n : i \in P
  <2>1. 0 \in P
    BY <1>8
  <2>2. ASSUME NEW i \in 0 .. n - 1, i \in P PROVE i + 1 \in P
    <3>1. i + 1 \in 1 .. n /\ (i + 1) - 1 = i
      OBVIOUS
    <3>2. f[i + 1] = f[i] + Shifted(bytes[i + 1], i + 1)
      BY <1>8, <3>1
    <3>3. Shifted(bytes[i + 1], i + 1) \in Nat
      BY <1>1, <3>1
    <3> QED BY <2>2, <3>1, <3>2, <3>3
  <2> HIDE DEF P, n
  <2> QED BY <1>0, <2>1, <2>2, Induction
<1>10. \A i \in 0 .. n : f[i] \in Nat
  BY <1>9
<1> QED BY <1>6, <1>8, <1>10 DEF DecodeUint

\* One more group of a number.
LEMMA OneMoreGroup ==
    ASSUME NEW v \in Nat, NEW p \in Nat \ {0}, NEW m \in Nat \ {0}
    PROVE  /\ v % (m * p) = (v % p) + ((v \div p) % m) * p
           /\ ((v \div p) % m) * p <= v
<1>1. PICK q \in Nat, r \in 0 .. p - 1 : q = v \div p /\ r = v % p /\ v = p * q + r
  BY Division
<1>2. PICK s \in Nat, t \in 0 .. m - 1 : s = q \div m /\ t = q % m /\ q = m * s + t
  BY Division
<1>3. v = (m * p) * s + (t * p + r)
  <2>1. p * q = p * (m * s) + p * t
    BY <1>2
  <2> QED BY <1>1, <2>1
<1>4. m * p \in Nat \ {0} /\ t * p + r \in 0 .. m * p - 1
  <2>1. t * p <= (m - 1) * p
    OBVIOUS
  <2>2. (m - 1) * p = m * p - p /\ t * p \in Nat /\ m * p \in Nat /\ m * p # 0
    OBVIOUS
  <2> QED BY <2>1, <2>2
<1>5. v % (m * p) = t * p + r
  BY <1>3, <1>4, Quotient
<1>6. t * p <= v
  <2>1. t * p <= q * p
    BY <1>2
  <2> QED BY <1>1, <2>1
<1> QED BY <1>1, <1>2, <1>5, <1>6

\* What writeUint32 has written readUint32 gives back: after i bytes result has
\* the number's low i groups.
LEMMA UintComesBack ==
    ASSUME NEW v \in Unsigned
    PROVE  DecodeUint(EncodeUint(v)) = v
<1>1. PICK n \in 1 .. MaxGroups :
        /\ v < Power(n)
        /\ EncodeUint(v) \in Seq(Byte) /\ Len(EncodeUint(v)) = n
        /\ \A i \in 1 .. n : EncodeUint(v)[i] % More = (v \div Power(i - 1)) % More
  BY Encoded
<1>2. PICK bytes \in Seq(Byte) : bytes = EncodeUint(v)
  BY <1>1
<1>3. PICK f : f = Decoding(bytes)
  OBVIOUS
<1>4. /\ v \in Nat /\ v < 2 ^ Width /\ n \in Nat /\ Len(bytes) = n
  BY <1>1, <1>2, Powers, GroupsSuffice DEF Unsigned
<1>5. f[0] = 0 /\ \A i \in 1 .. n : f[i] = f[i - 1] + Shifted(bytes[i], i)
  BY <1>3, <1>4, Decoded
<1> DEFINE P == {i \in 0 .. n : f[i] = v % Power(i)}
<1>6. 0 \in P
  <2>1. v % 1 = 0
    BY <1>4
  <2> QED BY <1>4, <1>5, <2>1, Powers
<1>7. ASSUME NEW i \in 0 .. n - 1, i \in P PROVE i + 1 \in P
  <2>1. i + 1 \in 1 .. n /\ (i + 1) - 1 = i /\ i \in Nat
    BY <1>4
  <2>2. PICK p \in Nat \ {0} : p = Power(i) /\ Power(i + 1) = More * p
    BY <2>1, PowerOfGroup
  <2>3. bytes[i + 1] % More = (v \div p) % More
    BY <1>1, <1>2, <2>1, <2>2
  <2>4. PICK t \in Nat : t = ((v \div p) % More) * p
    <3>1. v \div p \in Nat
      BY <1>4, Division
    <3>2. More \in Nat \ {0}
      BY Powers
    <3>3. (v \div p) % More \in 0 .. More - 1
      BY <3>1, <3>2, Division
    <3> QED BY <3>2, <3>3
  <2>5. v % (More * p) = (v % p) + t /\ t <= v
    <3>1. More \in Nat \ {0}
      BY Powers
    <3>2. /\ v % (More * p) = (v % p) + ((v \div p) % More) * p
          /\ ((v \div p) % More) * p <= v
      BY <1>4, <3>1, OneMoreGroup
    <3> QED BY <2>4, <3>2
  <2>6. Shifted(bytes[i + 1], i + 1) = t % 2 ^ Width
    BY <2>1, <2>2, <2>3, <2>4 DEF Shifted, Power
  <2>7. t % 2 ^ Width = t
    <3>1. PICK w \in Nat \ {0} : w = 2 ^ Width
      BY Powers
    <3>2. t \in 0 .. w - 1 /\ w * 0 + t = t
      BY <1>4, <2>5, <3>1
    <3>3. (w * 0 + t) % w = t
      BY <3>2, Quotient
    <3> QED BY <3>1, <3>2, <3>3
  <2>8. f[i + 1] = f[i] + t
    BY <1>5, <2>1, <2>6, <2>7
  <2> QED BY <1>7, <2>1, <2>2, <2>5, <2>8
<1>8. n \in P
  <2> HIDE DEF P
  <2>1. \A i \in 0 .. n : i \in P
    BY <1>4, <1>6, <1>7, Induction
  <2> QED BY <1>4, <2>1
<1>9. f[n] = v
  <2>1. PICK p \in Nat \ {0} : p = Power(n)
    BY <1>4, PowerOfGroup
  <2>2. v \in 0 .. p - 1 /\ p * 0 + v = v
    BY <1>1, <1>4, <2>1
  <2>3. (p * 0 + v) % p = v
    BY <2>2, Quotient
  <2>4. f[n] = v % p
    BY <1>8, <2>1
  <2> QED BY <2>2, <2>3, <2>4
<1> QED BY <1>2, <1>3, <1>4, <1>9 DEF DecodeUint

\* readUint32 stops behind the last byte writeUint32 wrote, whatever follows.
LEMMA UintIsFound ==
    ASSUME NEW v \in Unsigned, NEW text \in Seq(Byte), IsPrefix(EncodeUint(v), text)
    PROVE  /\ UintLength(text) = Len(EncodeUint(v))
           /\ SubSeq(text, 1, UintLength(text)) = EncodeUint(v)
<1>1. PICK n \in 1 .. MaxGroups :
        /\ EncodeUint(v) \in Seq(Byte) /\ Len(EncodeUint(v)) = n
        /\ \A i \in 1 .. n : i < n <=> EncodeUint(v)[i] >= More
  BY Encoded
<1>2. PICK bytes \in Seq(Byte) : bytes = EncodeUint(v)
  BY <1>1
<1>3. n \in Nat \ {0} /\ Len(bytes) = n /\ n <= Len(text) /\ MaxGroups \in Nat
  BY <1>1, <1>2, GroupsSuffice DEF IsPrefix
<1>4. SubSeq(bytes, 1, n) = SubSeq(text, 1, n) /\ SubSeq(bytes, 1, n) = bytes
  BY <1>1, <1>2, <1>3, SubSeqFull DEF IsPrefix
<1>5. \A i \in 1 .. n : text[i] = bytes[i]
  <2>1. \A i \in 1 .. n : SubSeq(text, 1, n)[i] = text[i]
    BY <1>3
  <2> QED BY <1>4, <2>1
<1> DEFINE ends == {i \in DOMAIN text : i = MaxGroups \/ text[i] < More}
<1>6. \A i \in 1 .. n : bytes[i] \in Nat
  BY <1>3, Powers
<1>7. n \in ends
  <2>1. text[n] < More
    BY <1>1, <1>2, <1>3, <1>5, <1>6, Powers
  <2> QED BY <1>3, <2>1
<1>8. ASSUME NEW m \in ends PROVE n <= m
  <2> SUFFICES ASSUME m < n PROVE FALSE
    BY <1>3
  <2>1. m \in 1 .. n /\ m # MaxGroups
    BY <1>1, <1>3
  <2>2. text[m] >= More /\ text[m] < More /\ text[m] \in Nat
    BY <1>1, <1>2, <1>5, <1>6, <1>8, <2>1
  <2> QED BY <2>2, Powers
<1>9. Min(ends) = n
  <2>1. ends \in SUBSET Nat
    OBVIOUS
  <2> HIDE DEF ends
  <2> QED BY <1>7, <1>8, <2>1, LeastIsMin
<1>10. UintLength(text) = n
  BY <1>7, <1>9 DEF UintLength
<1> QED BY <1>2, <1>3, <1>4, <1>10

\* How many bytes readUint32 fetches.
LEMMA LengthIsAhead ==
    ASSUME NEW text \in Seq(Byte)
    PROVE  UintLength(text) \in 0 .. Len(text)
<1> DEFINE ends == {i \in DOMAIN text : i = MaxGroups \/ text[i] < More}
<1>1. ends \in SUBSET Nat /\ ends \subseteq 1 .. Len(text)
  OBVIOUS
<1>2. UintLength(text) = IF ends = {} THEN 0 ELSE Min(ends)
  BY DEF UintLength
<1> HIDE DEF ends
<1>3. CASE ends = {}
  BY <1>2, <1>3
<1>4. CASE ends # {}
  <2>1. Min(ends) \in ends
    BY <1>1, <1>4, MinIsLeast
  <2>2. Min(ends) \in 1 .. Len(text)
    BY <1>1, <2>1
  <2>3. UintLength(text) \in 1 .. Len(text)
    BY <1>2, <1>4, <2>2
  <2> QED BY <2>3
<1> QED BY <1>3, <1>4

\* The zigzag form takes every signed number, the least one too, to an unsigned
\* one and back.
LEMMA ZigzagComesBack ==
    ASSUME NEW v \in Signed
    PROVE  EncodeZigzag(v) \in Unsigned /\ DecodeZigzag(EncodeZigzag(v)) = v
<1>1. PICK h \in Nat \ {0} : h = 2 ^ (Width - 1) /\ 2 ^ Width = 2 * h
  BY Powers
<1>2. v \in Int /\ v >= -h /\ v <= h - 1
  BY <1>1 DEF Signed
<1>3. PICK u \in Nat : u = IF v < 0 THEN -v * 2 - 1 ELSE v * 2
  BY <1>2
<1>4. u < 2 * h
  BY <1>2, <1>3
<1>5. u % (2 * h) = u
  BY <1>4
<1>6. EncodeZigzag(v) = u
  BY <1>1, <1>3, <1>5 DEF EncodeZigzag
<1>7. DecodeZigzag(u) = v
  <2>1. CASE v < 0
    <3>1. u = 2 * (-v - 1) + 1 /\ -v - 1 \in Nat
      BY <1>2, <1>3, <2>1
    <3>2. u % 2 = 1 /\ u \div 2 = -v - 1
      BY <3>1
    <3> QED BY <1>1, <1>2, <2>1, <3>2 DEF DecodeZigzag
  <2>2. CASE ~ (v < 0)
    <3>1. u % 2 = 0 /\ u \div 2 = v
      BY <1>2, <1>3, <2>2
    <3> QED BY <1>1, <1>2, <2>2, <3>1 DEF DecodeZigzag
  <2> QED BY <2>1, <2>2
<1> QED BY <1>1, <1>4, <1>6, <1>7 DEF Unsigned

\* A fixed number is two bytes, and comes back in either order.
LEMMA FixedComesBack ==
    ASSUME NEW v \in Shorts, NEW b \in BOOLEAN
    PROVE  /\ Ordered(v, b) \in Seq(Byte) /\ Len(Ordered(v, b)) = 2
           /\ \A text \in Seq(Byte) : IsPrefix(Ordered(v, b), text) => Unordered(text, b) = v
<1>1. PICK m \in Nat \ {0} : m = 2 * More
  BY Powers
<1>2. v \in Nat /\ v < m * m /\ Byte = 0 .. m - 1
  BY <1>1, ArrayAssumption, Powers
<1>3. PICK q \in Nat, r \in 0 .. m - 1 : q = v \div m /\ r = v % m /\ v = m * q + r
  BY <1>2, Division
<1>4. q < m
  <2> SUFFICES ASSUME q >= m PROVE FALSE
    OBVIOUS
  <2>1. m * q >= m * m
    OBVIOUS
  <2> QED BY <1>2, <1>3, <2>1
<1>5. Ordered(v, b) = IF b THEN <<r, q>> ELSE <<q, r>>
  BY <1>1, <1>3 DEF Ordered
<1>6. q \in Byte /\ r \in Byte
  BY <1>2, <1>4
<1>7. Ordered(v, b) \in Seq(Byte) /\ Len(Ordered(v, b)) = 2
  BY <1>5, <1>6
<1>8. ASSUME NEW text \in Seq(Byte), IsPrefix(Ordered(v, b), text)
      PROVE  Unordered(text, b) = v
  <2>1. PICK o \in Seq(Byte) : o = Ordered(v, b) /\ Len(o) = 2
    BY <1>7
  <2>2. Len(text) >= 2 /\ SubSeq(o, 1, 2) = SubSeq(text, 1, 2)
    BY <1>8, <2>1 DEF IsPrefix
  <2>3. text[1] = o[1] /\ text[2] = o[2]
    <3>1. SubSeq(o, 1, 2)[1] = o[1] /\ SubSeq(o, 1, 2)[2] = o[2]
      BY <2>1
    <3>2. SubSeq(text, 1, 2)[1] = text[1] /\ SubSeq(text, 1, 2)[2] = text[2]
      BY <2>2
    <3> QED BY <2>2, <3>1, <3>2
  <2>4. Unordered(text, b) = r + m * q
    BY <1>1, <1>5, <2>1, <2>3 DEF Unordered
  <2> QED BY <1>3, <2>4
<1> QED BY <1>7, <1>8

-----------------------------------------------------------------------------
(* The chain of nodes. *)

\* The memory of a node (m_root and what it links to), and the members of the class.
Nodes == UNION {[1 .. b -> Byte] : b \in BaseSizes}
Records == [base : BaseSizes, nodes : Seq(Nodes), cur : Nat, position : Nat, size : Nat]

\* What is true of an array also after a call that the code gets wrong.
Arrays ==
    {a \in Records :
       /\ Len(a.nodes) >= 1 /\ \A i \in 1 .. Len(a.nodes) : a.nodes[i] \in [1 .. a.base -> Byte]
       /\ a.cur <= Len(a.nodes)
       /\ a.position <= a.size /\ a.size <= Capacity(a)}

\* m_cur is the node the position lies in.
Follows(a) == a.cur = NodeAt(a, a.position \div a.base + 1)

\* Byte number k of the memory, counted from 0, and the bytes of the array.
Cell(nodes, b, k) == nodes[k \div b + 1][(k % b) + 1]
At(a, k) == Cell(a.nodes, a.base, k)
\* The same when a text lies over them from first on.
Overlaid(a, text, first, k) ==
    IF k \in first .. first + Len(text) - 1 THEN text[k - first + 1] ELSE At(a, k)
Bytes(a) == [k \in 1 .. a.size |-> At(a, k - 1)]

\* The inductive invariant: the array has its shape, and until a call the code gets wrong
\* m_cur follows m_position and the process lives.
IInv ==
    /\ ba \in Arrays /\ Capacity(ba) <= MaxCapacity
    /\ little \in BOOLEAN /\ sound \in BOOLEAN /\ alive \in BOOLEAN
    /\ sound => Follows(ba) /\ alive

\* The members of an array, one by one.
LEMMA ArrayFacts ==
    ASSUME NEW a \in Arrays
    PROVE  /\ a.base \in BaseSizes /\ a.base \in Nat \ {0}
           /\ a.nodes \in Seq(Nodes) /\ Len(a.nodes) \in Nat \ {0}
           /\ a.cur \in 0 .. Len(a.nodes) /\ a.position \in Nat /\ a.size \in Nat
           /\ a.position <= a.size /\ a.size <= Capacity(a)
           /\ Capacity(a) = a.base * Len(a.nodes) /\ Capacity(a) \in Nat
           /\ \A i \in 1 .. Len(a.nodes) : a.nodes[i] \in [1 .. a.base -> Byte]
<1>1. /\ a.base \in BaseSizes /\ a.nodes \in Seq(Nodes) /\ a.cur \in Nat
      /\ a.position \in Nat /\ a.size \in Nat
  BY DEF Arrays, Records
<1>2. a.base \in Nat \ {0}
  BY <1>1, ArrayAssumption
<1>3. /\ Len(a.nodes) >= 1 /\ \A i \in 1 .. Len(a.nodes) : a.nodes[i] \in [1 .. a.base -> Byte]
      /\ a.cur <= Len(a.nodes)
      /\ a.position <= a.size /\ a.size <= Capacity(a)
  BY DEF Arrays
<1>4. Len(a.nodes) \in Nat
  BY <1>1
<1>5. Capacity(a) = a.base * Len(a.nodes) /\ Capacity(a) \in Nat
  BY <1>2, <1>4 DEF Capacity
<1> QED BY <1>1, <1>2, <1>3, <1>4, <1>5

\* An array made of parts that fit is one.
LEMMA MakeArray ==
    ASSUME NEW b \in BaseSizes, NEW nodes \in Seq([1 .. b -> Byte]), Len(nodes) >= 1,
           NEW cur \in 0 .. Len(nodes), NEW size \in Nat, NEW position \in 0 .. size,
           size <= b * Len(nodes),
           NEW a, a = [base |-> b, nodes |-> nodes, cur |-> cur, position |-> position, size |-> size]
    PROVE  a \in Arrays
<1>1. [1 .. b -> Byte] \subseteq Nodes
  BY DEF Nodes
<1>2. nodes \in Seq(Nodes)
  BY <1>1, SeqMonotonic
<1>3. a \in Records
  BY <1>2 DEF Records
<1>4. Capacity(a) = b * Len(nodes)
  BY DEF Capacity
<1> QED BY <1>3, <1>4 DEF Arrays

\* The parts of an array.
LEMMA Parts ==
    ASSUME NEW a \in Arrays
    PROVE  \E b \in Nat \ {0}, l \in Nat \ {0}, p \in Nat, s \in Nat, c \in Nat :
             /\ b \in BaseSizes /\ a.base = b /\ Len(a.nodes) = l /\ a.position = p /\ a.size = s /\ a.cur = c
             /\ c <= l /\ p <= s /\ s <= b * l /\ Capacity(a) = b * l
             /\ a.nodes \in Seq([1 .. b -> Byte])
             /\ a = [base |-> b, nodes |-> a.nodes, cur |-> c, position |-> p, size |-> s]
<1>1. a.base \in BaseSizes /\ a.base \in Nat \ {0} /\ Len(a.nodes) \in Nat \ {0}
  BY ArrayFacts
<1>2. a.position \in Nat /\ a.size \in Nat /\ a.cur \in Nat /\ a.cur <= Len(a.nodes)
  BY ArrayFacts
<1>3. a.position <= a.size /\ a.size <= a.base * Len(a.nodes) /\ Capacity(a) = a.base * Len(a.nodes)
  BY ArrayFacts
<1>4. a.nodes \in Seq([1 .. a.base -> Byte])
  <2>1. a.nodes \in Seq(Nodes)
    BY ArrayFacts
  <2>2. \A i \in 1 .. Len(a.nodes) : a.nodes[i] \in [1 .. a.base -> Byte]
    BY ArrayFacts
  <2>3. PICK nodes \in Seq(Nodes) : nodes = a.nodes
    BY <2>1
  <2>4. nodes = [i \in 1 .. Len(nodes) |-> nodes[i]]
    OBVIOUS
  <2> DEFINE S == [1 .. a.base -> Byte]
  <2>5. \A i \in 1 .. Len(nodes) : nodes[i] \in S
    BY <2>2, <2>3
  <2> HIDE DEF S
  <2>6. nodes \in [1 .. Len(nodes) -> S]
    BY <2>4, <2>5
  <2>7. nodes \in Seq(S)
    BY <2>6
  <2> QED BY <2>3, <2>7 DEF S
<1>5. a = [base |-> a.base, nodes |-> a.nodes, cur |-> a.cur, position |-> a.position, size |-> a.size]
  BY DEF Arrays, Records
<1> QED BY <1>1, <1>2, <1>3, <1>4, <1>5

\* Where m_cur is when it follows the position.
LEMMA WhereCurIs ==
    ASSUME NEW a \in Arrays, Follows(a)
    PROVE  /\ a.position < Capacity(a) => a.cur = a.position \div a.base + 1 /\ a.cur # Null
           /\ a.position = Capacity(a) => a.cur = Null
<1>1. PICK b \in Nat \ {0}, n \in Nat, p \in Nat :
        b = a.base /\ n = Len(a.nodes) /\ p = a.position /\ Capacity(a) = b * n
  BY ArrayFacts
<1>2. PICK q \in Nat, r \in 0 .. b - 1 : q = p \div b /\ r = p % b /\ p = b * q + r
  <2>1. p \div b \in Nat /\ p % b \in 0 .. b - 1 /\ p = b * (p \div b) + (p % b)
    BY Division
  <2> QED BY <2>1
<1>3. a.cur = IF q + 1 > n THEN 0 ELSE q + 1
  BY <1>1, <1>2 DEF Follows, NodeAt, Null
<1>4. p < b * n => q < n
  <2> SUFFICES ASSUME q >= n PROVE b * q >= b * n
    BY <1>2
  <2> QED OBVIOUS
<1>5. p = b * n => q >= n
  <2> SUFFICES ASSUME q + 1 <= n PROVE b * n >= b * q + b
    BY <1>2
  <2>1. b * n >= b * (q + 1)
    OBVIOUS
  <2> QED BY <2>1
<1>6. a.position \div a.base = q
  BY <1>1, <1>2
<1>7. (q < n => a.cur = q + 1 /\ a.cur # 0) /\ (q >= n => a.cur = 0)
  BY <1>3
<1> QED BY <1>1, <1>4, <1>5, <1>6, <1>7 DEF Null

\* m_cur is null at the end of the memory and nowhere else.
LEMMA NullAtTheEnd ==
    ASSUME NEW a \in Arrays, Follows(a), a.cur = Null
    PROVE  a.position = Capacity(a) /\ a.size = a.position
  BY ArrayFacts, WhereCurIs

\* Every byte number below the capacity is a place in a node.
LEMMA InNodes ==
    ASSUME NEW a \in Arrays, NEW k \in 0 .. Capacity(a) - 1
    PROVE  /\ k \div a.base + 1 \in 1 .. Len(a.nodes) /\ (k % a.base) + 1 \in 1 .. a.base
           /\ At(a, k) \in Byte
<1>1. PICK b \in Nat \ {0}, l \in Nat \ {0} : b = a.base /\ l = Len(a.nodes) /\ Capacity(a) = b * l
  BY ArrayFacts
<1>2. k \in Nat /\ k < b * l
  BY <1>1
<1>3. k \div b \in Nat /\ k % b \in 0 .. b - 1 /\ k = b * (k \div b) + (k % b)
  BY <1>2, Division
<1>4. PICK q \in Nat, r \in 0 .. b - 1 : q = k \div b /\ r = k % b /\ k = b * q + r
  BY <1>3
<1>5. q < l
  <2>1. q >= l => b * q >= b * l
    OBVIOUS
  <2> QED BY <1>2, <1>4, <2>1
<1>6. q + 1 \in 1 .. l /\ r + 1 \in 1 .. b
  BY <1>5
<1>7. a.nodes[q + 1] \in [1 .. b -> Byte]
  BY <1>1, <1>6, ArrayFacts
<1> QED BY <1>1, <1>4, <1>6, <1>7 DEF At, Cell

\* addCapacity: room for n more bytes behind the position, the old nodes kept,
\* and m_cur no longer null.
LEMMA AddedCapacity ==
    ASSUME NEW a \in Arrays, NEW n \in Nat, NEW j \in Junk, NEW g, g = AddCapacity(a, n, j)
    PROVE  /\ g \in Arrays /\ g.base = a.base /\ g.position = a.position /\ g.size = a.size
           /\ Len(g.nodes) >= Len(a.nodes) /\ a.position + n <= Capacity(g)
           /\ \A k \in 0 .. Capacity(a) - 1 : At(g, k) = At(a, k)
           /\ Follows(a) => Follows(g)
           /\ Follows(a) /\ n > 0 => g.cur = a.position \div a.base + 1
<1>1. PICK b \in Nat \ {0}, l \in Nat \ {0}, p \in Nat, s \in Nat, c \in Nat :
        /\ b \in BaseSizes /\ a.base = b /\ Len(a.nodes) = l /\ a.position = p /\ a.size = s /\ a.cur = c
        /\ c <= l /\ p <= s /\ s <= b * l /\ Capacity(a) = b * l
        /\ a.nodes \in Seq([1 .. b -> Byte])
        /\ a = [base |-> b, nodes |-> a.nodes, cur |-> c, position |-> p, size |-> s]
  BY Parts
<1>2. PICK old \in Nat : old = b * l - p
  BY <1>1
<1>3. PICK x \in Nat : /\ x = IF old >= n THEN 0 ELSE (n - old + b - 1) \div b
                       /\ old >= n => x = 0
                       /\ ~ (old >= n) => b * x >= n - old /\ x >= 1
  <2>1. CASE old >= n
    BY <2>1
  <2>2. CASE ~ (old >= n)
    <3>1. PICK y \in Nat : y = n - old + b - 1
      BY <2>2
    <3>2. PICK q \in Nat, r \in 0 .. b - 1 : q = y \div b /\ r = y % b /\ y = b * q + r
      <4>1. y \div b \in Nat /\ y % b \in 0 .. b - 1 /\ y = b * (y \div b) + (y % b)
        BY Division
      <4> QED BY <4>1
    <3>3. b * q >= n - old
      BY <3>1, <3>2
    <3>4. q >= 1
      BY <2>2, <3>3
    <3>5. q = (n - old + b - 1) \div b
      BY <3>1, <3>2
    <3> QED BY <2>2, <3>3, <3>4, <3>5
  <2> QED BY <2>1, <2>2
<1> DEFINE fresh == [k \in 1 .. b |-> j]
           more == [i \in 1 .. x |-> fresh]
           nodes == a.nodes \o more
           cur == IF old = 0 /\ n > 0 THEN l + 1 ELSE c
<1>4. g = [a EXCEPT !.nodes = nodes, !.cur = cur]
  BY <1>1, <1>2, <1>3 DEF AddCapacity
<1>5. fresh \in [1 .. b -> Byte]
  BY ArrayAssumption
<1> HIDE DEF fresh
<1>7. more \in Seq([1 .. b -> Byte]) /\ Len(more) = x
  BY <1>5
<1> HIDE DEF more
<1>8. /\ nodes \in Seq([1 .. b -> Byte]) /\ Len(nodes) = l + x
      /\ \A i \in 1 .. l : nodes[i] = a.nodes[i]
  <2> DEFINE S == [1 .. b -> Byte]
  <2>1. PICK old_nodes \in Seq(S) : old_nodes = a.nodes /\ Len(old_nodes) = l
    BY <1>1
  <2>2. more \in Seq(S) /\ Len(more) = x
    BY <1>7
  <2> HIDE DEF S
  <2>3. /\ old_nodes \o more \in Seq(S) /\ Len(old_nodes \o more) = l + x
        /\ \A i \in 1 .. l : (old_nodes \o more)[i] = old_nodes[i]
    BY <2>1, <2>2
  <2> QED BY <2>1, <2>3 DEF S
<1> HIDE DEF nodes
<1>9. cur \in 0 .. Len(nodes)
  <2>1. old = 0 /\ n > 0 => x >= 1
    BY <1>3
  <2>2. c \in 0 .. l + x
    BY <1>1
  <2> QED BY <1>8, <2>1, <2>2
<1> HIDE DEF cur
<1>10. g = [base |-> b, nodes |-> nodes, cur |-> cur, position |-> p, size |-> s]
  BY <1>1, <1>4
<1>11. /\ g.base = b /\ g.nodes = nodes /\ g.cur = cur /\ g.position = p /\ g.size = s
  BY <1>10
<1>12. b * (l + x) = b * l + b * x /\ b * x \in Nat
  OBVIOUS
<1>13. Capacity(g) = b * (l + x)
  BY <1>8, <1>11 DEF Capacity
<1>14. p \in 0 .. s /\ s <= b * Len(nodes) /\ Len(nodes) >= 1
  <2>1. Len(nodes) = l + x
    BY <1>8
  <2>2. p <= s /\ s <= b * l
    BY <1>1
  <2>3. s <= b * (l + x)
    BY <1>12, <2>2
  <2> QED BY <2>1, <2>2, <2>3
<1>15. g \in Arrays
  <2>1. b \in BaseSizes /\ nodes \in Seq([1 .. b -> Byte])
    BY <1>1, <1>8
  <2> QED BY <1>9, <1>10, <1>14, <2>1, MakeArray
<1>16. p + n <= b * l + b * x
  BY <1>2, <1>3, <1>12
<1>17. ASSUME Follows(a) PROVE Follows(g) /\ (n > 0 => g.cur = p \div b + 1)
  <2>1. (p < b * l => c = p \div b + 1 /\ c # 0) /\ (p = b * l => c = 0)
    BY <1>1, <1>17, WhereCurIs DEF Null
  <2>2. p <= b * l
    BY <1>1
  <2>3. p = b * l => p \div b = l
    OBVIOUS
  <2>4. p \div b \in Nat
    OBVIOUS
  <2>5. CASE p = b * l /\ n > 0
    <3>1. x >= 1 /\ cur = l + 1
      BY <1>2, <1>3, <2>5 DEF cur
    <3> QED BY <1>8, <1>11, <2>3, <2>5, <3>1 DEF Follows, NodeAt
  <2>6. CASE p = b * l /\ n = 0
    <3>1. x = 0 /\ cur = 0
      BY <1>2, <1>3, <2>1, <2>6 DEF cur
    <3> QED BY <1>8, <1>11, <2>3, <2>6, <3>1 DEF Follows, NodeAt, Null
  <2>7. CASE p < b * l
    <3>1. cur = c /\ c <= l
      BY <1>1, <1>2, <2>7 DEF cur
    <3> QED BY <1>8, <1>11, <2>1, <2>4, <2>7, <3>1 DEF Follows, NodeAt
  <2>8. p = b * l \/ p < b * l
    BY <2>2
  <2> QED BY <2>5, <2>6, <2>7, <2>8
<1>18. Len(g.nodes) >= Len(a.nodes) /\ \A i \in 1 .. Len(a.nodes) : g.nodes[i] = a.nodes[i]
  BY <1>1, <1>8, <1>11, SMTT(30)
<1>19. a.position + n <= Capacity(g)
  BY <1>1, <1>12, <1>13, <1>16
<1>20. ASSUME NEW k \in 0 .. Capacity(a) - 1 PROVE At(g, k) = At(a, k)
  BY <1>1, <1>11, <1>18, InNodes DEF At, Cell
<1> QED BY <1>1, <1>11, <1>15, <1>17, <1>18, <1>19, <1>20

\* The copying loops: the text lies in the memory from the place on that m_cur
\* and the position name.
LEMMA Copied ==
    ASSUME NEW a \in Arrays, NEW text \in Seq(Byte), NEW nodes, nodes = Copy(a, text),
           NEW first \in Int, first = (a.cur - 1) * a.base + (a.position % a.base)
    PROVE  /\ nodes \in Seq([1 .. a.base -> Byte]) /\ Len(nodes) = Len(a.nodes)
           /\ \A k \in 0 .. Capacity(a) - 1 :
                Cell(nodes, a.base, k) = Overlaid(a, text, first, k)
<1>1. PICK b \in Nat \ {0}, l \in Nat \ {0} : b = a.base /\ l = Len(a.nodes) /\ Capacity(a) = b * l
  BY ArrayFacts
<1> DEFINE Place(i, k) == (i - 1) * b + k - 1
           New(i, k) == IF Place(i, k) \in first .. first + Len(text) - 1
                         THEN text[Place(i, k) - first + 1] ELSE a.nodes[i][k]
<1>2. nodes = [i \in 1 .. l |-> [k \in 1 .. b |-> New(i, k)]]
  BY <1>1 DEF Copy
<1>3. ASSUME NEW i \in 1 .. l, NEW k \in 1 .. b PROVE New(i, k) \in Byte
  <2>1. Place(i, k) \in Int
    BY <1>1
  <2>2. a.nodes[i][k] \in Byte
    BY <1>1, ArrayFacts
  <2>3. Place(i, k) \in first .. first + Len(text) - 1 => Place(i, k) - first + 1 \in 1 .. Len(text)
    BY <2>1
  <2>4. CASE Place(i, k) \in first .. first + Len(text) - 1
    <3>1. New(i, k) = text[Place(i, k) - first + 1]
      BY <2>4
    <3>2. PICK x \in 1 .. Len(text) : x = Place(i, k) - first + 1
      BY <2>3, <2>4
    <3>3. text[x] \in Byte
      BY <3>2
    <3> QED BY <3>1, <3>2, <3>3
  <2>5. CASE ~ (Place(i, k) \in first .. first + Len(text) - 1)
    BY <2>2, <2>5
  <2> QED BY <2>4, <2>5
<1> HIDE DEF New
<1>4. nodes \in Seq([1 .. b -> Byte]) /\ Len(nodes) = l
  <2>1. \A i \in 1 .. l : [k \in 1 .. b |-> New(i, k)] \in [1 .. b -> Byte]
    BY <1>3
  <2> QED BY <1>2, <2>1
<1>5. ASSUME NEW k \in 0 .. Capacity(a) - 1
      PROVE  Cell(nodes, b, k) = Overlaid(a, text, first, k)
  <2>0. k \in Nat /\ k < b * l
    BY <1>1, SMTT(30)
  <2>1. PICK q \in Nat, r \in 0 .. b - 1 : q = k \div b /\ r = k % b /\ k = b * q + r
    <3>1. k \div b \in Nat /\ k % b \in 0 .. b - 1 /\ k = b * (k \div b) + (k % b)
      BY <2>0, Division
    <3> QED BY <3>1
  <2>2. q < l
    <3>1. q >= l => b * q >= b * l
      OBVIOUS
    <3> QED BY <2>0, <2>1, <3>1
  <2>3. q + 1 \in 1 .. l /\ r + 1 \in 1 .. b
    BY <2>2
  <2>4. nodes[q + 1][r + 1] = New(q + 1, r + 1)
    BY <1>2, <2>3
  <2>5. Place(q + 1, r + 1) = k
    BY <2>1
  <2>6. New(q + 1, r + 1) = IF k \in first .. first + Len(text) - 1
                             THEN text[k - first + 1] ELSE a.nodes[q + 1][r + 1]
    BY <2>5 DEF New
  <2> QED BY <1>1, <2>1, <2>4, <2>6 DEF At, Cell, Overlaid
<1> QED BY <1>1, <1>4, <1>5

\* write: the array stays one whatever was wrong with it.  A write that starts
\* from an array whose m_cur follows the position and ends with a node puts the
\* text at the position, moves behind it, and changes nothing else.
LEMMA TextIsWritten ==
    ASSUME NEW a \in Arrays, NEW text \in Seq(Byte), NEW j \in Junk, NEW w, w = WriteTo(a, text, j)
    PROVE  /\ w \in Arrays /\ w.base = a.base
           /\ Follows(a) /\ EndsWithNode(a, text) =>
                /\ Follows(w) /\ w.position = a.position + Len(text)
                /\ w.size = IF a.size >= w.position THEN a.size ELSE w.position
                /\ \A k \in 0 .. w.size - 1 : At(w, k) = Overlaid(a, text, a.position, k)
<1>1. CASE text = <<>>
  <2>1. w = a /\ Len(text) = 0
    BY <1>1 DEF WriteTo
  <2>2. a.position \in Nat /\ a.size \in Nat /\ a.position <= a.size
    BY ArrayFacts
  <2>3. w.position = a.position + Len(text) /\ w.size = IF a.size >= w.position THEN a.size ELSE w.position
    BY <2>1, <2>2
  <2>4. \A k \in 0 .. w.size - 1 : At(w, k) = Overlaid(a, text, a.position, k)
    BY <2>1, <2>2 DEF Overlaid
  <2> QED BY <2>1, <2>3, <2>4
<1>2. CASE text # <<>>
  <2>1. PICK n \in Nat \ {0} : n = Len(text)
    BY <1>2
  <2>2. PICK g : g = AddCapacity(a, n, j)
    OBVIOUS
  <2>3. /\ g \in Arrays /\ g.base = a.base /\ g.position = a.position /\ g.size = a.size
        /\ a.position + n <= Capacity(g)
    BY <2>2, AddedCapacity
  <2>4. PICK b \in Nat \ {0}, l \in Nat \ {0}, p \in Nat, s \in Nat, c \in Nat :
          /\ b \in BaseSizes /\ g.base = b /\ Len(g.nodes) = l /\ g.position = p /\ g.size = s /\ g.cur = c
          /\ c <= l /\ p <= s /\ s <= b * l /\ Capacity(g) = b * l
          /\ g.nodes \in Seq([1 .. b -> Byte])
          /\ g = [base |-> b, nodes |-> g.nodes, cur |-> c, position |-> p, size |-> s]
    BY <2>3, Parts
  <2>a. /\ c <= l /\ p <= s /\ s <= b * l /\ p + n <= b * l
        /\ a.base = b /\ a.position = p /\ a.size = s /\ a.size <= Capacity(a) /\ Capacity(a) \in Nat
    BY <2>3, <2>4, ArrayFacts
  <2>b. g.base = b /\ Len(g.nodes) = l /\ g.position = p /\ g.size = s /\ g.cur = c /\ Capacity(g) = b * l
    BY <2>4
  <2>5. PICK q \in Nat, r \in 0 .. b - 1 : q = p \div b /\ r = p % b /\ p = b * q + r
    <3>1. p \div b \in Nat /\ p % b \in 0 .. b - 1 /\ p = b * (p \div b) + (p % b)
      BY Division
    <3> QED BY <3>1
  <2>6. PICK used \in Nat : used = r + n
    OBVIOUS
  <2>7. PICK e \in Nat : e = (used + b - 1) \div b /\ b * e >= used /\ b * e <= used + b - 1
    <3>1. PICK y \in Nat : y = used + b - 1
      OBVIOUS
    <3>2. PICK d \in Nat, t \in 0 .. b - 1 : d = y \div b /\ t = y % b /\ y = b * d + t
      <4>1. y \div b \in Nat /\ y % b \in 0 .. b - 1 /\ y = b * (y \div b) + (y % b)
        BY Division
      <4> QED BY <4>1
    <3>3. b * d >= used /\ b * d <= used + b - 1
      BY <3>1, <3>2
    <3> QED BY <3>1, <3>2, <3>3
  <2>8. PICK end \in Nat : end = b * q + b * e /\ end = p - r + b * e
    BY <2>5
  <2>9. end <= b * l /\ end >= p + n
    <3>1. b * q + used <= b * l
      BY <2>a, <2>5, <2>6
    <3>2. q + e <= l
      <4>1. b * e <= b * l - b * q + b - 1
        BY <2>7, <3>1
      <4>2. q + e >= l + 1 => b * (q + e) >= b * (l + 1)
        OBVIOUS
      <4>3. b * (q + e) = b * q + b * e /\ b * (l + 1) = b * l + b
        OBVIOUS
      <4> QED BY <4>1, <4>2, <4>3
    <3>3. b * (q + e) <= b * l /\ b * (q + e) = b * q + b * e
      BY <3>2
    <3>4. end <= b * l
      BY <2>8, <3>3
    <3>5. p + n = b * q + used
      BY <2>5, <2>6
    <3> QED BY <2>7, <2>8, <3>4, <3>5, SMTT(30)
  <2>10. PICK m \in Nat : m = Max({s, end}) /\ m = IF s >= end THEN s ELSE end
    BY MaxOfTwo
  <2>11. m <= b * l /\ end \in 0 .. m
    BY <2>a, <2>9, <2>10
  <2>12. PICK nodes : nodes = Copy(g, text)
    OBVIOUS
  <2>13. PICK first \in Int : first = (c - 1) * b + r
    OBVIOUS
  <2>14. /\ nodes \in Seq([1 .. b -> Byte]) /\ Len(nodes) = l
         /\ \A k \in 0 .. b * l - 1 :
              Cell(nodes, b, k) = Overlaid(g, text, first, k)
    <3>1. first = (g.cur - 1) * g.base + (g.position % g.base)
      BY <2>b, <2>5, <2>13
    <3>2. /\ nodes \in Seq([1 .. g.base -> Byte]) /\ Len(nodes) = Len(g.nodes)
          /\ \A k \in 0 .. Capacity(g) - 1 :
               Cell(nodes, g.base, k) = Overlaid(g, text, first, k)
      <4>1. g \in Arrays
        BY <2>3
      <4> QED BY <2>12, <3>1, <4>1, Copied, ZenonT(60)
    <3> QED BY <2>1, <2>b, <3>2
  <2>15. PICK cur \in 0 .. l : cur = NodeAt(g, c + used \div b)
    <3>1. used \div b \in Nat
      OBVIOUS
    <3>2. NodeAt(g, c + used \div b) \in 0 .. l
      BY <2>b, <3>1 DEF NodeAt, Null
    <3> QED BY <3>2
  <2>16. w = [base |-> b, nodes |-> nodes, cur |-> cur, position |-> end, size |-> m]
    <3>1. w = [g EXCEPT !.nodes = nodes, !.position = end, !.size = m, !.cur = cur]
      BY <1>2, <2>1, <2>2, <2>4, <2>5, <2>6, <2>7, <2>8, <2>10, <2>12, <2>15 DEF WriteTo
    <3> QED BY <2>4, <3>1
  <2>17. w.base = b /\ w.nodes = nodes /\ w.cur = cur /\ w.position = end /\ w.size = m
    BY <2>16
  <2>18. w \in Arrays
    <3>1. b \in BaseSizes /\ nodes \in Seq([1 .. b -> Byte]) /\ Len(nodes) >= 1 /\ cur \in 0 .. Len(nodes)
      BY <2>4, <2>14, SMTT(30)
    <3>2. m <= b * Len(nodes)
      BY <2>11, <2>14
    <3> QED BY <2>11, <2>16, <3>1, <3>2, MakeArray
  <2>19. ASSUME Follows(a), EndsWithNode(a, text)
         PROVE  /\ Follows(w) /\ w.position = a.position + Len(text)
                /\ w.size = IF a.size >= w.position THEN a.size ELSE w.position
                /\ \A k \in 0 .. w.size - 1 : At(w, k) = Overlaid(a, text, a.position, k)
    <3>1. (p + n) % b = 0
      BY <1>2, <2>1, <2>3, <2>4, <2>19 DEF EndsWithNode
    <3>2. PICK u \in Nat : used = b * u /\ used \div b = u
      <4>1. PICK d \in Nat, t \in 0 .. b - 1 : d = used \div b /\ t = used % b /\ used = b * d + t
        <5>1. used \div b \in Nat /\ used % b \in 0 .. b - 1 /\ used = b * (used \div b) + (used % b)
          BY Division
        <5> QED BY <5>1
      <4>2. q + d \in Nat /\ b * (q + d) = b * q + b * d
        OBVIOUS
      <4>3. (b * (q + d) + t) % b = t
        BY <4>2, Quotient
      <4>4. p + n = b * (q + d) + t
        <5>1. p + n = b * q + used
          BY <2>5, <2>6
        <5> QED BY <4>1, <4>2, <5>1
      <4>5. t = 0
        BY <3>1, <4>3, <4>4
      <4> QED BY <4>1, <4>5
    <3>3. e = u
      <4>1. b - 1 \in 0 .. b - 1 /\ used + b - 1 = b * u + (b - 1)
        BY <3>2
      <4> QED BY <2>7, <4>1, Quotient
    <3>4. end = p + n
      BY <2>5, <2>6, <2>8, <3>2, <3>3, SMTT(30)
    <3>5. c = q + 1
      <4>1. g.cur = a.position \div a.base + 1
        BY <2>2, <2>19, AddedCapacity
      <4> QED BY <2>a, <2>b, <2>5, <4>1
    <3>6. end \div b = q + u
      <4>1. q + u \in Nat /\ end = b * (q + u) + 0 /\ 0 \in 0 .. b - 1
        BY <2>8, <3>3
      <4> QED BY <4>1, Quotient
    <3>7. Follows(w)
      <4>1. cur = NodeAt(g, q + 1 + u)
        BY <2>15, <3>2, <3>5
      <4>2. Len(w.nodes) = l /\ Len(g.nodes) = l
        BY <2>b, <2>14, <2>17
      <4>3. w.position \div w.base + 1 = q + 1 + u
        BY <2>17, <3>6
      <4>4. w.cur = NodeAt(w, q + 1 + u)
        BY <2>17, <4>1, <4>2 DEF NodeAt
      <4> QED BY <4>3, <4>4 DEF Follows
    <3>8. first = p
      BY <2>5, <2>13, <3>5
    <3>9. ASSUME NEW k \in 0 .. m - 1
          PROVE  At(w, k) = Overlaid(a, text, p, k)
      <4>1. k \in 0 .. b * l - 1
        BY <2>11
      <4>2. At(w, k) = IF k \in p .. p + n - 1 THEN text[k - p + 1] ELSE At(g, k)
        <5>1. At(w, k) = Overlaid(g, text, p, k)
          BY <2>14, <2>17, <3>8, <4>1 DEF At
        <5> QED BY <2>1, <5>1 DEF Overlaid
      <4>3. ~ (k \in p .. p + n - 1) => At(g, k) = At(a, k)
        <5> SUFFICES ASSUME ~ (k \in p .. p + n - 1) PROVE At(g, k) = At(a, k)
          OBVIOUS
        <5>1. k < s
          BY <2>a, <2>10, <3>4
        <5>2. k \in 0 .. Capacity(a) - 1
          BY <2>a, <5>1
        <5> QED BY <2>2, <5>2, AddedCapacity
      <4> QED BY <2>1, <4>2, <4>3 DEF Overlaid
    <3>10. w.position = a.position + Len(text) /\ w.size = IF a.size >= w.position THEN a.size ELSE w.position
      BY <2>1, <2>a, <2>10, <2>17, <3>4
    <3>11. \A k \in 0 .. w.size - 1 : At(w, k) = Overlaid(a, text, a.position, k)
      BY <2>a, <2>17, <3>9
    <3> QED BY <3>7, <3>10, <3>11
  <2> QED BY <2>3, <2>4, <2>17, <2>18, <2>19
<1> QED BY <1>1, <1>2

\* The arrays of a call that writes several texts, one after the other.
LEMMA WritingSteps ==
    ASSUME NEW a \in Arrays, NEW texts \in Seq(Seq(Byte)), NEW j \in Junk,
           NEW after, after = Writing(a, texts, j)
    PROVE  /\ \A i \in 0 .. Len(texts) : after[i] \in Arrays /\ after[i].base = a.base
           /\ after[0] = a /\ \A i \in 1 .. Len(texts) : after[i] = WriteTo(after[i - 1], texts[i], j)
<1>0. PICK n \in Nat : n = Len(texts)
  OBVIOUS
<1> DEFINE F == [i \in 1 .. n |-> [x \in Arrays |-> WriteTo(x, texts[i], j)]]
           Defines(f) == f = [i \in 0 .. n |-> IF i = 0 THEN a ELSE WriteTo(f[i - 1], texts[i], j)]
<1>1. ASSUME NEW i \in 1 .. n, NEW x \in Arrays PROVE WriteTo(x, texts[i], j) \in Arrays
  <2>1. texts[i] \in Seq(Byte)
    BY <1>0
  <2> QED BY <2>1, TextIsWritten
<1>2. F \in [1 .. n -> [Arrays -> Arrays]]
  BY <1>1
<1>3. PICK g \in [0 .. n -> Arrays] : g[0] = a /\ \A i \in 1 .. n : g[i] = F[i][g[i - 1]]
  <2>1. PICK S, e : S = Arrays /\ e = a
    OBVIOUS
  <2>2. PICK m, G : m = n /\ G = F
    OBVIOUS
  <2>3. e \in S /\ m \in Nat /\ G \in Steps(m, S)
    BY <1>2, <2>1, <2>2 DEF Steps
  <2> HIDE DEF F
  <2>4. \E g : Iterates(g, S, e, m, G)
    BY <2>3, CanIterate
  <2> QED BY <2>1, <2>2, <2>4 DEF Iterates
<1>4. Defines(g)
  <2> SUFFICES ASSUME NEW i \in 0 .. n
               PROVE  g[i] = IF i = 0 THEN a ELSE WriteTo(g[i - 1], texts[i], j)
    BY <1>3
  <2>1. CASE i = 0
    BY <1>3, <2>1
  <2>2. CASE i # 0
    <3>1. i - 1 \in 0 .. n /\ i \in 1 .. n
      BY <2>2
    <3>2. F[i][g[i - 1]] = WriteTo(g[i - 1], texts[i], j)
      BY <3>1
    <3>3. g[i] = F[i][g[i - 1]]
      BY <1>3, <3>1
    <3> QED BY <2>2, <3>2, <3>3
  <2> QED BY <2>1, <2>2
<1>5. after = CHOOSE f : Defines(f)
  BY <1>0 DEF Writing
<1>7. Defines(after)
  <2> HIDE DEF Defines
  <2> QED BY <1>4, <1>5
<1>8. after[0] = a /\ \A i \in 1 .. n : after[i] = WriteTo(after[i - 1], texts[i], j)
  BY <1>7
<1> DEFINE P == {i \in 0 .. n : after[i] \in Arrays /\ after[i].base = a.base}
<1>9. \A i \in 0 .. n : i \in P
  <2>1. 0 \in P
    BY <1>8
  <2>2. ASSUME NEW i \in 0 .. n - 1, i \in P PROVE i + 1 \in P
    <3>1. i + 1 \in 1 .. n /\ (i + 1) - 1 = i /\ texts[i + 1] \in Seq(Byte)
      BY <1>0
    <3>2. after[i + 1] = WriteTo(after[i], texts[i + 1], j)
      BY <1>8, <3>1
    <3>3. after[i] \in Arrays /\ after[i].base = a.base
      BY <2>2
    <3>4. after[i + 1] \in Arrays /\ after[i + 1].base = after[i].base
      BY <3>1, <3>2, <3>3, TextIsWritten, SMTT(30)
    <3> QED BY <3>1, <3>3, <3>4
  <2> HIDE DEF P
  <2> QED BY <2>1, <2>2, Induction
<1> QED BY <1>0, <1>8, <1>9

\* x is a after the first u bytes of whole were written.
Reached(a, x, whole, u) ==
    /\ x.position = a.position + u
    /\ x.size = IF a.size >= x.position THEN a.size ELSE x.position
    /\ \A k \in 0 .. x.size - 1 :
         At(x, k) = IF k \in a.position .. a.position + u - 1 THEN whole[k - a.position + 1] ELSE At(a, k)

\* The arithmetic of one write after another: of the bytes below the new size z, those the
\* write of n bytes at p + u leaves alone lie below the old size m, and inside the v bytes
\* written so far only if they were inside the first u.
LEMMA LeftAlone ==
    ASSUME NEW p \in Nat, NEW s \in Nat, NEW u \in Nat, NEW n \in Nat, NEW v \in Nat, NEW m \in Nat,
           NEW z \in Nat, NEW k \in 0 .. z - 1,
           v = u + n, m = IF s >= p + u THEN s ELSE p + u, z = IF m >= p + v THEN m ELSE p + v,
           ~ (k \in p + u .. p + u + n - 1)
    PROVE  k \in 0 .. m - 1 /\ (k \in p .. p + v - 1 <=> k \in p .. p + u - 1)
<1>1. k < p + u \/ k >= p + v
  OBVIOUS
<1>2. m >= p + u
  OBVIOUS
<1>3. k >= p + v => k < m
  OBVIOUS
<1> QED BY <1>1, <1>2, <1>3

\* After one more piece, the array holds one more piece of the whole at its place.
LEMMA OnePieceMore ==
    ASSUME NEW a \in Arrays, NEW x \in Arrays, NEW text \in Seq(Byte), NEW j \in Junk,
           NEW y, y = WriteTo(x, text, j), NEW whole, NEW u \in Nat, NEW v \in Nat, v = u + Len(text),
           \A k \in 1 .. Len(text) : text[k] = whole[u + k],
           Follows(x), EndsWithNode(x, text), Reached(a, x, whole, u)
    PROVE  Follows(y) /\ Reached(a, y, whole, v)
<1>1. PICK p \in Nat, s \in Nat, n \in Nat : p = a.position /\ s = a.size /\ p <= s /\ n = Len(text)
  <2>1. a.position \in Nat /\ a.size \in Nat /\ a.position <= a.size
    BY ArrayFacts
  <2> QED BY <2>1
<1>2. PICK m \in Nat : x.position = p + u /\ x.size = m /\ m = IF s >= p + u THEN s ELSE p + u
  BY <1>1 DEF Reached
<1>3. /\ Follows(y) /\ y.position = x.position + Len(text)
      /\ y.size = IF x.size >= y.position THEN x.size ELSE y.position
      /\ \A k \in 0 .. y.size - 1 : At(y, k) = Overlaid(x, text, x.position, k)
  BY TextIsWritten
<1>4. PICK z \in Nat : y.position = p + v /\ y.size = z /\ z = IF m >= p + v THEN m ELSE p + v
  <2>1. y.position = x.position + n /\ y.size = IF x.size >= y.position THEN x.size ELSE y.position
    BY <1>1, <1>3
  <2>2. y.position = p + v
    BY <1>1, <1>2, <2>1
  <2> QED BY <1>2, <2>1, <2>2
<1>5. z = IF s >= p + v THEN s ELSE p + v
  <2>1. u <= v
    BY <1>1
  <2> QED BY <1>2, <1>4, <2>1
<1>6. ASSUME NEW k \in 0 .. z - 1
      PROVE  At(y, k) = IF k \in p .. p + v - 1 THEN whole[k - p + 1] ELSE At(a, k)
  <2>1. At(y, k) = IF k \in p + u .. p + u + n - 1 THEN text[k - (p + u) + 1] ELSE At(x, k)
    BY <1>1, <1>2, <1>3, <1>4 DEF Overlaid
  <2>2. CASE k \in p + u .. p + u + n - 1
    <3>1. PICK i \in 1 .. n : i = k - (p + u) + 1
      BY <2>2
    <3>2. u + i = k - p + 1
      BY <3>1
    <3>3. text[i] = whole[u + i]
      BY <1>1
    <3>4. At(y, k) = whole[k - p + 1]
      BY <2>1, <2>2, <3>1, <3>2, <3>3
    <3>5. k \in p .. p + v - 1
      BY <1>1, <2>2, SMTT(30)
    <3> QED BY <3>4, <3>5
  <2>3. CASE ~ (k \in p + u .. p + u + n - 1)
    <3>1. k \in 0 .. m - 1 /\ (k \in p .. p + v - 1 <=> k \in p .. p + u - 1)
      <4>1. v = u + n
        BY <1>1
      <4> QED BY <1>2, <1>4, <2>3, <4>1, LeftAlone
    <3>2. At(x, k) = IF k \in p .. p + u - 1 THEN whole[k - p + 1] ELSE At(a, k)
      BY <1>1, <1>2, <3>1 DEF Reached
    <3>4. At(y, k) = At(x, k)
      BY <2>1, <2>3
    <3> QED BY <3>1, <3>2, <3>4
  <2> QED BY <2>2, <2>3
<1> QED BY <1>1, <1>3, <1>4, <1>5, <1>6 DEF Reached

\* L says where in whole each of the texts ends.
Cut(texts, whole, L) ==
    /\ L \in [0 .. Len(texts) -> Nat] /\ L[0] = 0 /\ L[Len(texts)] = Len(whole)
    /\ \A i \in 1 .. Len(texts) : /\ L[i] = L[i - 1] + Len(texts[i])
                                  /\ \A k \in 1 .. Len(texts[i]) : texts[i][k] = whole[L[i - 1] + k]

\* A call that writes texts, which together are whole, one ending where the next
\* begins, has written whole if every part of it has ended with a node.
LEMMA WholeIsWritten ==
    ASSUME NEW a \in Arrays, Follows(a), NEW texts \in Seq(Seq(Byte)), NEW j \in Junk,
           NEW after, after = Writing(a, texts, j), NEW whole, NEW L, Cut(texts, whole, L),
           \A i \in 1 .. Len(texts) : EndsWithNode(after[i - 1], texts[i])
    PROVE  Follows(after[Len(texts)]) /\ Reached(a, after[Len(texts)], whole, Len(whole))
<1>0. PICK n \in Nat : n = Len(texts)
  OBVIOUS
<1>a. L \in [0 .. n -> Nat] /\ L[0] = 0 /\ L[n] = Len(whole)
  BY <1>0 DEF Cut
<1>b. \A i \in 1 .. n : /\ L[i] = L[i - 1] + Len(texts[i])
                        /\ \A k \in 1 .. Len(texts[i]) : texts[i][k] = whole[L[i - 1] + k]
  BY <1>0 DEF Cut
<1>1. /\ \A i \in 0 .. n : after[i] \in Arrays
      /\ after[0] = a /\ \A i \in 1 .. n : after[i] = WriteTo(after[i - 1], texts[i], j)
  <2>1. /\ \A i \in 0 .. Len(texts) : after[i] \in Arrays /\ after[i].base = a.base
        /\ after[0] = a /\ \A i \in 1 .. Len(texts) : after[i] = WriteTo(after[i - 1], texts[i], j)
    BY WritingSteps
  <2> QED BY <1>0, <2>1
<1> DEFINE P == {i \in 0 .. n : Follows(after[i]) /\ Reached(a, after[i], whole, L[i])}
<1>2. 0 \in P
  <2>1. a.position \in Nat /\ a.size \in Nat /\ a.position <= a.size
    BY ArrayFacts
  <2>2. Reached(a, a, whole, 0)
    BY <2>1 DEF Reached
  <2> QED BY <1>1, <1>a, <2>2
<1>3. ASSUME NEW m \in 0 .. n - 1, m \in P PROVE m + 1 \in P
  <2>1. PICK i \in 1 .. n : i = m + 1 /\ i - 1 = m
    OBVIOUS
  <2>2. PICK x \in Arrays, y \in Arrays : x = after[m] /\ y = after[i]
    BY <1>1
  <2>3. PICK text \in Seq(Byte) : text = texts[i]
    BY <1>0
  <2>4. PICK u \in Nat, v \in Nat : u = L[m] /\ v = L[i]
    <3>1. m \in 0 .. n /\ i \in 0 .. n
      OBVIOUS
    <3>2. L[m] \in Nat /\ L[i] \in Nat
      BY <1>a, <3>1
    <3> QED BY <3>2
  <2>5. y = WriteTo(x, text, j) /\ EndsWithNode(x, text)
    BY <1>0, <1>1, <2>1, <2>2, <2>3
  <2>6. v = u + Len(text) /\ \A k \in 1 .. Len(text) : text[k] = whole[u + k]
    <3>1. /\ L[i] = L[i - 1] + Len(texts[i])
          /\ \A k \in 1 .. Len(texts[i]) : texts[i][k] = whole[L[i - 1] + k]
      BY <1>b
    <3> QED BY <2>1, <2>3, <2>4, <3>1
  <2>7. Follows(x) /\ Reached(a, x, whole, u)
    BY <1>3, <2>2, <2>4
  <2>8. Follows(y) /\ Reached(a, y, whole, v)
    BY <2>5, <2>6, <2>7, OnePieceMore
  <2> QED BY <2>1, <2>2, <2>4, <2>8
<1>4. n \in P
  <2> HIDE DEF P
  <2>1. \A m \in 0 .. n : m \in P
    BY <1>2, <1>3, Induction
  <2> QED BY <2>1
<1> QED BY <1>0, <1>a, <1>4

\* A single text is the whole, cut into one piece.
LEMMA OneText ==
    ASSUME NEW text \in Seq(Byte)
    PROVE  <<text>> \in Seq(Seq(Byte)) /\ \E L : Cut(<<text>>, text, L)
<1>1. PICK n \in Nat : n = Len(text)
  OBVIOUS
<1>2. PICK texts : texts = <<text>> /\ texts \in Seq(Seq(Byte)) /\ Len(texts) = 1 /\ texts[1] = text
  <2>1. <<text>> \in Seq(Seq(Byte))
    OBVIOUS
  <2>2. Len(<<text>>) = 1 /\ <<text>>[1] = text
    OBVIOUS
  <2> QED BY <2>1, <2>2
<1> DEFINE L == [i \in 0 .. 1 |-> IF i = 0 THEN 0 ELSE n]
<1>3. L \in [0 .. 1 -> Nat] /\ L[0] = 0 /\ L[1] = n
  OBVIOUS
<1> HIDE DEF L
<1>4. Cut(texts, text, L)
  <2> SUFFICES ASSUME NEW i \in 1 .. 1
               PROVE  /\ L[i] = L[i - 1] + Len(texts[i])
                      /\ \A k \in 1 .. Len(texts[i]) : texts[i][k] = text[L[i - 1] + k]
    BY <1>1, <1>2, <1>3 DEF Cut
  <2>1. i = 1
    OBVIOUS
  <2> QED BY <1>1, <1>2, <1>3, <2>1
<1> QED BY <1>2, <1>4

\* writeStringVint writes the length and then the text: the whole, cut into two.
LEMMA TwoTexts ==
    ASSUME NEW front \in Seq(Byte), NEW text \in Seq(Byte)
    PROVE  /\ <<front, text>> \in Seq(Seq(Byte)) /\ front \o text \in Seq(Byte)
           /\ \E L : Cut(<<front, text>>, front \o text, L)
<1>1. PICK m \in Nat, n \in Nat : m = Len(front) /\ n = Len(text)
  OBVIOUS
<1>2. PICK texts : /\ texts = <<front, text>> /\ texts \in Seq(Seq(Byte)) /\ Len(texts) = 2
                   /\ texts[1] = front /\ texts[2] = text
  <2>1. <<front, text>> \in Seq(Seq(Byte))
    OBVIOUS
  <2>2. Len(<<front, text>>) = 2 /\ <<front, text>>[1] = front /\ <<front, text>>[2] = text
    OBVIOUS
  <2> QED BY <2>1, <2>2
<1>3. PICK whole : /\ whole = front \o text /\ whole \in Seq(Byte) /\ Len(whole) = m + n
                   /\ \A k \in 1 .. m : front[k] = whole[k]
                   /\ \A k \in 1 .. n : text[k] = whole[m + k]
  <2>1. front \o text \in Seq(Byte) /\ Len(front \o text) = m + n
    BY <1>1
  <2>2. \A k \in 1 .. m : front[k] = (front \o text)[k]
    BY <1>1
  <2>3. \A k \in 1 .. n : text[k] = (front \o text)[m + k]
    BY <1>1
  <2> QED BY <2>1, <2>2, <2>3
<1> DEFINE L == [i \in 0 .. 2 |-> IF i = 0 THEN 0 ELSE IF i = 1 THEN m ELSE m + n]
<1>4. L \in [0 .. 2 -> Nat] /\ L[0] = 0 /\ L[1] = m /\ L[2] = m + n
  OBVIOUS
<1> HIDE DEF L
<1>5. Cut(texts, whole, L)
  <2> SUFFICES ASSUME NEW i \in 1 .. 2
               PROVE  /\ L[i] = L[i - 1] + Len(texts[i])
                      /\ \A k \in 1 .. Len(texts[i]) : texts[i][k] = whole[L[i - 1] + k]
    BY <1>2, <1>3, <1>4 DEF Cut
  <2>1. CASE i = 1
    BY <1>1, <1>2, <1>3, <1>4, <2>1
  <2>2. CASE i = 2
    <3>1. texts[i] = text /\ L[i] = m + n /\ L[i - 1] = m
      BY <1>2, <1>4, <2>2
    <3> QED BY <1>1, <1>3, <3>1
  <2> QED BY <2>1, <2>2
<1> QED BY <1>2, <1>3, <1>5

\* readFromFile cuts a text into pieces of a node each and a shorter one.
LEMMA FilePieces ==
    ASSUME ba \in Arrays, NEW text \in Seq(Byte)
    PROVE  Pieces(text) \in Seq(Seq(Byte)) /\ \E L : Cut(Pieces(text), text, L)
<1>1. PICK b \in Nat \ {0}, n \in Nat : b = ba.base /\ n = Len(text)
  <2>1. ba.base \in Nat \ {0} /\ Len(text) \in Nat
    BY ArrayFacts
  <2> QED BY <2>1
<1>2. PICK q \in Nat, r \in 0 .. b - 1 : q = n \div b /\ r = n % b /\ n = b * q + r
  <2>1. n \div b \in Nat /\ n % b \in 0 .. b - 1 /\ n = b * (n \div b) + (n % b)
    BY Division
  <2> QED BY <2>1
<1> DEFINE Upto(i) == IF i * b <= n THEN i * b ELSE n
           L == [i \in 0 .. q + 1 |-> Upto(i)]
           texts == Pieces(text)
<1>3. ASSUME NEW i \in 0 .. q + 1 PROVE L[i] = Upto(i) /\ Upto(i) \in 0 .. n
  <2>1. i * b \in Nat
    OBVIOUS
  <2> QED BY <2>1
<1>4. ASSUME NEW i \in 1 .. q + 1 PROVE Upto(i - 1) = (i - 1) * b /\ Upto(i) >= Upto(i - 1)
  <2>1. PICK m \in 0 .. q : m = i - 1 /\ i = m + 1
    OBVIOUS
  <2>2. m * b <= q * b /\ (m + 1) * b = m * b + b
    OBVIOUS
  <2>3. q * b = b * q
    OBVIOUS
  <2>4. m * b <= n
    BY <1>2, <2>2, <2>3
  <2> QED BY <2>1, <2>2, <2>4
<1>5. Upto(0) = 0 /\ Upto(q + 1) = n
  <2>1. (q + 1) * b = b * q + b /\ 0 * b = 0
    OBVIOUS
  <2> QED BY <1>2, <2>1
<1>6. texts = [i \in 1 .. q + 1 |-> SubSeq(text, (i - 1) * b + 1, Upto(i))]
  <2>1. ASSUME NEW i \in 1 .. q + 1 PROVE Min({i * b, n}) = Upto(i)
    <3>1. i * b \in Int
      OBVIOUS
    <3> QED BY <3>1, MinOfTwo
  <2> HIDE DEF Upto
  <2> QED BY <1>1, <1>2, <2>1 DEF Pieces
<1>7. ASSUME NEW i \in 1 .. q + 1
      PROVE  /\ texts[i] = SubSeq(text, Upto(i - 1) + 1, Upto(i))
             /\ texts[i] \in Seq(Byte) /\ Len(texts[i]) = Upto(i) - Upto(i - 1)
             /\ \A k \in 1 .. Len(texts[i]) : texts[i][k] = text[Upto(i - 1) + k]
  <2>1. PICK u \in Nat, v \in Nat : u = Upto(i - 1) /\ v = Upto(i) /\ u <= v /\ v <= n
    <3>1. i - 1 \in 0 .. q + 1 /\ i \in 0 .. q + 1
      OBVIOUS
    <3>2. Upto(i - 1) \in 0 .. n /\ Upto(i) \in 0 .. n
      BY <1>3, <3>1
    <3> QED BY <1>4, <3>2
  <2>2. texts[i] = SubSeq(text, u + 1, v)
    <3> HIDE DEF Upto, texts
    <3> QED BY <1>4, <1>6, <2>1
  <2>3. /\ SubSeq(text, u + 1, v) \in Seq(Byte) /\ Len(SubSeq(text, u + 1, v)) = v - u
        /\ \A k \in 1 .. v - u : SubSeq(text, u + 1, v)[k] = text[u + k]
    <3> HIDE DEF Upto
    <3>1. u + 1 \in 1 .. Len(text) + 1 /\ v \in (u + 1) - 1 .. Len(text)
      BY <1>1, <2>1
    <3>2. v - (u + 1) + 1 = v - u /\ \A k \in 1 .. v - u : (u + 1) + k - 1 = u + k
      BY <2>1
    <3> QED BY <3>1, <3>2, SubSeqProperties
  <2> HIDE DEF Upto, texts
  <2> QED BY <2>1, <2>2, <2>3
<1> HIDE DEF Upto
<1>8. texts \in Seq(Seq(Byte)) /\ Len(texts) = q + 1
  <2> HIDE DEF texts
  <2> QED BY <1>6, <1>7
<1>9. L \in [0 .. q + 1 -> Nat]
  BY <1>3
<1>10. Cut(texts, text, L)
  <2> HIDE DEF L, texts
  <2> SUFFICES ASSUME NEW i \in 1 .. q + 1
               PROVE  /\ L[i] = L[i - 1] + Len(texts[i])
                      /\ \A k \in 1 .. Len(texts[i]) : texts[i][k] = text[L[i - 1] + k]
    BY <1>1, <1>3, <1>5, <1>8, <1>9, SMTT(30) DEF Cut
  <2>1. i \in 0 .. q + 1 /\ i - 1 \in 0 .. q + 1
    OBVIOUS
  <2>2. L[i] = Upto(i) /\ L[i - 1] = Upto(i - 1) /\ Upto(i) \in Nat /\ Upto(i - 1) \in Nat
    BY <1>3, <2>1
  <2>3. /\ texts[i] \in Seq(Byte) /\ Len(texts[i]) = Upto(i) - Upto(i - 1)
        /\ \A k \in 1 .. Len(texts[i]) : texts[i][k] = text[Upto(i - 1) + k]
    BY <1>7
  <2>4. L[i] = L[i - 1] + Len(texts[i])
    BY <2>2, <2>3
  <2> QED BY <2>2, <2>3, <2>4
<1> HIDE DEF L
<1> QED BY <1>8, <1>10

\* Every call that writes keeps the invariant, and as long as it is sound it has
\* written all it was given.
LEMMA WritesStep ==
    ASSUME IInv, NEW op, NEW texts \in Seq(Seq(Byte)), NEW whole \in Seq(Byte), NEW L,
           Cut(texts, whole, L), Writes(op, texts, whole)
    PROVE  IInv' /\ (sound' => sound /\ Reached(ba, ba', whole, Len(whole)))
<1>0. PICK j \in Junk : \E after \in {Writing(ba, texts, j)} :
        /\ ba' = after[Len(texts)]
        /\ sound' = (sound /\ \A i \in 1 .. Len(texts) : EndsWithNode(after[i - 1], texts[i]))
  BY DEF Writes
<1>1. PICK after : /\ after = Writing(ba, texts, j) /\ ba' = after[Len(texts)]
                   /\ sound' = (sound /\ \A i \in 1 .. Len(texts) : EndsWithNode(after[i - 1], texts[i]))
  BY <1>0
<1>2. ba \in Arrays /\ sound /\ alive /\ Follows(ba) /\ little \in BOOLEAN /\ alive \in BOOLEAN
  BY DEF IInv, Writes, InUse
<1>3. PICK n \in Nat : n = Len(texts)
  OBVIOUS
<1>4. ba' \in Arrays
  <2>1. \A i \in 0 .. Len(texts) : after[i] \in Arrays /\ after[i].base = ba.base
    BY <1>1, <1>2, WritingSteps
  <2> QED BY <1>1, <1>3, <2>1
<1>5. ASSUME sound' PROVE Follows(ba') /\ Reached(ba, ba', whole, Len(whole))
  <2>1. \A i \in 1 .. Len(texts) : EndsWithNode(after[i - 1], texts[i])
    BY <1>1, <1>5
  <2>2. Follows(after[Len(texts)]) /\ Reached(ba, after[Len(texts)], whole, Len(whole))
    BY <1>1, <1>2, <2>1, WholeIsWritten
  <2> QED BY <1>1, <2>2
<1>6. Capacity(ba') <= MaxCapacity /\ little' = little /\ alive' = alive
  BY DEF Writes
<1>7. sound' \in BOOLEAN
  BY <1>1
<1> QED BY <1>2, <1>4, <1>5, <1>6, <1>7 DEF IInv

\* With nodes of one byte every write ends with a node.
LEMMA OneByteNodes ==
    ASSUME IInv, BaseSizes = {1}, NEW op, NEW texts \in Seq(Seq(Byte)), NEW whole, Writes(op, texts, whole)
    PROVE  sound'
<1>1. PICK j \in Junk : \E after \in {Writing(ba, texts, j)} :
        sound' = (sound /\ \A i \in 1 .. Len(texts) : EndsWithNode(after[i - 1], texts[i]))
  BY DEF Writes
<1>2. PICK after : /\ after = Writing(ba, texts, j)
                   /\ sound' = (sound /\ \A i \in 1 .. Len(texts) : EndsWithNode(after[i - 1], texts[i]))
  BY <1>1
<1>3. ba \in Arrays /\ sound
  BY DEF IInv, Writes, InUse
<1>4. \A i \in 0 .. Len(texts) : after[i] \in Arrays
  BY <1>2, <1>3, WritingSteps
<1>5. ASSUME NEW i \in 1 .. Len(texts) PROVE EndsWithNode(after[i - 1], texts[i])
  <2>1. PICK a \in Arrays, n \in Nat : a = after[i - 1] /\ n = Len(texts[i])
    <3>1. i - 1 \in 0 .. Len(texts) /\ texts[i] \in Seq(Byte)
      OBVIOUS
    <3>2. after[i - 1] \in Arrays /\ Len(texts[i]) \in Nat
      BY <1>4, <3>1
    <3> QED BY <3>2
  <2>2. a.base = 1 /\ a.position \in Nat
    BY ArrayFacts
  <2>3. (a.position + n) % 1 = 0
    BY <2>2
  <2> QED BY <2>1, <2>2, <2>3 DEF EndsWithNode
<1> QED BY <1>2, <1>3, <1>5

-----------------------------------------------------------------------------
(* Reading and moving. *)

\* w is a with another position.
SameBytes(a, w) == w.base = a.base /\ w.nodes = a.nodes /\ w.size = a.size

\* read: the position and m_cur move on together.
LEMMA Taken ==
    ASSUME NEW a \in Arrays, NEW n \in Nat, a.position + n <= a.size, NEW w, w = Take(a, n)
    PROVE  /\ w \in Arrays /\ SameBytes(a, w) /\ w.position = a.position + n
           /\ Follows(a) => Follows(w)
<1>1. PICK b \in Nat \ {0}, l \in Nat \ {0}, p \in Nat, s \in Nat, c \in Nat :
        /\ b \in BaseSizes /\ a.base = b /\ Len(a.nodes) = l /\ a.position = p /\ a.size = s /\ a.cur = c
        /\ c <= l /\ p <= s /\ s <= b * l /\ Capacity(a) = b * l
        /\ a.nodes \in Seq([1 .. b -> Byte])
        /\ a = [base |-> b, nodes |-> a.nodes, cur |-> c, position |-> p, size |-> s]
  BY Parts
<1>2. PICK q \in Nat, r \in 0 .. b - 1 : q = p \div b /\ r = p % b /\ p = b * q + r
  <2>1. p \div b \in Nat /\ p % b \in 0 .. b - 1 /\ p = b * (p \div b) + (p % b)
    BY Division
  <2> QED BY <2>1
<1>3. PICK y \in Nat : y = r + n
  OBVIOUS
<1>4. PICK d \in Nat, t \in 0 .. b - 1 : d = y \div b /\ t = y % b /\ y = b * d + t
  <2>1. y \div b \in Nat /\ y % b \in 0 .. b - 1 /\ y = b * (y \div b) + (y % b)
    BY Division
  <2> QED BY <2>1
<1>5. PICK cur : cur = NodeAt(a, c + d)
  OBVIOUS
<1>6. cur \in 0 .. l /\ cur = IF c + d > l THEN 0 ELSE c + d
  BY <1>1, <1>5, SMTT(30) DEF NodeAt, Null
<1>7. w = [base |-> b, nodes |-> a.nodes, cur |-> cur, position |-> p + n, size |-> s]
  BY <1>1, <1>2, <1>3, <1>4, <1>5 DEF Take
<1>8. w.base = b /\ w.nodes = a.nodes /\ w.cur = cur /\ w.position = p + n /\ w.size = s
  BY <1>7
<1>9. w \in Arrays
  <2>1. b \in BaseSizes /\ a.nodes \in Seq([1 .. b -> Byte]) /\ Len(a.nodes) >= 1
    BY <1>1
  <2>2. cur \in 0 .. Len(a.nodes) /\ p + n \in 0 .. s /\ s <= b * Len(a.nodes)
    BY <1>1, <1>6, SMTT(30)
  <2> QED BY <1>7, <2>1, <2>2, MakeArray
<1>10. ASSUME Follows(a) PROVE Follows(w)
  <2>1. (p + n) \div b = q + d
    <3>1. q + d \in Nat /\ b * (q + d) = b * q + b * d
      OBVIOUS
    <3>2. p + n = b * (q + d) + t
      <4>1. p + n = b * q + y
        BY <1>2, <1>3
      <4> QED BY <1>4, <3>1, <4>1
    <3> QED BY <3>1, <3>2, Quotient
  <2>2. c = IF q + 1 > l THEN 0 ELSE q + 1
    BY <1>1, <1>2, <1>10 DEF Follows, NodeAt, Null
  <2>3. q + 1 > l => d = 0
    <3> SUFFICES ASSUME q >= l PROVE d = 0
      OBVIOUS
    <3>1. b * q >= b * l
      OBVIOUS
    <3>2. y <= 0
      <4>1. p + n = b * q + y
        BY <1>2, <1>3
      <4>2. p + n <= b * l
        BY <1>1, SMTT(30)
      <4> QED BY <3>1, <4>1, <4>2
    <3> QED BY <1>3, <1>4, <3>2
  <2>4. cur = IF q + d + 1 > l THEN 0 ELSE q + d + 1
    BY <1>6, <2>2, <2>3
  <2> QED BY <1>1, <1>8, <2>1, <2>4 DEF Follows, NodeAt, Null
<1>11. SameBytes(a, w) /\ w.position = a.position + n
  BY <1>1, <1>8 DEF SameBytes
<1> QED BY <1>9, <1>10, <1>11

\* setPosition: m_cur is counted from the root, so that it follows whatever it was.
LEMMA Moved ==
    ASSUME NEW a \in Arrays, NEW v \in Nat, v <= Capacity(a), NEW w, w = MoveTo(a, v)
    PROVE  /\ w \in Arrays /\ w.base = a.base /\ w.nodes = a.nodes /\ w.position = v
           /\ w.size = (IF a.size >= v THEN a.size ELSE v) /\ Follows(w)
<1>1. PICK b \in Nat \ {0}, l \in Nat \ {0}, p \in Nat, s \in Nat, c \in Nat :
        /\ b \in BaseSizes /\ a.base = b /\ Len(a.nodes) = l /\ a.position = p /\ a.size = s /\ a.cur = c
        /\ c <= l /\ p <= s /\ s <= b * l /\ Capacity(a) = b * l
        /\ a.nodes \in Seq([1 .. b -> Byte])
        /\ a = [base |-> b, nodes |-> a.nodes, cur |-> c, position |-> p, size |-> s]
  BY Parts
<1>2. PICK m \in Nat : m = Max({s, v}) /\ m = IF s >= v THEN s ELSE v
  BY MaxOfTwo
<1>3. PICK cur : cur = NodeAt(a, v \div b + 1)
  OBVIOUS
<1>4. cur \in 0 .. l
  <2>1. v \div b \in Nat
    OBVIOUS
  <2> QED BY <1>1, <1>3, <2>1 DEF NodeAt, Null
<1>5. w = [base |-> b, nodes |-> a.nodes, cur |-> cur, position |-> v, size |-> m]
  BY <1>1, <1>2, <1>3 DEF MoveTo
<1>6. w.base = b /\ w.nodes = a.nodes /\ w.cur = cur /\ w.position = v /\ w.size = m
  BY <1>5
<1>7. w \in Arrays
  <2>1. b \in BaseSizes /\ a.nodes \in Seq([1 .. b -> Byte]) /\ Len(a.nodes) >= 1
    BY <1>1
  <2>2. cur \in 0 .. Len(a.nodes) /\ v \in 0 .. m /\ m <= b * Len(a.nodes)
    BY <1>1, <1>2, <1>4
  <2> QED BY <1>5, <2>1, <2>2, MakeArray
<1>8. Follows(w)
  BY <1>1, <1>3, <1>6 DEF Follows, NodeAt
<1> QED BY <1>1, <1>2, <1>6, <1>7, <1>8

\* The bytes that a transfer passes, one after the other.
LEMMA CellsAre ==
    ASSUME ba \in Arrays, NEW i \in Nat \ {0}, NEW o \in 0 .. ba.base - 1, NEW n \in Int
    PROVE  Cells(i, o, n) = [k \in 1 .. n |-> At(ba, (i - 1) * ba.base + o + k - 1)]
<1>1. PICK b \in Nat \ {0} : b = ba.base
  BY ArrayFacts
<1>2. ASSUME NEW k \in 1 .. n
      PROVE  ba.nodes[i + (o + k - 1) \div b][((o + k - 1) % b) + 1] = At(ba, (i - 1) * b + o + k - 1)
  <2>1. PICK y \in Nat : y = o + k - 1
    BY <1>1
  <2>2. PICK d \in Nat, t \in 0 .. b - 1 : d = y \div b /\ t = y % b /\ y = b * d + t
    <3>1. y \div b \in Nat /\ y % b \in 0 .. b - 1 /\ y = b * (y \div b) + (y % b)
      BY Division
    <3> QED BY <3>1
  <2>3. PICK z \in Nat : z = (i - 1) + d /\ z + 1 = i + d
    OBVIOUS
  <2>4. b * z = (i - 1) * b + b * d
    BY <2>3
  <2>5. (i - 1) * b + o + k - 1 = b * z + t
    <3>1. (i - 1) * b + o + k - 1 = (i - 1) * b + y
      BY <1>1, <2>1
    <3> QED BY <2>2, <2>4, <3>1
  <2>6. (b * z + t) \div b = z /\ (b * z + t) % b = t
    BY Quotient
  <2>7. At(ba, b * z + t) = ba.nodes[z + 1][t + 1]
    BY <1>1, <2>6 DEF At, Cell
  <2> QED BY <2>1, <2>2, <2>3, <2>5, <2>7
<1> QED BY <1>1, <1>2 DEF Cells

\* The array's bytes, as one sequence.
LEMMA BytesAre ==
    ASSUME NEW a \in Arrays
    PROVE  /\ Bytes(a) \in Seq(Byte) /\ Len(Bytes(a)) = a.size
           /\ \A k \in 1 .. a.size : Bytes(a)[k] = At(a, k - 1)
<1>1. PICK s \in Nat : s = a.size /\ s <= Capacity(a)
  BY ArrayFacts
<1>2. Capacity(a) \in Nat
  BY ArrayFacts
<1>3. \A k \in 1 .. s : At(a, k - 1) \in Byte
  <2> SUFFICES ASSUME NEW k \in 1 .. s PROVE At(a, k - 1) \in Byte
    OBVIOUS
  <2>1. k - 1 \in 0 .. Capacity(a) - 1
    BY <1>1, <1>2
  <2> QED BY <2>1, InNodes
<1>4. Bytes(a) = [k \in 1 .. s |-> At(a, k - 1)]
  BY <1>1 DEF Bytes
<1>5. [k \in 1 .. s |-> At(a, k - 1)] \in Seq(Byte) /\ Len([k \in 1 .. s |-> At(a, k - 1)]) = s
  BY <1>3
<1> QED BY <1>1, <1>4, <1>5

\* Walking the nodes from m_root yields the bytes of the array.
LEMMA CellsFromStart ==
    ASSUME ba \in Arrays
    PROVE  Cells(1, 0, ba.size) = Bytes(ba)
<1>1. ba.base \in Nat \ {0} /\ ba.size \in Nat
  BY ArrayFacts
<1>2. 1 \in Nat \ {0} /\ 0 \in 0 .. ba.base - 1 /\ ba.size \in Int
  BY <1>1
<1>3. Cells(1, 0, ba.size) = [k \in 1 .. ba.size |-> At(ba, (1 - 1) * ba.base + 0 + k - 1)]
  BY <1>2, CellsAre
<1>4. \A k \in 1 .. ba.size : (1 - 1) * ba.base + 0 + k - 1 = k - 1
  BY <1>1
<1> QED BY <1>3, <1>4 DEF Bytes

\* What the code fetches from m_cur on is what lies behind the position.
LEMMA AheadIs ==
    ASSUME ba \in Arrays, Follows(ba)
    PROVE  /\ Ahead \in Seq(Byte) /\ Len(Ahead) = ba.size - ba.position
           /\ Ahead = SubSeq(Bytes(ba), ba.position + 1, ba.size)
           /\ ba.cur # Null => \A n \in 0 .. ba.size - ba.position : Cells(ba.cur, npos, n) = SubSeq(Ahead, 1, n)
<1>1. PICK b \in Nat \ {0}, p \in Nat, s \in Nat :
        b = ba.base /\ p = ba.position /\ s = ba.size /\ p <= s /\ s <= Capacity(ba) /\ Capacity(ba) \in Nat
  <2>1. ba.base \in Nat \ {0} /\ ba.position \in Nat /\ ba.size \in Nat
    BY ArrayFacts
  <2>2. ba.position <= ba.size /\ ba.size <= Capacity(ba) /\ Capacity(ba) \in Nat
    BY ArrayFacts
  <2> QED BY <2>1, <2>2
<1>2. PICK q \in Nat, r \in 0 .. b - 1 : q = p \div b /\ r = p % b /\ p = b * q + r
  <2>1. p \div b \in Nat /\ p % b \in 0 .. b - 1 /\ p = b * (p \div b) + (p % b)
    BY Division
  <2> QED BY <2>1
<1>3. ASSUME NEW n \in 0 .. s - p, ba.cur # Null
      PROVE  Cells(ba.cur, npos, n) = [k \in 1 .. n |-> At(ba, p + k - 1)]
  <2>1. ba.cur = q + 1
    <3>1. ba.position # Capacity(ba)
      BY <1>3, WhereCurIs
    <3>2. ba.position < Capacity(ba)
      BY <1>1, <3>1
    <3>3. ba.cur = ba.position \div ba.base + 1
      BY <3>2, WhereCurIs
    <3> QED BY <1>1, <1>2, <3>3
  <2>2. PICK c \in Nat \ {0}, o \in 0 .. b - 1 : c = ba.cur /\ c - 1 = q /\ o = npos /\ o = r
    <3>1. npos = r
      BY <1>1, <1>2 DEF npos
    <3> QED BY <2>1, <3>1
  <2>3. Cells(c, o, n) = [k \in 1 .. n |-> At(ba, (c - 1) * ba.base + o + k - 1)]
    <3>1. o \in 0 .. ba.base - 1 /\ n \in Int
      BY <1>1
    <3> QED BY <3>1, CellsAre
  <2>4. \A k \in 1 .. n : (c - 1) * ba.base + o + k - 1 = p + k - 1
    <3>1. (c - 1) * ba.base = b * q
      BY <1>1, <2>2
    <3> QED BY <1>2, <2>2, <3>1
  <2> QED BY <2>2, <2>3, <2>4
<1>4. /\ SubSeq(Bytes(ba), p + 1, s) \in Seq(Byte) /\ Len(SubSeq(Bytes(ba), p + 1, s)) = s - p
      /\ \A k \in 1 .. s - p : SubSeq(Bytes(ba), p + 1, s)[k] = At(ba, p + k - 1)
  <2>1. PICK bytes \in Seq(Byte) : /\ bytes = Bytes(ba) /\ Len(bytes) = s
                                   /\ \A k \in 1 .. s : bytes[k] = At(ba, k - 1)
    <3>1. /\ Bytes(ba) \in Seq(Byte) /\ Len(Bytes(ba)) = ba.size
          /\ \A k \in 1 .. ba.size : Bytes(ba)[k] = At(ba, k - 1)
      BY BytesAre
    <3> QED BY <1>1, <3>1
  <2>2. SubSeq(bytes, p + 1, s) \in Seq(Byte) /\ Len(SubSeq(bytes, p + 1, s)) = s - p
    BY <1>1, <2>1, SMTT(30)
  <2>3. ASSUME NEW k \in 1 .. s - p PROVE SubSeq(bytes, p + 1, s)[k] = At(ba, p + k - 1)
    <3>1. SubSeq(bytes, p + 1, s)[k] = bytes[(p + 1) + k - 1]
      <4>1. \A i \in p + 1 .. s : bytes[i] \in Byte
        BY <2>1
      <4>2. k \in 1 .. s - (p + 1) + 1
        OBVIOUS
      <4> QED BY <4>1, <4>2, SubSeqProperties
    <3>2. (p + 1) + k - 1 = p + k /\ p + k \in 1 .. s /\ p + k - 1 = (p + k) - 1
      <4>1. PICK m \in Nat : m = s - p
        BY <1>1
      <4>2. k \in Nat /\ k >= 1 /\ k <= m
        BY <4>1
      <4> QED BY <4>1, <4>2
    <3> QED BY <2>1, <3>1, <3>2
  <2> QED BY <2>1, <2>2, <2>3
<1>5. PICK rest \in Seq(Byte) : /\ rest = SubSeq(Bytes(ba), p + 1, s) /\ Len(rest) = s - p
                                /\ \A k \in 1 .. s - p : rest[k] = At(ba, p + k - 1)
  BY <1>4
<1>6. Ahead = rest
  <2>1. CASE s = p
    <3>1. rest = <<>>
      BY <1>5, <2>1
    <3> QED BY <1>1, <2>1, <3>1 DEF Ahead, getReadSize
  <2>2. CASE s > p
    <3>1. ba.cur # Null
      BY <1>1, <2>2, NullAtTheEnd
    <3>2. Ahead = Cells(ba.cur, npos, s - p)
      BY <1>1, <2>2 DEF Ahead, getReadSize
    <3>3. s - p \in 0 .. s - p
      BY <1>1
    <3>4. Ahead = [k \in 1 .. s - p |-> At(ba, p + k - 1)]
      BY <1>3, <3>1, <3>2, <3>3
    <3>5. rest = [k \in 1 .. s - p |-> rest[k]]
      <4>1. rest = [k \in 1 .. Len(rest) |-> rest[k]]
        OBVIOUS
      <4> QED BY <1>5, <4>1
    <3> QED BY <1>5, <3>4, <3>5
  <2> QED BY <1>1, <2>1, <2>2
<1>7. ASSUME NEW n \in 0 .. s - p, ba.cur # Null
      PROVE  Cells(ba.cur, npos, n) = SubSeq(rest, 1, n)
  <2>1. Cells(ba.cur, npos, n) = [k \in 1 .. n |-> At(ba, p + k - 1)]
    BY <1>3, <1>7
  <2>2. n \in Nat /\ n <= Len(rest) /\ 1 .. n \subseteq 1 .. s - p
    <3>1. s - p \in Nat /\ Len(rest) = s - p
      BY <1>1, <1>5, SMTT(30)
    <3> QED BY <3>1
  <2>3. SubSeq(rest, 1, n) = [k \in 1 .. n |-> rest[k]]
    BY <2>2
  <2>4. \A k \in 1 .. n : rest[k] = At(ba, p + k - 1)
    BY <1>5, <2>2
  <2> QED BY <2>1, <2>3, <2>4
<1> QED BY <1>1, <1>5, <1>6, <1>7

\* Bytes at a place of the caller's choice.
LEMMA CellsAtPosition ==
    ASSUME ba \in Arrays, NEW position \in Nat, NEW n \in Nat, position + n <= ba.size
    PROVE  Cells(position \div ba.base + 1, position % ba.base, n) = SubSeq(Bytes(ba), position + 1, position + n)
<1>1. PICK b \in Nat \ {0}, s \in Nat : b = ba.base /\ s = ba.size
  <2>1. ba.base \in Nat \ {0} /\ ba.size \in Nat
    BY ArrayFacts
  <2> QED BY <2>1
<1>2. PICK q \in Nat, r \in 0 .. b - 1 : q = position \div b /\ r = position % b /\ position = b * q + r
  <2>1. position \div b \in Nat /\ position % b \in 0 .. b - 1 /\ position = b * (position \div b) + (position % b)
    BY Division
  <2> QED BY <2>1
<1>3. PICK i \in Nat \ {0} : i = q + 1
  OBVIOUS
<1>4. Cells(i, r, n) = [k \in 1 .. n |-> At(ba, (i - 1) * ba.base + r + k - 1)]
  <2>1. r \in 0 .. ba.base - 1 /\ n \in Int
    BY <1>1
  <2> QED BY <2>1, CellsAre
<1>5. \A k \in 1 .. n : (i - 1) * ba.base + r + k - 1 = (position + k) - 1
  <2>1. (i - 1) * ba.base = b * q
    BY <1>1, <1>3
  <2> QED BY <1>2, <2>1
<1>6. PICK bytes \in Seq(Byte) : /\ bytes = Bytes(ba) /\ Len(bytes) = s
                                 /\ \A k \in 1 .. s : bytes[k] = At(ba, k - 1)
  <2>1. /\ Bytes(ba) \in Seq(Byte) /\ Len(Bytes(ba)) = ba.size
        /\ \A k \in 1 .. ba.size : Bytes(ba)[k] = At(ba, k - 1)
    BY BytesAre
  <2> QED BY <1>1, <2>1
<1>7. position + n <= s
  BY <1>1
<1>8. SubSeq(bytes, position + 1, position + n) = [k \in 1 .. n |-> bytes[position + k]]
  BY <1>6, <1>7
<1>9. ASSUME NEW k \in 1 .. n PROVE bytes[position + k] = At(ba, (position + k) - 1)
  <2>1. position + k \in 1 .. s
    BY <1>7
  <2> QED BY <1>6, <2>1
<1>10. Cells(i, r, n) = [k \in 1 .. n |-> At(ba, (position + k) - 1)]
  BY <1>4, <1>5
<1>11. Cells(i, r, n) = SubSeq(bytes, position + 1, position + n)
  BY <1>8, <1>9, <1>10
<1> QED BY <1>1, <1>2, <1>3, <1>6, <1>11

\* The first bytes of what lies ahead.
LEMMA FrontOfRest ==
    ASSUME NEW s \in Seq(Byte), NEW p \in Nat, NEW n \in Nat, p + n <= Len(s)
    PROVE  SubSeq(SubSeq(s, p + 1, Len(s)), 1, n) = SubSeq(s, p + 1, p + n)
<1>1. PICK l \in Nat : l = Len(s) /\ p + n <= l
  OBVIOUS
<1>2. PICK t \in Seq(Byte) : /\ t = SubSeq(s, p + 1, l) /\ Len(t) = l - p
                             /\ \A k \in 1 .. l - p : t[k] = s[p + k]
  <2>1. SubSeq(s, p + 1, l) \in Seq(Byte) /\ Len(SubSeq(s, p + 1, l)) = l - p
    BY <1>1
  <2>2. \A k \in 1 .. l - p : SubSeq(s, p + 1, l)[k] = s[p + k]
    BY <1>1
  <2> QED BY <2>1, <2>2
<1>3. SubSeq(t, 1, n) = [k \in 1 .. n |-> t[k]]
  BY <1>1, <1>2
<1>4. SubSeq(s, p + 1, p + n) = [k \in 1 .. n |-> s[p + k]]
  BY <1>1
<1>5. \A k \in 1 .. n : t[k] = s[p + k]
  BY <1>1, <1>2
<1> QED BY <1>1, <1>2, <1>3, <1>4, <1>5

-----------------------------------------------------------------------------
(* The chain and the flat sequence. *)

\* The refinement mapping, on an array that has its shape, yields its bytes.
LEMMA FlatIs ==
    ASSUME NEW a \in Arrays
    PROVE  [k \in 1 .. a.size |-> a.nodes[1 + (0 + k - 1) \div a.base][((0 + k - 1) % a.base) + 1]] = Bytes(a)
<1>1. PICK b \in Nat \ {0}, s \in Nat : b = a.base /\ s = a.size
  <2>1. a.base \in Nat \ {0} /\ a.size \in Nat
    BY ArrayFacts
  <2> QED BY <2>1
<1>2. ASSUME NEW k \in 1 .. s PROVE a.nodes[1 + (0 + k - 1) \div b][((0 + k - 1) % b) + 1] = At(a, k - 1)
  <2>1. PICK m \in Nat : m = k - 1 /\ 0 + k - 1 = m
    OBVIOUS
  <2>2. 1 + m \div b = m \div b + 1
    OBVIOUS
  <2> QED BY <1>1, <2>1, <2>2 DEF At, Cell
<1> QED BY <1>1, <1>2 DEF Bytes

\* What bytes of FlatBytes stands for.
LEMMA FlatBefore ==
    ASSUME IInv, sound
    PROVE  (IF alive /\ sound THEN Cells(1, 0, ba.size) ELSE <<>>) = Bytes(ba)
<1>1. ba \in Arrays /\ alive
  BY DEF IInv
<1> QED BY <1>1, FlatIs DEF Cells

\* The same in the next state.
LEMMA FlatAfter ==
    ASSUME IInv', sound'
    PROVE  (IF alive /\ sound THEN Cells(1, 0, ba.size) ELSE <<>>)' = Bytes(ba')
<1>1. ba' \in Arrays /\ alive'
  BY DEF IInv
<1> QED BY <1>1, FlatIs DEF Cells

\* What FlatBytes has ahead of the position is what the walk from m_cur reads.
LEMMA FlatAhead ==
    ASSUME IInv, sound
    PROVE  /\ Flat!Ahead = Ahead /\ Ahead \in Seq(Byte) /\ Len(Ahead) = ba.size - ba.position
           /\ Bytes(ba) \in Seq(Byte) /\ Len(Bytes(ba)) = ba.size
           /\ Ahead = SubSeq(Bytes(ba), ba.position + 1, ba.size)
<1>1. ba \in Arrays /\ Follows(ba)
  BY DEF IInv
<1>2. /\ Ahead \in Seq(Byte) /\ Len(Ahead) = ba.size - ba.position
      /\ Ahead = SubSeq(Bytes(ba), ba.position + 1, ba.size)
  BY <1>1, AheadIs
<1>3. Bytes(ba) \in Seq(Byte) /\ Len(Bytes(ba)) = ba.size
  BY <1>1, BytesAre
<1>4. Flat!Ahead = SubSeq(Bytes(ba), ba.position + 1, Len(Bytes(ba)))
  BY FlatBefore DEF Flat!Ahead
<1> QED BY <1>2, <1>3, <1>4

\* The members of ba under the invariant, as numbers.
LEMMA Positions ==
    ASSUME IInv
    PROVE  /\ ba.position \in Nat /\ ba.size \in Nat /\ ba.position <= ba.size
           /\ ba.size <= Capacity(ba) /\ Capacity(ba) \in Nat /\ ba.base \in Nat \ {0}
           /\ getReadSize = ba.size - ba.position /\ getReadSize \in Nat
<1>1. ba \in Arrays
  BY DEF IInv
<1>2. /\ ba.position \in Nat /\ ba.size \in Nat /\ ba.position <= ba.size
      /\ ba.size <= Capacity(ba) /\ Capacity(ba) \in Nat /\ ba.base \in Nat \ {0}
  BY <1>1, ArrayFacts
<1> QED BY <1>2 DEF getReadSize

\* Arrays with the same nodes and size have the same bytes.
LEMMA SameIsSame ==
    ASSUME NEW a, NEW w, SameBytes(a, w)
    PROVE  Bytes(w) = Bytes(a) /\ Capacity(w) = Capacity(a)
  BY DEF SameBytes, Bytes, At, Capacity

\* A call that only moves the position forward.
LEMMA MovesOn ==
    ASSUME IInv, sound, ba' \in Arrays, Follows(ba'), SameBytes(ba, ba'), UNCHANGED <<little, sound, alive>>
    PROVE  IInv' /\ sound' /\ UNCHANGED (IF alive /\ sound THEN Cells(1, 0, ba.size) ELSE <<>>)
<1>1. Capacity(ba') <= MaxCapacity
  <2>1. Capacity(ba) <= MaxCapacity
    BY DEF IInv
  <2> QED BY <2>1, SameIsSame
<1>2. IInv' /\ sound'
  BY <1>1 DEF IInv
<1> QED BY <1>2, FlatBefore, FlatAfter, SameIsSame

\* A call that throws, having moved the position by n, is a failure of FlatBytes.
LEMMA FailsStep ==
    ASSUME IInv, sound, NEW op, NEW n \in Nat, n <= ba.size - ba.position, Fails(op, n)
    PROVE  IInv' /\ sound' /\ Flat!Fail(op, n)
<1>1. ba \in Arrays /\ Follows(ba) /\ ba.position \in Nat /\ ba.size \in Nat
  BY Positions DEF IInv
<1>2. ba' \in Arrays /\ Follows(ba') /\ SameBytes(ba, ba') /\ ba'.position = ba.position + n
  <2>1. CASE n = 0
    BY <1>1, <2>1 DEF Fails, SameBytes
  <2>2. CASE n # 0
    <3>1. ba' = Take(ba, n) /\ ba.position + n <= ba.size
      BY <1>1, <2>2 DEF Fails
    <3> QED BY <1>1, <3>1, Taken
  <2> QED BY <2>1, <2>2
<1>3. UNCHANGED <<little, sound, alive>> /\ out' = Failed(op)
  BY DEF Fails
<1>4. IInv' /\ sound' /\ UNCHANGED (IF alive /\ sound THEN Cells(1, 0, ba.size) ELSE <<>>)
  BY <1>2, <1>3, MovesOn
<1> QED BY <1>2, <1>3, <1>4 DEF Flat!Fail, Flat!Failed, Flat!Answer, Failed, Answer

\* A call that returns what it read, having moved the position by n, is a Get of FlatBytes.
LEMMA ReturnsStep ==
    ASSUME IInv, sound, NEW op, NEW value, NEW a \in Arrays, Follows(a), SameBytes(ba, a),
           NEW n, a.position = ba.position + n, Returns(op, a, value)
    PROVE  IInv' /\ sound' /\ Flat!Get(op, n, value)
<1>1. ba' = a /\ UNCHANGED <<little, sound, alive>> /\ out' = Answer(op, value)
  BY DEF Returns
<1>2. IInv' /\ sound' /\ UNCHANGED (IF alive /\ sound THEN Cells(1, 0, ba.size) ELSE <<>>)
  BY <1>1, MovesOn
<1> QED BY <1>1, <1>2 DEF Flat!Get, Flat!Answer, Answer

\* A call that only looks.
LEMMA PeeksStep ==
    ASSUME IInv, sound, NEW op, NEW from, NEW n, UNCHANGED <<ba, little, sound, alive>>,
           out' = Answer(op, SubSeq(Bytes(ba), from + 1, from + n))
    PROVE  IInv' /\ sound' /\ Flat!Peek(op, from, n)
<1>1. ba \in Arrays /\ Follows(ba)
  BY DEF IInv
<1>2. IInv' /\ sound' /\ UNCHANGED (IF alive /\ sound THEN Cells(1, 0, ba.size) ELSE <<>>)
  BY <1>1, MovesOn DEF SameBytes
<1>3. (IF alive /\ sound THEN Cells(1, 0, ba.size) ELSE <<>>) = Bytes(ba)
  BY FlatBefore
<1> QED BY <1>2, <1>3 DEF Flat!Peek, Flat!Answer, Answer

\* A null pointer is followed only in a call that is not sound.
LEMMA CrashesStep ==
    ASSUME IInv, NEW op, NEW flaw \in BOOLEAN, flaw, Crashes(op, flaw)
    PROVE  IInv' /\ ~ sound'
<1>1. sound' = FALSE /\ alive' = FALSE /\ UNCHANGED <<ba, little>>
  BY DEF Crashes
<1> QED BY <1>1 DEF IInv

\* What is written over the bytes of an array, and behind them.
LEMMA ReachedIsPut ==
    ASSUME IInv, sound, IInv', sound', NEW op, NEW text \in Seq(Byte), Reached(ba, ba', text, Len(text)),
           out' = Answer(op, text), UNCHANGED little
    PROVE  Flat!Put(op, text)
<1>1. PICK p \in Nat, s \in Nat, n \in Nat : p = ba.position /\ s = ba.size /\ p <= s /\ n = Len(text)
  <2>1. ba.position \in Nat /\ ba.size \in Nat /\ ba.position <= ba.size /\ Len(text) \in Nat
    BY Positions
  <2> QED BY <2>1
<1>2. ba \in Arrays /\ ba' \in Arrays
  BY DEF IInv
<1>3. ba'.position = p + n
  BY <1>1 DEF Reached
<1>4. PICK m \in Nat : ba'.size = m /\ m = IF s >= p + n THEN s ELSE p + n
  BY <1>1, <1>3 DEF Reached
<1>5. \A k \in 0 .. m - 1 : At(ba', k) = IF k \in p .. p + n - 1 THEN text[k - p + 1] ELSE At(ba, k)
  BY <1>1, <1>4 DEF Reached
<1>6. PICK bytes \in Seq(Byte) : /\ bytes = Bytes(ba) /\ Len(bytes) = s
                                 /\ \A k \in 1 .. s : bytes[k] = At(ba, k - 1)
  <2>1. /\ Bytes(ba) \in Seq(Byte) /\ Len(Bytes(ba)) = ba.size
        /\ \A k \in 1 .. ba.size : Bytes(ba)[k] = At(ba, k - 1)
    BY <1>2, BytesAre
  <2> QED BY <1>1, <2>1
<1>7. Bytes(ba') = [k \in 1 .. m |-> At(ba', k - 1)]
  BY <1>4 DEF Bytes
<1>8. ASSUME NEW k \in 1 .. m
      PROVE  At(ba', k - 1) = IF k \in p + 1 .. p + n THEN text[k - p] ELSE bytes[k]
  <2>1. k - 1 \in 0 .. m - 1 /\ (k - 1) - p + 1 = k - p /\ (k - 1 \in p .. p + n - 1 <=> k \in p + 1 .. p + n)
    OBVIOUS
  <2>2. At(ba', k - 1) = IF k \in p + 1 .. p + n THEN text[k - p] ELSE At(ba, k - 1)
    BY <1>5, <2>1
  <2>3. ~ (k \in p + 1 .. p + n) => k \in 1 .. s
    BY <1>1, <1>4
  <2> QED BY <1>6, <2>2, <2>3
<1>9. Max({s, p + n}) = m
  BY <1>4, MaxOfTwo
<1>10. Bytes(ba') = [i \in 1 .. Max({Len(bytes), p + Len(text)}) |->
                       IF i \in p + 1 .. p + Len(text) THEN text[i - p] ELSE bytes[i]]
  BY <1>1, <1>6, <1>7, <1>8, <1>9
<1>11. /\ (IF alive /\ sound THEN Cells(1, 0, ba.size) ELSE <<>>) = bytes
       /\ (IF alive /\ sound THEN Cells(1, 0, ba.size) ELSE <<>>)' = Bytes(ba')
  BY <1>6, FlatBefore, FlatAfter
<1>12. Flat!Overwrite(text) = Bytes(ba')
  <2> DEFINE Over(f) == [i \in 1 .. Max({Len(f), ba.position + Len(text)}) |->
                           IF i \in ba.position + 1 .. ba.position + Len(text)
                           THEN text[i - ba.position] ELSE f[i]]
  <2>1. Flat!Overwrite(text) = Over(IF alive /\ sound THEN Cells(1, 0, ba.size) ELSE <<>>)
    BY DEF Flat!Overwrite, Flat!Max, Max
  <2>2. Over(bytes) = Bytes(ba')
    BY <1>1, <1>10
  <2> HIDE DEF Over
  <2> QED BY <1>11, <2>1, <2>2
<1>13. sound' = sound
  BY DEF IInv
<1> QED BY <1>1, <1>3, <1>11, <1>12, <1>13 DEF Flat!Put, Flat!Answer, Answer

\* The calls that write.
LEMMA WritesPut ==
    ASSUME IInv, NEW op, NEW texts \in Seq(Seq(Byte)), NEW whole \in Seq(Byte), \E L : Cut(texts, whole, L),
           Writes(op, texts, whole)
    PROVE  IInv' /\ (sound' => Flat!Put(op, whole)) /\ (BaseSizes = {1} => sound')
<1>1. PICK L : Cut(texts, whole, L)
  OBVIOUS
<1>2. IInv' /\ (sound' => sound /\ Reached(ba, ba', whole, Len(whole)))
  BY <1>1, WritesStep
<1>3. out' = Answer(op, whole) /\ UNCHANGED little
  BY DEF Writes
<1> QED BY <1>2, <1>3, ReachedIsPut, OneByteNodes

\* write of one text.
LEMMA WriteOneStep ==
    ASSUME IInv, NEW text \in Seq(Byte), WriteOne(text)
    PROVE  IInv' /\ (BaseSizes = {1} => Flat!Put("write", text) /\ sound')
<1>1. <<text>> \in Seq(Seq(Byte)) /\ \E L : Cut(<<text>>, text, L)
  BY OneText
<1> QED BY <1>1, WritesPut DEF WriteOne

\* writeStringVint.
LEMMA WriteStringStep ==
    ASSUME IInv, NEW text \in Texts, WriteString(text)
    PROVE  IInv' /\ (BaseSizes = {1} => Flat!Put("write", EncodeUint(Len(text)) \o text) /\ sound')
<1>1. text \in Seq(Byte) /\ Len(text) \in Unsigned
  BY ArrayAssumption
<1>2. PICK front \in Seq(Byte) : front = EncodeUint(Len(text))
  BY <1>1, Encoded
<1>3. /\ <<front, text>> \in Seq(Seq(Byte)) /\ front \o text \in Seq(Byte)
      /\ \E L : Cut(<<front, text>>, front \o text, L)
  BY <1>1, TwoTexts
<1>4. Writes("write", <<front, text>>, front \o text)
  BY <1>2 DEF WriteString
<1>5. IInv' /\ (BaseSizes = {1} => Flat!Put("write", front \o text) /\ sound')
  BY <1>3, <1>4, WritesPut
<1> QED BY <1>2, <1>5

\* readFromFile, one write for every bufferful.
LEMMA ReadFromFileStep ==
    ASSUME IInv, NEW text \in Texts, ReadFromFile(text)
    PROVE  IInv' /\ (BaseSizes = {1} => Flat!Put("file", text) /\ sound')
<1>1. text \in Seq(Byte) /\ ba \in Arrays
  BY ArrayAssumption DEF IInv
<1>2. Pieces(text) \in Seq(Seq(Byte)) /\ \E L : Cut(Pieces(text), text, L)
  BY <1>1, FilePieces
<1>3. Writes("file", Pieces(text), text)
  BY DEF ReadFromFile
<1> QED BY <1>1, <1>2, <1>3, WritesPut

\* SocketStream::read.
LEMMA StreamReadStep ==
    ASSUME IInv, NEW text \in Texts, NEW length \in Nat, StreamRead(length, text)
    PROVE  IInv' /\ Flat!Put("stream", text) /\ sound'
<1>1. ba \in Arrays /\ sound /\ alive /\ Follows(ba) /\ text \in Seq(Byte) /\ Len(text) <= length
  BY ArrayAssumption DEF StreamRead, InUse, IInv
<1>a. PICK j \in Junk : LET g == AddCapacity(ba, length, j)
                        IN ba' = IF text = <<>> THEN g
                                 ELSE MoveTo([g EXCEPT !.nodes = Copy(g, text)], ba.position + Len(text))
  BY DEF StreamRead
<1>2. PICK g :
        /\ g = AddCapacity(ba, length, j)
        /\ ba' = IF text = <<>> THEN g ELSE MoveTo([g EXCEPT !.nodes = Copy(g, text)], ba.position + Len(text))
  BY <1>a
<1>3. /\ g \in Arrays /\ g.base = ba.base /\ g.position = ba.position /\ g.size = ba.size
      /\ ba.position + length <= Capacity(g)
  BY <1>1, <1>2, AddedCapacity
<1>4. \A k \in 0 .. Capacity(ba) - 1 : At(g, k) = At(ba, k)
  BY <1>1, <1>2, AddedCapacity
<1>5. Follows(g) /\ (length > 0 => g.cur = ba.position \div ba.base + 1)
  BY <1>1, <1>2, AddedCapacity
<1>6. PICK p \in Nat, s \in Nat, n \in Nat :
        p = ba.position /\ s = ba.size /\ p <= s /\ s <= Capacity(ba) /\ Capacity(ba) \in Nat /\ n = Len(text)
  <2>1. ba.position \in Nat /\ ba.size \in Nat /\ ba.position <= ba.size /\ Len(text) \in Nat
    BY <1>1, Positions
  <2>2. ba.size <= Capacity(ba) /\ Capacity(ba) \in Nat
    BY Positions
  <2> QED BY <2>1, <2>2
<1>7. Capacity(ba') <= MaxCapacity /\ out' = Answer("stream", text) /\ UNCHANGED <<little, sound, alive>>
  BY DEF StreamRead
<1>8. ba' \in Arrays /\ Follows(ba') /\ Reached(ba, ba', text, Len(text))
  <2>1. CASE text = <<>>
    <3>1. ba' = g /\ n = 0
      BY <1>2, <1>6, <2>1
    <3>2. ASSUME NEW k \in 0 .. s - 1
          PROVE  At(g, k) = IF k \in p .. p + n - 1 THEN text[k - p + 1] ELSE At(ba, k)
      <4>1. k \in 0 .. Capacity(ba) - 1
        BY <1>6
      <4>2. ~ (k \in p .. p + n - 1)
        BY <3>1
      <4> QED BY <1>4, <4>1, <4>2
    <3>3. p = p + n /\ s = IF s >= p + n THEN s ELSE p + n
      BY <1>6, <3>1
    <3> QED BY <1>3, <1>5, <1>6, <3>1, <3>2, <3>3 DEF Reached
  <2>2. CASE text # <<>>
    <3>1. n > 0 /\ n <= length
      BY <1>1, <1>6, <2>2
    <3>a. PICK b \in Nat \ {0}, l \in Nat \ {0}, gp \in Nat, gs \in Nat, c \in Nat :
            /\ b \in BaseSizes /\ g.base = b /\ Len(g.nodes) = l /\ g.position = gp /\ g.size = gs /\ g.cur = c
            /\ c <= l /\ gp <= gs /\ gs <= b * l /\ Capacity(g) = b * l
            /\ g.nodes \in Seq([1 .. b -> Byte])
            /\ g = [base |-> b, nodes |-> g.nodes, cur |-> c, position |-> gp, size |-> gs]
      BY <1>3, Parts
    <3>b. gp = p /\ gs = s
      BY <1>3, <1>6, <3>a
    <3>2. /\ b \in BaseSizes /\ g.base = b /\ Len(g.nodes) = l /\ g.cur = c /\ c <= l /\ Capacity(g) = b * l
          /\ g.nodes \in Seq([1 .. b -> Byte]) /\ s <= b * l
          /\ g = [base |-> b, nodes |-> g.nodes, cur |-> c, position |-> p, size |-> s]
      BY <3>a, <3>b
    <3>3. PICK q \in Nat, r \in 0 .. b - 1 : q = p \div b /\ r = p % b /\ p = b * q + r
      <4>1. p \div b \in Nat /\ p % b \in 0 .. b - 1 /\ p = b * (p \div b) + (p % b)
        BY Division
      <4> QED BY <4>1
    <3>4. c = q + 1
      BY <1>3, <1>5, <1>6, <3>1, <3>2, <3>3
    <3>5. p = (c - 1) * b + r
      BY <3>3, <3>4
    <3>6. p = (g.cur - 1) * g.base + (g.position % g.base)
      BY <1>3, <1>6, <3>2, <3>3, <3>5
    <3>7. PICK nodes : nodes = Copy(g, text)
      OBVIOUS
    <3>8. /\ nodes \in Seq([1 .. g.base -> Byte]) /\ Len(nodes) = Len(g.nodes)
          /\ \A k \in 0 .. Capacity(g) - 1 : Cell(nodes, g.base, k) = Overlaid(g, text, p, k)
      <4>1. g \in Arrays /\ p \in Int
        BY <1>3
      <4> QED BY <1>1, <3>6, <3>7, <4>1, Copied, ZenonT(60)
    <3>9. PICK h : h = [base |-> b, nodes |-> nodes, cur |-> c, position |-> p, size |-> s]
      OBVIOUS
    <3>10. h = [g EXCEPT !.nodes = nodes]
      BY <3>2, <3>9, SMTT(30)
    <3>11. h \in Arrays
      <4>1. b \in BaseSizes /\ nodes \in Seq([1 .. b -> Byte]) /\ Len(nodes) = l
        BY <3>2, <3>8
      <4>2. c \in 0 .. Len(nodes) /\ p \in 0 .. s /\ s <= b * Len(nodes) /\ Len(nodes) >= 1
        <5>1. p <= s /\ c <= l /\ s <= b * l
          BY <1>6, <3>2
        <5> QED BY <4>1, <5>1
      <4> QED BY <3>9, <4>1, <4>2, MakeArray
    <3>12. h.base = b /\ h.nodes = nodes /\ h.position = p /\ h.size = s
      BY <3>9
    <3>13. Capacity(h) = b * l
      BY <3>2, <3>8, <3>12 DEF Capacity
    <3>14. ba' = MoveTo(h, p + n)
      BY <1>2, <1>6, <2>2, <3>7, <3>10
    <3>15. p + n \in Nat /\ p + n <= b * l
      <4>1. p + length <= b * l /\ length \in Nat
        BY <1>1, <1>3, <1>6, <3>2
      <4> QED BY <3>1, <4>1
    <3>16. /\ ba' \in Arrays /\ ba'.base = h.base /\ ba'.nodes = h.nodes /\ ba'.position = p + n
           /\ ba'.size = (IF h.size >= p + n THEN h.size ELSE p + n) /\ Follows(ba')
      BY <3>11, <3>13, <3>14, <3>15, Moved
    <3>17. PICK m \in Nat : ba'.size = m /\ m = IF s >= p + n THEN s ELSE p + n
      BY <3>12, <3>16
    <3>18. ASSUME NEW k \in 0 .. m - 1
           PROVE  At(ba', k) = IF k \in p .. p + n - 1 THEN text[k - p + 1] ELSE At(ba, k)
      <4>1. k \in 0 .. b * l - 1
        <5>1. s <= b * l /\ b * l \in Nat
          BY <3>2, SMTT(30)
        <5>2. m <= b * l
          BY <3>15, <3>17, <5>1
        <5> QED BY <5>1, <5>2
      <4>2. At(ba', k) = Overlaid(g, text, p, k)
        BY <3>2, <3>8, <3>12, <3>16, <4>1 DEF At
      <4>3. ~ (k \in p .. p + n - 1) => k \in 0 .. Capacity(ba) - 1
        <5>1. p <= s /\ s <= Capacity(ba) /\ Capacity(ba) \in Nat
          BY <1>6
        <5>2. m = IF s >= p + n THEN s ELSE p + n
          BY <3>17
        <5>3. k < p \/ k >= p + n => k < s
          BY <5>1, <5>2
        <5> QED BY <5>1, <5>3
      <4> QED BY <1>4, <1>6, <4>2, <4>3 DEF Overlaid
    <3> QED BY <1>6, <3>16, <3>17, <3>18 DEF Reached
  <2> QED BY <2>1, <2>2
<1>9. IInv' /\ sound'
  BY <1>1, <1>7, <1>8 DEF IInv
<1>10. Flat!Put("stream", text)
  BY <1>1, <1>7, <1>8, <1>9, ReachedIsPut
<1> QED BY <1>9, <1>10

\* FlatBytes reads numbers with the same operators.
LEMMA SameCodec ==
    ASSUME NEW text
    PROVE  /\ Flat!UintLength(text) = UintLength(text) /\ Flat!DecodeUint(text) = DecodeUint(text)
           /\ \A b : Flat!Unordered(text, b) = Unordered(text, b)
<1>1. Flat!UintLength(text) = UintLength(text)
  BY DEF Flat!UintLength, UintLength, Flat!MaxGroups, MaxGroups, Flat!More, More, Flat!Min, Min
<1>2. Flat!DecodeUint(text) = DecodeUint(text)
  BY DEF Flat!DecodeUint, DecodeUint, Flat!Decoding, Decoding, Flat!Shifted, Shifted, Flat!More, More
<1>3. ASSUME NEW b PROVE Flat!Unordered(text, b) = Unordered(text, b)
  BY DEF Flat!Unordered, Unordered, Flat!More, More
<1> QED BY <1>1, <1>2, <1>3

-----------------------------------------------------------------------------
(* Every call keeps the invariant, and as long as it is sound it does what     *)
(* FlatBytes says.                                                            *)

\* A call is made on an array that is alive and has not been misused.
LEMMA InUseFacts ==
    ASSUME IInv, InUse
    PROVE  sound /\ alive /\ ba \in Arrays /\ Follows(ba)
  BY DEF IInv, InUse

\* read.
LEMMA ReadStep ==
    ASSUME IInv, NEW n \in Nat, Read(n)
    PROVE  IInv' /\ (sound' => Flat!Read(n))
<1>1. sound /\ alive /\ ba \in Arrays /\ Follows(ba)
  BY InUseFacts DEF Read
<1>2. PICK m \in Nat : m = ba.size - ba.position /\ m = getReadSize
  BY Positions
<1>3. Flat!Ahead = Ahead /\ Len(Flat!Ahead) = m
  BY <1>1, <1>2, FlatAhead
<1>4. CASE n > m
  <2>1. Fails("read", 0)
    BY <1>2, <1>4 DEF Read
  <2>2. IInv' /\ sound' /\ Flat!Fail("read", 0)
    BY <1>1, <1>2, <2>1, FailsStep
  <2> QED BY <1>3, <1>4, <2>2 DEF Flat!Read
<1>5. CASE ~ (n > m) /\ ba.cur = Null
  <2>1. Crashes("read", n = 0)
    BY <1>2, <1>5 DEF Read
  <2>2. ba.size = ba.position
    BY <1>1, <1>5, NullAtTheEnd
  <2>3. (n = 0) \in BOOLEAN /\ n = 0
    <3>1. ba.position \in Nat
      BY Positions
    <3> QED BY <1>2, <1>5, <2>2, <3>1
  <2>4. IInv' /\ ~ sound'
    BY <2>1, <2>3, CrashesStep
  <2> QED BY <2>4
<1>6. CASE ~ (n > m) /\ ba.cur # Null
  <2>1. Returns("read", Take(ba, n), Cells(ba.cur, npos, n))
    BY <1>2, <1>6 DEF Read
  <2>2. Cells(ba.cur, npos, n) = SubSeq(Ahead, 1, n)
    <3>1. n \in 0 .. ba.size - ba.position
      BY <1>2, <1>6
    <3> QED BY <1>1, <1>6, <3>1, AheadIs
  <2>3. PICK a : a = Take(ba, n)
    OBVIOUS
  <2>4. ba.position + n <= ba.size
    BY <1>2, <1>6, Positions
  <2>5. a \in Arrays /\ SameBytes(ba, a) /\ a.position = ba.position + n /\ Follows(a)
    BY <1>1, <2>3, <2>4, Taken
  <2>6. IInv' /\ sound' /\ Flat!Get("read", n, SubSeq(Ahead, 1, n))
    BY <1>1, <2>1, <2>2, <2>3, <2>5, ReturnsStep
  <2> QED BY <1>3, <1>6, <2>6 DEF Flat!Read
<1> QED BY <1>4, <1>5, <1>6

\* readUint32 and readUint64: byte by byte, up to the one without the marker.
LEMMA ReadUintStep ==
    ASSUME IInv, ReadUint
    PROVE  IInv' /\ (sound' => Flat!ReadUint)
<1>1. sound /\ alive /\ ba \in Arrays /\ Follows(ba)
  BY InUseFacts DEF ReadUint
<1>2. PICK m \in Nat : m = ba.size - ba.position /\ m = getReadSize
  BY Positions
<1>3. Flat!Ahead = Ahead /\ Len(Ahead) = m /\ Ahead \in Seq(Byte)
  BY <1>1, <1>2, FlatAhead
<1>4. PICK k \in 0 .. m : k = UintLength(Ahead)
  BY <1>3, LengthIsAhead
<1>5. PICK value : value = <<DecodeUint(SubSeq(Ahead, 1, k))>>
  OBVIOUS
<1>6. Flat!ReadUint <=> IF k = 0 THEN Flat!Fail("uint", m) ELSE Flat!Get("uint", k, value)
  BY <1>3, <1>4, <1>5, SameCodec DEF Flat!ReadUint
<1>7. CASE k = 0
  <2>1. Fails("uint", m)
    BY <1>2, <1>4, <1>7 DEF ReadUint
  <2>2. IInv' /\ sound' /\ Flat!Fail("uint", m)
    BY <1>1, <1>2, <2>1, FailsStep
  <2> QED BY <1>6, <1>7, <2>2
<1>8. CASE k # 0
  <2>1. Returns("uint", Take(ba, k), value)
    BY <1>4, <1>5, <1>8 DEF ReadUint
  <2>2. PICK a : a = Take(ba, k)
    OBVIOUS
  <2>3. ba.position + k <= ba.size /\ k \in Nat
    BY <1>2, Positions
  <2>4. a \in Arrays /\ SameBytes(ba, a) /\ a.position = ba.position + k /\ Follows(a)
    BY <1>1, <2>2, <2>3, Taken
  <2>5. IInv' /\ sound' /\ Flat!Get("uint", k, value)
    BY <1>1, <2>1, <2>2, <2>4, ReturnsStep
  <2> QED BY <1>6, <1>8, <2>5
<1> QED BY <1>7, <1>8

\* readFuint16 and its kind: a whole value, in the order the array is set to.
LEMMA ReadFixedStep ==
    ASSUME IInv, ReadFixed
    PROVE  IInv' /\ (sound' => Flat!ReadFixed)
<1>1. sound /\ alive /\ ba \in Arrays /\ Follows(ba)
  BY InUseFacts DEF ReadFixed
<1>2. PICK m \in Nat : m = ba.size - ba.position /\ m = getReadSize
  BY Positions
<1>3. Flat!Ahead = Ahead /\ Len(Ahead) = m
  BY <1>1, <1>2, FlatAhead
<1>4. PICK value : value = <<Unordered(Ahead, little)>>
  OBVIOUS
<1>5. Flat!ReadFixed <=> IF m < 2 THEN Flat!Fail("fixed", 0) ELSE Flat!Get("fixed", 2, value)
  BY <1>3, <1>4, SameCodec DEF Flat!ReadFixed
<1>6. CASE m < 2
  <2>1. Fails("fixed", 0)
    BY <1>2, <1>6 DEF ReadFixed
  <2>2. IInv' /\ sound' /\ Flat!Fail("fixed", 0)
    BY <1>1, <1>2, <2>1, FailsStep
  <2> QED BY <1>5, <1>6, <2>2
<1>7. CASE ~ (m < 2)
  <2>1. Returns("fixed", Take(ba, 2), value)
    BY <1>2, <1>4, <1>7 DEF ReadFixed
  <2>2. PICK a : a = Take(ba, 2)
    OBVIOUS
  <2>3. ba.position + 2 <= ba.size /\ 2 \in Nat
    BY <1>2, <1>7, Positions
  <2>4. a \in Arrays /\ SameBytes(ba, a) /\ a.position = ba.position + 2 /\ Follows(a)
    BY <1>1, <2>2, <2>3, Taken
  <2>5. IInv' /\ sound' /\ Flat!Get("fixed", 2, value)
    BY <1>1, <2>1, <2>2, <2>4, ReturnsStep
  <2> QED BY <1>5, <1>7, <2>5
<1> QED BY <1>6, <1>7

\* readStringVint: the length, then that many bytes.
LEMMA ReadStringStep ==
    ASSUME IInv, ReadString
    PROVE  IInv' /\ (sound' => Flat!ReadString)
<1>1. sound /\ alive /\ ba \in Arrays /\ Follows(ba)
  BY InUseFacts DEF ReadString
<1>2. PICK m \in Nat : m = ba.size - ba.position /\ m = getReadSize
  BY Positions
<1>3. Flat!Ahead = Ahead /\ Len(Ahead) = m /\ Ahead \in Seq(Byte)
  BY <1>1, <1>2, FlatAhead
<1>4. PICK k \in 0 .. m : k = UintLength(Ahead)
  BY <1>3, LengthIsAhead
<1>5. PICK n \in Nat : n = DecodeUint(SubSeq(Ahead, 1, k))
  <2>1. SubSeq(Ahead, 1, k) \in Seq(Byte)
    BY <1>3
  <2> QED BY <2>1, Decoded
<1>6. PICK value : value = SubSeq(Ahead, k + 1, k + n)
  OBVIOUS
<1>7. Flat!ReadString <=> IF k = 0 THEN Flat!Fail("string", m)
                          ELSE IF k + n > m THEN Flat!Fail("string", k)
                          ELSE Flat!Get("string", k + n, value)
  BY <1>3, <1>4, <1>5, <1>6, SameCodec DEF Flat!ReadString
<1>8. PICK a : a = Take(ba, k)
  OBVIOUS
<1>9. IF k = 0 THEN Fails("string", m)
      ELSE IF k + n > m THEN Fails("string", k)
      ELSE IF a.cur = Null THEN Crashes("string", n = 0)
      ELSE Returns("string", Take(a, n), value)
  BY <1>2, <1>4, <1>5, <1>6, <1>8 DEF ReadString
<1>10. ba.position \in Nat /\ ba.size \in Nat /\ ba.position + k <= ba.size /\ k \in Nat
  BY <1>2, Positions
<1>11. a \in Arrays /\ SameBytes(ba, a) /\ a.position = ba.position + k /\ Follows(a)
  BY <1>1, <1>8, <1>10, Taken
<1>12. CASE k = 0
  <2>1. IInv' /\ sound' /\ Flat!Fail("string", m)
    BY <1>1, <1>2, <1>9, <1>12, FailsStep
  <2> QED BY <1>7, <1>12, <2>1
<1>13. CASE k # 0 /\ k + n > m
  <2>1. IInv' /\ sound' /\ Flat!Fail("string", k)
    BY <1>1, <1>2, <1>9, <1>10, <1>13, FailsStep
  <2> QED BY <1>7, <1>13, <2>1
<1>14. CASE k # 0 /\ ~ (k + n > m) /\ a.cur = Null
  <2>1. Crashes("string", n = 0)
    BY <1>9, <1>14
  <2>2. a.size = a.position /\ a.size = ba.size
    BY <1>11, <1>14, NullAtTheEnd DEF SameBytes
  <2>3. (n = 0) \in BOOLEAN /\ n = 0
    BY <1>2, <1>10, <1>11, <1>14, <2>2
  <2>4. IInv' /\ ~ sound'
    BY <2>1, <2>3, CrashesStep
  <2> QED BY <2>4
<1>15. CASE k # 0 /\ ~ (k + n > m) /\ a.cur # Null
  <2>1. PICK w : w = Take(a, n) /\ Returns("string", w, value)
    BY <1>9, <1>15
  <2>2. a.position + n <= a.size
    BY <1>2, <1>10, <1>11, <1>15 DEF SameBytes
  <2>3. w \in Arrays /\ SameBytes(a, w) /\ w.position = a.position + n /\ Follows(w)
    BY <1>11, <2>1, <2>2, Taken
  <2>4. SameBytes(ba, w) /\ w.position = ba.position + (k + n)
    BY <1>10, <1>11, <2>3 DEF SameBytes
  <2>5. IInv' /\ sound' /\ Flat!Get("string", k + n, value)
    BY <1>1, <2>1, <2>3, <2>4, ReturnsStep
  <2> QED BY <1>7, <1>15, <2>5
<1> QED BY <1>12, <1>13, <1>14, <1>15

\* A transfer that ends inside the array does not run off the last node.
LEMMA StaysInside ==
    ASSUME ba \in Arrays, NEW position \in Nat, NEW n \in Nat, n > 0, position + n <= ba.size
    PROVE  /\ ~ RunsOff(position \div ba.base + 1, position % ba.base, n)
           /\ NodeAt(ba, position \div ba.base + 1) = position \div ba.base + 1
<1>1. PICK b \in Nat \ {0}, l \in Nat \ {0} : b = ba.base /\ l = Len(ba.nodes) /\ Capacity(ba) = b * l
  BY ArrayFacts
<1>2. position + n <= b * l
  <2>1. ba.size \in Nat /\ ba.size <= Capacity(ba)
    BY ArrayFacts
  <2> QED BY <1>1, <2>1
<1>3. PICK q \in Nat, r \in 0 .. b - 1 : q = position \div b /\ r = position % b /\ position = b * q + r
  <2>1. position \div b \in Nat /\ position % b \in 0 .. b - 1 /\ position = b * (position \div b) + (position % b)
    BY Division
  <2> QED BY <2>1
<1>4. PICK y \in Nat : y = r + n - 1
  OBVIOUS
<1>5. PICK d \in Nat, t \in 0 .. b - 1 : d = y \div b /\ t = y % b /\ y = b * d + t
  <2>1. y \div b \in Nat /\ y % b \in 0 .. b - 1 /\ y = b * (y \div b) + (y % b)
    BY Division
  <2> QED BY <2>1
<1>6. q + d < l
  <2>1. b * (q + d) = b * q + b * d
    OBVIOUS
  <2>2. position + n - 1 = b * q + y
    BY <1>3, <1>4
  <2>3. b * (q + d) < b * l
    BY <1>2, <1>5, <2>1, <2>2
  <2>4. q + d >= l => b * (q + d) >= b * l
    OBVIOUS
  <2> QED BY <2>3, <2>4
<1>7. NodeAt(ba, q + 1) = q + 1
  BY <1>1, <1>6 DEF NodeAt
<1>8. ~ RunsOff(q + 1, r, n)
  <2>1. (q + 1) + d <= l /\ q + 1 # 0
    BY <1>6
  <2> QED BY <1>1, <1>4, <1>5, <2>1 DEF RunsOff, Null
<1> QED BY <1>1, <1>3, <1>7, <1>8

\* A call with a position of its own that takes what FlatBytes has there.
LEMMA ReadAtStep ==
    ASSUME IInv, NEW position \in Nat, NEW n \in Nat, ReadAt(n, position)
    PROVE  /\ IInv'
           /\ sound' => \/ Flat!Fail("at", 0)
                        \/ /\ position \in 0 .. ba.size /\ n \in 0 .. ba.size - position
                           /\ Flat!Peek("at", position, n)
<1>1. sound /\ alive /\ ba \in Arrays /\ Follows(ba)
  BY InUseFacts DEF ReadAt
<1>2. PICK p \in Nat, s \in Nat : p = ba.position /\ s = ba.size /\ p <= s /\ s <= Capacity(ba) /\ Capacity(ba) \in Nat
  BY Positions
<1>4. PICK flaw \in BOOLEAN :
        flaw <=> \/ position \div ba.base # ba.position \div ba.base \/ ba.position = Capacity(ba)
                 \/ position > ba.size
  OBVIOUS
<1>a. CASE position > s
  <2>1. flaw /\ ~ (position <= ba.size)
    BY <1>2, <1>4, <1>a
  <2>2. CASE ba.cur = Null \/ (n > 0 /\ RunsOff(ba.cur, position % ba.base, n))
    <3>1. Crashes("at", flaw)
      BY <1>4, <2>1, <2>2 DEF ReadAt
    <3> QED BY <2>1, <3>1, CrashesStep
  <2>3. CASE ~ (ba.cur = Null \/ (n > 0 /\ RunsOff(ba.cur, position % ba.base, n)))
    <3>1. sound' = (sound /\ ~ flaw) /\ UNCHANGED <<ba, little, alive>>
      BY <1>4, <2>1, <2>3 DEF ReadAt
    <3>2. sound' = FALSE
      BY <2>1, <3>1
    <3> QED BY <3>1, <3>2 DEF IInv
  <2> QED BY <2>2, <2>3
<1>b. SUFFICES ASSUME position <= s
               PROVE  /\ IInv'
                      /\ sound' => \/ Flat!Fail("at", 0)
                                   \/ n \in 0 .. ba.size - position /\ Flat!Peek("at", position, n)
  <2>1. position <= s => position \in 0 .. ba.size
    BY <1>2
  <2> QED BY <1>2, <1>a, <2>1
<1>3. position \in Nat /\ position <= s /\ position <= ba.size
  BY <1>2, <1>b
<1>5. CASE n > s - position
  <2>1. Fails("at", 0)
    BY <1>2, <1>3, <1>5 DEF ReadAt
  <2>2. 0 \in Nat /\ 0 <= ba.size - ba.position
    BY <1>2
  <2> QED BY <1>1, <2>1, <2>2, FailsStep
<1>6. CASE ~ (n > s - position)
  <2>1. position + n <= ba.size /\ n \in 0 .. ba.size - position
    BY <1>2, <1>3, <1>6
  <2>2. ~ flaw => ba.cur = position \div ba.base + 1 /\ ba.cur # Null
    <3> SUFFICES ASSUME ~ flaw PROVE ba.cur = position \div ba.base + 1 /\ ba.cur # Null
      OBVIOUS
    <3>1. position \div ba.base = ba.position \div ba.base /\ ba.position # Capacity(ba)
      BY <1>4
    <3>2. ba.position < Capacity(ba)
      BY <1>2, <3>1
    <3> QED BY <1>1, <3>1, <3>2, WhereCurIs
  <2>3. CASE ba.cur = Null \/ (n > 0 /\ RunsOff(ba.cur, position % ba.base, n))
    <3>1. Crashes("at", flaw)
      BY <1>2, <1>3, <1>4, <1>6, <2>3 DEF ReadAt
    <3>2. flaw
      <4> SUFFICES ASSUME ~ flaw PROVE FALSE
        OBVIOUS
      <4>1. n > 0 /\ RunsOff(position \div ba.base + 1, position % ba.base, n)
        BY <2>2, <2>3
      <4> QED BY <1>1, <1>3, <2>1, <4>1, StaysInside
    <3>3. IInv' /\ ~ sound'
      BY <3>1, <3>2, CrashesStep
    <3> QED BY <3>3
  <2>4. CASE ~ (ba.cur = Null \/ (n > 0 /\ RunsOff(ba.cur, position % ba.base, n)))
    <3>1. /\ out' = Answer("at", Cells(ba.cur, position % ba.base, n))
          /\ sound' = (sound /\ ~ flaw) /\ UNCHANGED <<ba, little, alive>>
      BY <1>2, <1>3, <1>4, <1>6, <2>4 DEF ReadAt
    <3>2. CASE flaw
      <4>1. sound' = FALSE
        BY <3>1, <3>2
      <4> QED BY <3>1, <4>1 DEF IInv
    <3>3. CASE ~ flaw
      <4>1. sound' = sound
        BY <1>1, <3>1, <3>3 DEF IInv
      <4>2. Cells(ba.cur, position % ba.base, n) = SubSeq(Bytes(ba), position + 1, position + n)
        BY <1>1, <1>3, <2>1, <2>2, <3>3, CellsAtPosition
      <4>3. IInv' /\ sound' /\ Flat!Peek("at", position, n)
        BY <1>1, <3>1, <4>1, <4>2, PeeksStep
      <4> QED BY <2>1, <4>3
    <3> QED BY <3>2, <3>3
  <2> QED BY <2>3, <2>4
<1> QED BY <1>5, <1>6

\* getReadBuffers with a position of its own.
LEMMA GetReadBuffersAtStep ==
    ASSUME IInv, NEW position \in 0 .. ba.size, NEW len \in Nat, GetReadBuffersAt(len, position)
    PROVE  /\ IInv'
           /\ sound' => \E n \in 0 .. ba.size - position : Flat!Peek("at", position, n)
<1>1. sound /\ alive /\ ba \in Arrays /\ Follows(ba)
  BY InUseFacts DEF GetReadBuffersAt
<1>2. PICK p \in Nat, s \in Nat : p = ba.position /\ s = ba.size /\ p <= s /\ getReadSize = s - p
  BY Positions
<1>3. position \in Nat /\ position <= s
  BY <1>2
<1>4. PICK n \in Nat : n = Min({len, getReadSize})
  <2>1. getReadSize \in Nat
    BY <1>2
  <2>2. Min({len, getReadSize}) = IF len <= getReadSize THEN len ELSE getReadSize
    BY <2>1, MinOfTwo
  <2> QED BY <2>1, <2>2
<1>5. PICK flaw \in BOOLEAN : flaw <=> position + n > ba.size
  OBVIOUS
<1>6. PICK node : node = NodeAt(ba, position \div ba.base + 1)
  OBVIOUS
<1>7. IF n > 0 /\ RunsOff(node, position % ba.base, n) THEN Crashes("at", flaw)
      ELSE /\ out' = Answer("at", IF n = 0 THEN <<>> ELSE Cells(node, position % ba.base, n))
           /\ sound' = (sound /\ ~ flaw) /\ UNCHANGED <<ba, little, alive>>
  BY <1>4, <1>5, <1>6 DEF GetReadBuffersAt
<1>8. CASE n > 0 /\ RunsOff(node, position % ba.base, n)
  <2>1. flaw
    <3> SUFFICES ASSUME ~ flaw PROVE FALSE
      OBVIOUS
    <3>1. position + n <= ba.size
      BY <1>2, <1>3, <1>5
    <3> QED BY <1>1, <1>3, <1>6, <1>8, <3>1, StaysInside
  <2>2. IInv' /\ ~ sound'
    BY <1>7, <1>8, <2>1, CrashesStep
  <2> QED BY <2>2
<1>9. CASE ~ (n > 0 /\ RunsOff(node, position % ba.base, n))
  <2>1. /\ out' = Answer("at", IF n = 0 THEN <<>> ELSE Cells(node, position % ba.base, n))
        /\ sound' = (sound /\ ~ flaw) /\ UNCHANGED <<ba, little, alive>>
    BY <1>7, <1>9
  <2>2. CASE flaw
    <3>1. sound' = FALSE
      BY <2>1, <2>2
    <3> QED BY <2>1, <3>1 DEF IInv
  <2>3. CASE ~ flaw
    <3>1. sound' = sound
      BY <1>1, <2>1, <2>3 DEF IInv
    <3>2. position + n <= ba.size /\ n \in 0 .. ba.size - position
      BY <1>2, <1>3, <1>5, <2>3
    <3>3. (IF n = 0 THEN <<>> ELSE Cells(node, position % ba.base, n)) = SubSeq(Bytes(ba), position + 1, position + n)
      <4>1. CASE n = 0
        <5>1. SubSeq(Bytes(ba), position + 1, position + 0) = <<>>
          BY SubSeqEmpty
        <5> QED BY <4>1, <5>1
      <4>2. CASE n # 0
        <5>1. node = position \div ba.base + 1
          BY <1>1, <1>3, <1>6, <3>2, <4>2, StaysInside
        <5> QED BY <1>1, <1>3, <3>2, <4>2, <5>1, CellsAtPosition
      <4> QED BY <4>1, <4>2
    <3>4. out' = Answer("at", SubSeq(Bytes(ba), position + 1, position + n))
      BY <2>1, <3>3
    <3>5. IInv' /\ sound' /\ Flat!Peek("at", position, n)
      BY <1>1, <2>1, <3>1, <3>4, PeeksStep
    <3> QED BY <3>2, <3>5
  <2> QED BY <2>2, <2>3
<1> QED BY <1>8, <1>9

\* What the calls that look from the position on return.
LEMMA LooksAhead ==
    ASSUME IInv, NEW op, NEW n \in 0 .. ba.size - ba.position, InUse, Returns(op, ba, SubSeq(Ahead, 1, n))
    PROVE  IInv' /\ sound' /\ Flat!Peek(op, ba.position, n) /\ n \in 0 .. Len(Flat!Ahead)
<1>1. sound /\ alive
  BY InUseFacts
<1>2. /\ Flat!Ahead = Ahead /\ Len(Ahead) = ba.size - ba.position
      /\ Bytes(ba) \in Seq(Byte) /\ Len(Bytes(ba)) = ba.size
      /\ Ahead = SubSeq(Bytes(ba), ba.position + 1, ba.size)
  BY <1>1, FlatAhead
<1>3. ba.position \in Nat /\ n \in Nat /\ ba.position + n <= ba.size
  BY Positions
<1>4. SubSeq(Ahead, 1, n) = SubSeq(Bytes(ba), ba.position + 1, ba.position + n)
  BY <1>2, <1>3, FrontOfRest
<1>5. UNCHANGED <<ba, little, sound, alive>> /\ out' = Answer(op, SubSeq(Bytes(ba), ba.position + 1, ba.position + n))
  BY <1>4 DEF Returns
<1>6. IInv' /\ sound' /\ Flat!Peek(op, ba.position, n)
  BY <1>1, <1>5, PeeksStep
<1> QED BY <1>2, <1>6

\* Everything ahead is its own longest prefix.
LEMMA AllAhead ==
    ASSUME IInv, InUse
    PROVE  /\ ba.size - ba.position \in 0 .. ba.size - ba.position
           /\ SubSeq(Ahead, 1, ba.size - ba.position) = Ahead
<1>1. Ahead \in Seq(Byte) /\ Len(Ahead) = ba.size - ba.position
  BY InUseFacts, FlatAhead
<1>2. ba.size - ba.position \in Nat
  BY Positions
<1> QED BY <1>1, <1>2

\* toString: a read that leaves the position where it was.
LEMMA ReadWholeStep ==
    ASSUME IInv, ReadWhole
    PROVE  IInv' /\ sound' /\ \E n \in 0 .. Len(Flat!Ahead) : Flat!Peek("string_of", ba.position, n)
<1>1. InUse /\ Returns("string_of", ba, Ahead)
  BY DEF ReadWhole
<1>2. PICK n \in 0 .. ba.size - ba.position : SubSeq(Ahead, 1, n) = Ahead
  BY <1>1, AllAhead
<1>3. IInv' /\ sound' /\ Flat!Peek("string_of", ba.position, n) /\ n \in 0 .. Len(Flat!Ahead)
  BY <1>1, <1>2, LooksAhead
<1> QED BY <1>3

\* writeToFile, where it stays inside the nodes.
LEMMA WriteToFileStep ==
    ASSUME IInv, WriteToFile
    PROVE  IInv' /\ (sound' => \E n \in 0 .. Len(Flat!Ahead) : Flat!Peek("dump", ba.position, n))
<1>1. InUse
  BY DEF WriteToFile
<1>2. CASE npos > 0 /\ getReadSize \in 1 .. ba.base - 1
  <2>1. alive' \in BOOLEAN /\ sound' = FALSE /\ UNCHANGED <<ba, little>>
    BY <1>2 DEF WriteToFile
  <2> QED BY <2>1 DEF IInv
<1>3. CASE ~ (npos > 0 /\ getReadSize \in 1 .. ba.base - 1)
  <2>1. Returns("dump", ba, Ahead)
    BY <1>3 DEF WriteToFile
  <2>2. PICK n \in 0 .. ba.size - ba.position : SubSeq(Ahead, 1, n) = Ahead
    BY <1>1, AllAhead
  <2>3. IInv' /\ sound' /\ Flat!Peek("dump", ba.position, n) /\ n \in 0 .. Len(Flat!Ahead)
    BY <1>1, <2>1, <2>2, LooksAhead
  <2> QED BY <2>3
<1> QED BY <1>2, <1>3

\* What a call asks for is cut to what is readable.
LEMMA LeastLength ==
    ASSUME IInv, NEW length \in Nat
    PROVE  Min({length, getReadSize}) \in 0 .. ba.size - ba.position
<1>1. getReadSize \in Nat /\ getReadSize = ba.size - ba.position
  BY Positions
<1>2. Min({length, getReadSize}) = IF length <= getReadSize THEN length ELSE getReadSize
  BY <1>1, MinOfTwo
<1> QED BY <1>1, <1>2

\* getReadBuffers from the current position.
LEMMA GetReadBuffersStep ==
    ASSUME IInv, NEW len \in Nat, GetReadBuffers(len)
    PROVE  IInv' /\ (sound' => \E n \in 0 .. Len(Flat!Ahead) : Flat!Peek("buffers", ba.position, n))
<1>1. PICK n \in 0 .. ba.size - ba.position : n = Min({len, getReadSize})
  BY LeastLength
<1>2. InUse /\ IF BuffersBreak(n) THEN Crashes("buffers", TRUE) ELSE Returns("buffers", ba, SubSeq(Ahead, 1, n))
  BY <1>1 DEF GetReadBuffers
<1>3. CASE BuffersBreak(n)
  <2>1. IInv' /\ ~ sound'
    BY <1>2, <1>3, CrashesStep
  <2> QED BY <2>1
<1>4. CASE ~ BuffersBreak(n)
  <2>1. IInv' /\ sound' /\ Flat!Peek("buffers", ba.position, n) /\ n \in 0 .. Len(Flat!Ahead)
    BY <1>2, <1>4, LooksAhead
  <2> QED BY <2>1
<1> QED BY <1>3, <1>4

\* SocketStream::write.
LEMMA StreamWriteStep ==
    ASSUME IInv, NEW length \in Nat, NEW sent \in Nat, StreamWrite(length, sent)
    PROVE  IInv' /\ (sound' => sent \in 0 .. Len(Flat!Ahead) /\ Flat!Get("send", sent, SubSeq(Flat!Ahead, 1, sent)))
<1>1. PICK n \in 0 .. ba.size - ba.position : n = Min({length, getReadSize})
  BY LeastLength
<1>2. PICK a : a = IF sent = 0 THEN ba ELSE MoveTo(ba, ba.position + sent)
  OBVIOUS
<1>3. /\ InUse /\ sent <= n
      /\ IF BuffersBreak(n) THEN Crashes("send", TRUE) ELSE Returns("send", a, SubSeq(Ahead, 1, sent))
  BY <1>1, <1>2 DEF StreamWrite
<1>4. CASE BuffersBreak(n)
  <2>1. IInv' /\ ~ sound'
    BY <1>3, <1>4, CrashesStep
  <2> QED BY <2>1
<1>5. CASE ~ BuffersBreak(n)
  <2>1. sound /\ alive /\ ba \in Arrays /\ Follows(ba)
    BY <1>3, InUseFacts
  <2>2. PICK p \in Nat, s \in Nat : p = ba.position /\ s = ba.size /\ p <= s /\ s <= Capacity(ba) /\ Capacity(ba) \in Nat
    BY Positions
  <2>3. p + sent <= s
    BY <1>1, <1>3, <2>2
  <2>4. a \in Arrays /\ Follows(a) /\ SameBytes(ba, a) /\ a.position = ba.position + sent
    <3>1. CASE sent = 0
      BY <1>2, <2>1, <2>2, <3>1 DEF SameBytes
    <3>2. CASE sent # 0
      <4>1. PICK v \in Nat : v = p + sent /\ v <= Capacity(ba) /\ a = MoveTo(ba, v)
        BY <1>2, <2>2, <2>3, <3>2
      <4>2. /\ a \in Arrays /\ a.base = ba.base /\ a.nodes = ba.nodes /\ a.position = v
            /\ a.size = (IF ba.size >= v THEN ba.size ELSE v) /\ Follows(a)
        BY <2>1, <4>1, Moved
      <4> QED BY <2>2, <2>3, <4>1, <4>2 DEF SameBytes
    <3> QED BY <3>1, <3>2
  <2>5. Returns("send", a, SubSeq(Ahead, 1, sent))
    BY <1>3, <1>5
  <2>6. IInv' /\ sound' /\ Flat!Get("send", sent, SubSeq(Ahead, 1, sent))
    BY <2>1, <2>4, <2>5, ReturnsStep
  <2>7. Flat!Ahead = Ahead /\ Len(Ahead) = ba.size - ba.position
    BY <2>1, FlatAhead
  <2>8. sent \in 0 .. Len(Flat!Ahead)
    BY <2>2, <2>3, <2>7
  <2> QED BY <2>6, <2>7, <2>8
<1> QED BY <1>4, <1>5

\* setPosition: inside the capacity it moves and may enlarge the size, beyond it fails.
LEMMA SetPositionStep ==
    ASSUME IInv, NEW v \in Nat, SetPosition(v)
    PROVE  IInv' /\ sound' /\ (Flat!Move \/ Flat!MoveFails)
<1>1. sound /\ alive /\ ba \in Arrays /\ Follows(ba)
  BY InUseFacts DEF SetPosition
<1>2. PICK s \in Nat : s = ba.size /\ s <= Capacity(ba) /\ Capacity(ba) \in Nat
  BY Positions
<1>3. CASE v > Capacity(ba)
  <2>1. Fails("move", 0)
    BY <1>3 DEF SetPosition
  <2>2. ba' = ba /\ out' = Failed("move") /\ UNCHANGED <<little, sound, alive>>
    BY <2>1 DEF Fails
  <2>3. IInv' /\ sound' /\ UNCHANGED (IF alive /\ sound THEN Cells(1, 0, ba.size) ELSE <<>>)
    BY <1>1, <2>2, MovesOn DEF SameBytes
  <2>4. Flat!MoveFails
    BY <2>2, <2>3 DEF Flat!MoveFails, Flat!Failed, Flat!Answer, Failed, Answer
  <2> QED BY <2>3, <2>4
<1>4. CASE ~ (v > Capacity(ba))
  <2>1. ba' = MoveTo(ba, v) /\ out' = Answer("move", <<>>) /\ UNCHANGED <<little, sound, alive>>
    BY <1>4 DEF SetPosition, Returns
  <2>2. /\ ba' \in Arrays /\ ba'.base = ba.base /\ ba'.nodes = ba.nodes /\ ba'.position = v
        /\ ba'.size = (IF ba.size >= v THEN ba.size ELSE v) /\ Follows(ba')
    BY <1>1, <1>2, <1>4, <2>1, Moved
  <2>3. Capacity(ba') <= MaxCapacity
    BY <2>2 DEF Capacity, IInv
  <2>4. IInv' /\ sound'
    BY <1>1, <2>1, <2>2, <2>3 DEF IInv
  <2>5. PICK bytes \in Seq(Byte) : /\ bytes = Bytes(ba) /\ Len(bytes) = s
                                   /\ \A k \in 1 .. s : bytes[k] = At(ba, k - 1)
    <3>1. /\ Bytes(ba) \in Seq(Byte) /\ Len(Bytes(ba)) = ba.size
          /\ \A k \in 1 .. ba.size : Bytes(ba)[k] = At(ba, k - 1)
      BY <1>1, BytesAre
    <3> QED BY <1>2, <3>1
  <2>6. /\ (IF alive /\ sound THEN Cells(1, 0, ba.size) ELSE <<>>) = bytes
        /\ (IF alive /\ sound THEN Cells(1, 0, ba.size) ELSE <<>>)' = Bytes(ba')
    BY <1>1, <2>4, <2>5, FlatBefore, FlatAfter
  <2>7. CASE v <= s
    <3>1. SameBytes(ba, ba')
      BY <1>2, <2>2, <2>7 DEF SameBytes
    <3>2. Bytes(ba') = bytes
      BY <2>5, <3>1, SameIsSame
    <3>3. ba'.position \in 0 .. Len(bytes)
      BY <2>2, <2>5, <2>7
    <3>4. Flat!Move
      BY <2>1, <2>6, <3>2, <3>3 DEF Flat!Move, Flat!Answer, Answer
    <3> QED BY <2>4, <3>4
  <2>8. CASE v > s
    <3>1. PICK after \in Seq(Byte) : /\ after = Bytes(ba') /\ Len(after) = v
                                     /\ \A k \in 1 .. v : after[k] = At(ba', k - 1)
      <4>1. ba'.size = v
        BY <1>2, <2>2, <2>8
      <4>2. /\ Bytes(ba') \in Seq(Byte) /\ Len(Bytes(ba')) = ba'.size
            /\ \A k \in 1 .. ba'.size : Bytes(ba')[k] = At(ba', k - 1)
        BY <2>2, BytesAre
      <4> QED BY <4>1, <4>2
    <3>2. \A k : At(ba', k) = At(ba, k)
      BY <2>2 DEF At
    <3>3. SubSeq(after, 1, s) = [k \in 1 .. s |-> after[k]]
      BY <2>8, <3>1
    <3>4. bytes = [k \in 1 .. s |-> bytes[k]]
      <4>1. bytes = [k \in 1 .. Len(bytes) |-> bytes[k]]
        OBVIOUS
      <4> QED BY <2>5, <4>1
    <3>5. \A k \in 1 .. s : after[k] = bytes[k]
      BY <2>5, <2>8, <3>1, <3>2
    <3>6. SubSeq(after, 1, Len(bytes)) = bytes
      BY <2>5, <3>3, <3>4, <3>5
    <3>7. ba'.position > Len(bytes) /\ Len(after) = ba'.position
      BY <2>2, <2>5, <2>8, <3>1
    <3>8. Flat!Move
      BY <2>1, <2>6, <3>1, <3>6, <3>7 DEF Flat!Move, Flat!Answer, Answer
    <3> QED BY <2>4, <3>8
  <2> QED BY <1>2, <2>7, <2>8
<1> QED BY <1>3, <1>4

\* clear: one node is left, with nothing in it.
LEMMA ClearStep ==
    ASSUME IInv, Clear
    PROVE  IInv' /\ sound' /\ Flat!Wipe
<1>1. sound /\ alive /\ ba \in Arrays /\ Follows(ba)
  BY InUseFacts DEF Clear
<1>2. PICK b \in Nat \ {0}, l \in Nat \ {0}, p \in Nat, s \in Nat, c \in Nat :
        /\ b \in BaseSizes /\ ba.base = b /\ Len(ba.nodes) = l /\ ba.position = p /\ ba.size = s /\ ba.cur = c
        /\ c <= l /\ p <= s /\ s <= b * l /\ Capacity(ba) = b * l
        /\ ba.nodes \in Seq([1 .. b -> Byte])
        /\ ba = [base |-> b, nodes |-> ba.nodes, cur |-> c, position |-> p, size |-> s]
  BY <1>1, Parts
<1>3. PICK nodes \in Seq([1 .. b -> Byte]) : nodes = SubSeq(ba.nodes, 1, 1) /\ Len(nodes) = 1
  <2>1. ba.nodes \in Seq([1 .. b -> Byte]) /\ Len(ba.nodes) >= 1
    BY <1>2
  <2>2. SubSeq(ba.nodes, 1, 1) \in Seq([1 .. b -> Byte]) /\ Len(SubSeq(ba.nodes, 1, 1)) = 1
    BY <2>1
  <2> QED BY <2>2
<1>4. /\ ba' = [ba EXCEPT !.nodes = SubSeq(@, 1, 1), !.position = 0, !.size = 0, !.cur = 1]
      /\ out' = Answer("clear", <<>>) /\ UNCHANGED <<little, sound, alive>>
  BY DEF Clear, Returns
<1>5. ba' = [base |-> b, nodes |-> nodes, cur |-> 1, position |-> 0, size |-> 0]
  BY <1>2, <1>3, <1>4
<1>6. ba'.base = b /\ ba'.nodes = nodes /\ ba'.cur = 1 /\ ba'.position = 0 /\ ba'.size = 0
  BY <1>5
<1>7. ba' \in Arrays
  <2>1. b \in BaseSizes /\ nodes \in Seq([1 .. b -> Byte]) /\ Len(nodes) >= 1
    BY <1>2, <1>3
  <2>2. 1 \in 0 .. Len(nodes) /\ 0 \in 0 .. 0 /\ 0 <= b * Len(nodes) /\ 0 \in Nat
    BY <1>3
  <2> QED BY <1>5, <2>1, <2>2, MakeArray
<1>8. Follows(ba')
  <2>1. 0 \div b = 0
    OBVIOUS
  <2> QED BY <1>3, <1>6, <2>1 DEF Follows, NodeAt
<1>9. Capacity(ba') <= MaxCapacity
  <2>1. Capacity(ba') = b /\ b <= MaxCapacity
    BY <1>2, <1>3, <1>6, ArrayAssumption DEF Capacity
  <2> QED BY <2>1
<1>10. IInv' /\ sound'
  BY <1>1, <1>4, <1>7, <1>8, <1>9 DEF IInv
<1>11. Bytes(ba') = <<>>
  <2>1. Bytes(ba') \in Seq(Byte) /\ Len(Bytes(ba')) = 0
    BY <1>6, <1>7, BytesAre
  <2> QED BY <2>1
<1>12. (IF alive /\ sound THEN Cells(1, 0, ba.size) ELSE <<>>)' = <<>>
  BY <1>10, <1>11, FlatAfter
<1>13. Flat!Wipe
  BY <1>4, <1>6, <1>12 DEF Flat!Wipe, Flat!Answer, Answer
<1> QED BY <1>10, <1>13

\* setIsLittleEndian.
LEMMA SetOrderStep ==
    ASSUME IInv, NEW val \in BOOLEAN, SetIsLittleEndian(val)
    PROVE  IInv' /\ sound' /\ Flat!SetOrder
<1>1. sound /\ alive
  BY InUseFacts DEF SetIsLittleEndian
<1>2. little' = val /\ out' = Answer("order", <<>>) /\ UNCHANGED <<ba, sound, alive>>
  BY DEF SetIsLittleEndian
<1>3. IInv' /\ sound'
  BY <1>1, <1>2 DEF IInv
<1>4. UNCHANGED (IF alive /\ sound THEN Cells(1, 0, ba.size) ELSE <<>>)
  BY <1>2 DEF Cells
<1>5. Flat!SetOrder
  BY <1>2, <1>4 DEF Flat!SetOrder, Flat!Answer, Answer
<1> QED BY <1>3, <1>5

-----------------------------------------------------------------------------
(* The theorems. *)

\* A new array satisfies the invariant and is an empty sequence.
LEMMA FirstArray ==
    ASSUME Init
    PROVE  IInv /\ Flat!Init
<1>1. PICK b \in BaseSizes, j \in Junk :
        ba = [base |-> b, nodes |-> <<[k \in 1 .. b |-> j]>>, cur |-> 1, position |-> 0, size |-> 0]
  BY DEF Init
<1>2. b \in Nat \ {0} /\ b <= MaxCapacity /\ j \in Byte
  BY ArrayAssumption
<1>3. PICK node \in [1 .. b -> Byte] : node = [k \in 1 .. b |-> j]
  BY <1>2
<1>4. PICK nodes \in Seq([1 .. b -> Byte]) : nodes = <<node>> /\ Len(nodes) = 1
  <2>1. <<node>> \in Seq([1 .. b -> Byte]) /\ Len(<<node>>) = 1
    OBVIOUS
  <2> QED BY <2>1
<1>5. ba = [base |-> b, nodes |-> nodes, cur |-> 1, position |-> 0, size |-> 0]
  BY <1>1, <1>3, <1>4
<1>6. ba.base = b /\ ba.nodes = nodes /\ ba.cur = 1 /\ ba.position = 0 /\ ba.size = 0
  BY <1>5
<1>7. ba \in Arrays
  <2>1. 1 \in 0 .. Len(nodes) /\ 0 \in 0 .. 0 /\ 0 <= b * Len(nodes) /\ 0 \in Nat /\ Len(nodes) >= 1
    BY <1>2, <1>4
  <2> QED BY <1>5, <2>1, MakeArray
<1>8. Follows(ba)
  <2>1. 0 \div b = 0
    BY <1>2
  <2> QED BY <1>4, <1>6, <2>1 DEF Follows, NodeAt
<1>9. Capacity(ba) <= MaxCapacity
  BY <1>2, <1>4, <1>6 DEF Capacity
<1>10. little = FALSE /\ out = Answer("new", <<>>) /\ sound = TRUE /\ alive = TRUE
  BY DEF Init
<1>11. IInv
  BY <1>7, <1>8, <1>9, <1>10 DEF IInv
<1>12. Bytes(ba) = <<>>
  <2>1. Bytes(ba) \in Seq(Byte) /\ Len(Bytes(ba)) = 0
    BY <1>6, <1>7, BytesAre
  <2> QED BY <2>1
<1>13. (IF alive /\ sound THEN Cells(1, 0, ba.size) ELSE <<>>) = <<>>
  BY <1>10, <1>11, <1>12, FlatBefore
<1>14. Flat!Init
  BY <1>6, <1>10, <1>13 DEF Flat!Init, Flat!Answer, Answer
<1> QED BY <1>11, <1>14

\* A write is a step of FlatBytes.
LEMMA PutIsNext ==
    ASSUME NEW text \in Writable, NEW op \in {"write", "file", "stream"}, Flat!Put(op, text), sound'
    PROVE  Flat!Next
BY DEF Flat!Next

\* What a call that only looks says it was.
LEMMA LooksAs ==
    ASSUME NEW op \in Flat!Looking, ~ sound',
           (\E flaw : Crashes(op, flaw)) \/ out'.op = op
    PROVE  Flat!Next
<1>1. out'.op = op
  BY DEF Crashes, Answer
<1> QED BY <1>1 DEF Flat!Next, Flat!Misuse

\* The calls that clear sound and write nothing are among those FlatBytes excuses.
LEMMA OnlyLooking ==
    ASSUME IInv, ~ sound',
           \/ \E n \in Nat : Read(n)
           \/ ReadUint \/ ReadFixed \/ ReadString
           \/ \E n \in Nat, position \in Nat : ReadAt(n, position) \/ GetReadBuffersAt(n, position)
           \/ \E n \in Nat : GetReadBuffers(n)
           \/ \E n \in Nat, sent \in Nat : StreamWrite(n, sent)
           \/ WriteToFile
    PROVE  Flat!Next
<1>a. /\ "read" \in Flat!Looking /\ "string" \in Flat!Looking /\ "at" \in Flat!Looking
      /\ "buffers" \in Flat!Looking /\ "send" \in Flat!Looking /\ "dump" \in Flat!Looking
  BY DEF Flat!Looking
<1>b. InUse => sound
  BY DEF InUse
<1>1. ASSUME NEW n \in Nat, Read(n) PROVE Flat!Next
  <2>1. (\E flaw : Crashes("read", flaw)) \/ sound' = sound
    BY <1>1 DEF Read, Fails, Returns
  <2> QED BY <1>1, <1>a, <1>b, <2>1, LooksAs DEF Read
<1>2. CASE ReadUint
  BY <1>2, <1>b DEF ReadUint, Fails, Returns
<1>3. CASE ReadFixed
  BY <1>3, <1>b DEF ReadFixed, Fails, Returns
<1>4. CASE ReadString
  <2>1. (\E flaw : Crashes("string", flaw)) \/ sound' = sound
    BY <1>4 DEF ReadString, Fails, Returns
  <2> QED BY <1>4, <1>a, <1>b, <2>1, LooksAs DEF ReadString
<1>5. ASSUME NEW n \in Nat, NEW position \in Nat, ReadAt(n, position) PROVE Flat!Next
  <2>1. (\E flaw : Crashes("at", flaw)) \/ sound' = sound \/ out'.op = "at"
    <3>1. \/ Fails("at", 0) \/ \E flaw : Crashes("at", flaw)
          \/ out' = Answer("at", Cells(ba.cur, position % ba.base, n))
      BY <1>5, Zenon DEF ReadAt
    <3>2. Fails("at", 0) => sound' = sound
      BY DEF Fails
    <3>3. Answer("at", Cells(ba.cur, position % ba.base, n)).op = "at"
      BY DEF Answer
    <3> QED BY <3>1, <3>2, <3>3
  <2> QED BY <1>5, <1>a, <1>b, <2>1, LooksAs DEF ReadAt
<1>6. ASSUME NEW n \in Nat, NEW position \in Nat, GetReadBuffersAt(n, position) PROVE Flat!Next
  <2>1. (\E flaw : Crashes("at", flaw)) \/ out'.op = "at"
    BY <1>6 DEF GetReadBuffersAt, Answer
  <2> QED BY <1>a, <2>1, LooksAs
<1>7. ASSUME NEW n \in Nat, GetReadBuffers(n) PROVE Flat!Next
  <2>1. (\E flaw : Crashes("buffers", flaw)) \/ sound' = sound
    BY <1>7 DEF GetReadBuffers, Returns
  <2> QED BY <1>7, <1>a, <1>b, <2>1, LooksAs DEF GetReadBuffers
<1>8. ASSUME NEW n \in Nat, NEW sent \in Nat, StreamWrite(n, sent) PROVE Flat!Next
  <2>1. (\E flaw : Crashes("send", flaw)) \/ sound' = sound
    BY <1>8 DEF StreamWrite, Returns
  <2> QED BY <1>8, <1>a, <1>b, <2>1, LooksAs DEF StreamWrite
<1>9. CASE WriteToFile
  <2>1. sound' = sound \/ out'.op = "dump"
    BY <1>9 DEF WriteToFile, Returns, Answer
  <2> QED BY <1>9, <1>a, <1>b, <2>1, LooksAs DEF WriteToFile
<1> QED BY <1>1, <1>2, <1>3, <1>4, <1>5, <1>6, <1>7, <1>8, <1>9

\* Every step keeps the invariant and, with nodes of one byte, is a step of FlatBytes, or none.
LEMMA EveryStep ==
    ASSUME IInv, [Next]_vars
    PROVE  IInv' /\ (BaseSizes = {1} => [Flat!Next]_(Flat!vars))
<1>1. CASE UNCHANGED vars
  <2>1. UNCHANGED <<ba, little, out, sound, alive>>
    BY <1>1 DEF vars
  <2>2. IInv'
    BY <2>1 DEF IInv
  <2>3. UNCHANGED (IF alive /\ sound THEN Cells(1, 0, ba.size) ELSE <<>>)
    BY <2>1 DEF Cells
  <2> QED BY <2>1, <2>2, <2>3 DEF Flat!vars
<1>a. SUFFICES ASSUME Next PROVE IInv' /\ (BaseSizes = {1} => Flat!Next)
  BY <1>1
<1>2. ASSUME NEW text \in Texts, Write(text) PROVE IInv' /\ (BaseSizes = {1} => Flat!Next)
  <2>1. text \in Seq(Byte) /\ text \in Writable /\ WriteOne(text)
    BY <1>2, ArrayAssumption DEF Writable, Write
  <2> QED BY <2>1, WriteOneStep, PutIsNext
<1>3. ASSUME NEW v \in Numbers, WriteUint(v) PROVE IInv' /\ (BaseSizes = {1} => Flat!Next)
  <2>1. v \in Unsigned
    BY ArrayAssumption
  <2>2. PICK text \in Seq(Byte) : text = EncodeUint(v)
    BY <2>1, Encoded
  <2>3. text \in Writable /\ WriteOne(text)
    BY <1>3, <2>1, <2>2 DEF Writable, WriteUint
  <2> QED BY <2>3, WriteOneStep, PutIsNext
<1>4. ASSUME NEW v \in Numbers, WriteInt(-v) PROVE IInv' /\ (BaseSizes = {1} => Flat!Next)
  <2>1. -v \in Signed
    BY ArrayAssumption
  <2>2. EncodeZigzag(-v) \in Unsigned
    BY <2>1, ZigzagComesBack
  <2>3. PICK text \in Seq(Byte) : text = EncodeUint(EncodeZigzag(-v))
    BY <2>2, Encoded
  <2>4. text \in Writable /\ WriteOne(text)
    BY <1>4, <2>3 DEF Writable, WriteInt
  <2> QED BY <2>4, WriteOneStep, PutIsNext
<1>5. ASSUME NEW v \in Shorts, WriteFixed(v) PROVE IInv' /\ (BaseSizes = {1} => Flat!Next)
  <2>1. little \in BOOLEAN
    BY DEF IInv
  <2>2. PICK text \in Seq(Byte) : text = Ordered(v, little)
    BY <2>1, FixedComesBack
  <2>3. text \in Writable /\ WriteOne(text)
    BY <1>5, <2>1, <2>2 DEF Writable, WriteFixed
  <2> QED BY <2>3, WriteOneStep, PutIsNext
<1>6. ASSUME NEW text \in Texts, WriteString(text) PROVE IInv' /\ (BaseSizes = {1} => Flat!Next)
  <2>1. EncodeUint(Len(text)) \o text \in Writable
    BY DEF Writable
  <2> QED BY <1>6, <2>1, WriteStringStep, PutIsNext
<1>7. ASSUME NEW text \in Texts, ReadFromFile(text) PROVE IInv' /\ (BaseSizes = {1} => Flat!Next)
  <2>1. text \in Writable
    BY DEF Writable
  <2> QED BY <1>7, <2>1, ReadFromFileStep, PutIsNext
<1>8. ASSUME NEW n \in 0 .. getReadSize + 1, Read(n) PROVE IInv' /\ Flat!Next
  <2>1. n \in Nat
    BY Positions
  <2>2. IInv' /\ (sound' => Flat!Read(n))
    BY <1>8, <2>1, ReadStep
  <2>3. sound' => n \in Flat!Sizes
    <3> SUFFICES ASSUME sound' PROVE n \in Flat!Sizes
      OBVIOUS
    <3>1. sound
      BY <1>8, InUseFacts DEF Read
    <3>2. (IF alive /\ sound THEN Cells(1, 0, ba.size) ELSE <<>>) = Bytes(ba) /\ Len(Bytes(ba)) = ba.size
      BY <3>1, FlatBefore, FlatAhead
    <3>3. Flat!Sizes = 0 .. ba.size + 1
      BY <3>2 DEF Flat!Sizes
    <3> QED BY <3>3, Positions
  <2>4. CASE sound'
    BY <2>2, <2>3, <2>4 DEF Flat!Next
  <2> QED BY <1>8, <2>1, <2>2, <2>4, OnlyLooking
<1>9. CASE ReadUint
  <2>1. CASE sound'
    BY <1>9, <2>1, ReadUintStep DEF Flat!Next
  <2> QED BY <1>9, <2>1, ReadUintStep, OnlyLooking
<1>10. CASE ReadFixed
  <2>1. CASE sound'
    BY <1>10, <2>1, ReadFixedStep DEF Flat!Next
  <2> QED BY <1>10, <2>1, ReadFixedStep, OnlyLooking
<1>11. CASE ReadString
  <2>1. CASE sound'
    BY <1>11, <2>1, ReadStringStep DEF Flat!Next
  <2> QED BY <1>11, <2>1, ReadStringStep, OnlyLooking
<1>c. InUse => /\ (IF alive /\ sound THEN Cells(1, 0, ba.size) ELSE <<>>) = Bytes(ba)
               /\ Len(Bytes(ba)) = ba.size
  BY InUseFacts, FlatBefore, FlatAhead
<1>12. ASSUME NEW position \in 0 .. ba.size + 1, NEW n \in 0 .. ba.size + 1, ReadAt(n, position)
       PROVE  IInv' /\ Flat!Next
  <2>1. n \in Nat /\ position \in Nat
    BY Positions
  <2>2. /\ IInv'
        /\ sound' => \/ Flat!Fail("at", 0)
                     \/ /\ position \in 0 .. ba.size /\ n \in 0 .. ba.size - position
                        /\ Flat!Peek("at", position, n)
    BY <1>12, <2>1, ReadAtStep
  <2>3. Len(IF alive /\ sound THEN Cells(1, 0, ba.size) ELSE <<>>) = ba.size
    BY <1>12, <1>c DEF ReadAt
  <2>4. CASE sound'
    BY <2>2, <2>3, <2>4 DEF Flat!Next
  <2> QED BY <1>12, <2>1, <2>2, <2>4, OnlyLooking
<1>13. CASE ReadWhole
  BY <1>13, ReadWholeStep DEF Flat!Next
<1>14. ASSUME NEW v \in 0 .. Capacity(ba) + 1, SetPosition(v) PROVE IInv' /\ Flat!Next
  <2>1. v \in Nat
    BY Positions
  <2> QED BY <1>14, <2>1, SetPositionStep DEF Flat!Next
<1>15. CASE Clear
  BY <1>15, ClearStep DEF Flat!Next
<1>16. ASSUME NEW val \in BOOLEAN, SetIsLittleEndian(val) PROVE IInv' /\ Flat!Next
  BY <1>16, SetOrderStep DEF Flat!Next
<1>17. ASSUME NEW len \in 1 .. ba.size + 1, GetReadBuffers(len) PROVE IInv' /\ Flat!Next
  <2>1. len \in Nat
    BY Positions
  <2>2. CASE sound'
    BY <1>17, <2>1, <2>2, GetReadBuffersStep DEF Flat!Next
  <2> QED BY <1>17, <2>1, <2>2, GetReadBuffersStep, OnlyLooking
<1>18. ASSUME NEW position \in 0 .. ba.size, NEW len \in 1 .. ba.size, GetReadBuffersAt(len, position)
       PROVE  IInv' /\ Flat!Next
  <2>1. len \in Nat /\ position \in Nat
    BY Positions
  <2>2. IInv' /\ (sound' => \E n \in 0 .. ba.size - position : Flat!Peek("at", position, n))
    BY <1>18, <2>1, GetReadBuffersAtStep
  <2>3. Len(IF alive /\ sound THEN Cells(1, 0, ba.size) ELSE <<>>) = ba.size
    BY <1>18, <1>c DEF GetReadBuffersAt
  <2>4. CASE sound'
    BY <2>2, <2>3, <2>4 DEF Flat!Next
  <2> QED BY <1>18, <2>1, <2>2, <2>4, OnlyLooking
<1>19. ASSUME NEW text \in Texts, NEW more \in 0 .. 1, StreamRead(Len(text) + more, text)
       PROVE  IInv' /\ Flat!Next
  <2>1. Len(text) + more \in Nat
    <3>1. text \in Seq(Byte)
      BY ArrayAssumption
    <3> QED BY <3>1
  <2>2. IInv' /\ Flat!Put("stream", text) /\ sound'
    BY <1>19, <2>1, StreamReadStep
  <2>3. text \in Writable
    BY DEF Writable
  <2> QED BY <2>2, <2>3, PutIsNext
<1>20. ASSUME NEW length \in 1 .. ba.size + 1, NEW sent \in 0 .. length, StreamWrite(length, sent)
       PROVE  IInv' /\ Flat!Next
  <2>1. length \in Nat /\ sent \in Nat
    BY Positions
  <2>2. CASE sound'
    BY <1>20, <2>1, <2>2, StreamWriteStep DEF Flat!Next
  <2> QED BY <1>20, <2>1, <2>2, StreamWriteStep, OnlyLooking
<1>21. CASE WriteToFile
  <2>1. CASE sound'
    BY <1>21, <2>1, WriteToFileStep DEF Flat!Next
  <2> QED BY <1>21, <2>1, WriteToFileStep, OnlyLooking
<1>22. CASE Stopped
  <2>1. ~ InUse /\ UNCHANGED <<ba, little, out, sound, alive>>
    BY <1>22 DEF Stopped, vars
  <2>2. IInv'
    BY <2>1 DEF IInv
  <2>3. ~ sound
    BY <2>1 DEF IInv, InUse
  <2> QED BY <2>2, <2>3 DEF Flat!Next, Flat!Misuse
<1> QED BY <1>a, <1>2, <1>3, <1>4, <1>5, <1>6, <1>7, <1>8, <1>9, <1>10, <1>11, <1>12, <1>13, <1>14,
           <1>15, <1>16, <1>17, <1>18, <1>19, <1>20, <1>21, <1>22 DEF Next

\* The inductive invariant.
THEOREM ArrayInvariant == Spec => []IInv
<1>1. Init => IInv
  BY FirstArray
<1>2. IInv /\ [Next]_vars => IInv'
  BY EveryStep
<1> QED BY <1>1, <1>2, PTL DEF Spec

\* ByteArray's members keep their shape through every call of every length, and as long
\* as every write has ended with a node, m_cur is the node that m_position lies in.
THEOREM ChainHolds == Spec => []ChainInv
<1>1. IInv => ChainInv
  <2> SUFFICES ASSUME IInv PROVE ChainInv
    OBVIOUS
  <2>1. ba \in Arrays
    BY DEF IInv
  <2>2. /\ ba.base \in BaseSizes /\ Capacity(ba) <= MaxCapacity
        /\ little \in BOOLEAN /\ sound \in BOOLEAN /\ alive \in BOOLEAN
    BY <2>1, ArrayFacts DEF IInv
  <2>3. \A i \in DOMAIN ba.nodes : ba.nodes[i] \in [1 .. ba.base -> Byte]
    <3>1. ba.nodes \in Seq(Nodes) /\ \A i \in 1 .. Len(ba.nodes) : ba.nodes[i] \in [1 .. ba.base -> Byte]
      BY <2>1, ArrayFacts
    <3>2. DOMAIN ba.nodes = 1 .. Len(ba.nodes)
      BY <3>1
    <3> QED BY <3>1, <3>2
  <2>4. ba.cur \in 0 .. Len(ba.nodes) /\ ba.position \in 0 .. ba.size /\ ba.size <= Capacity(ba)
    BY <2>1, ArrayFacts
  <2>5. TypeOK
    BY <2>2, <2>3, <2>4 DEF TypeOK, Null
  <2>6. CurFollowsPosition
    BY DEF IInv, CurFollowsPosition, Follows
  <2> QED BY <2>5, <2>6 DEF ChainInv
<1> QED BY <1>1, ArrayInvariant, PTL

\* Every number of every width that stands in front of the reader as writeUint32,
\* writeInt32 or writeFint16 wrote it is read as that number, across any nodes.
THEOREM NumbersHold == Spec => []NumbersComeBack
<1>1. IInv => NumbersComeBack
  <2> SUFFICES ASSUME IInv, sound, alive
               PROVE  LET first == SubSeq(Ahead, 1, UintLength(Ahead))
                      IN /\ \A v \in Unsigned : IsPrefix(EncodeUint(v), Ahead) => DecodeUint(first) = v
                         /\ \A v \in Signed : IsPrefix(EncodeUint(EncodeZigzag(v)), Ahead) =>
                                                 DecodeZigzag(DecodeUint(first)) = v
                         /\ \A v \in Shorts : IsPrefix(Ordered(v, little), Ahead) => Unordered(Ahead, little) = v
    BY DEF NumbersComeBack
  <2> DEFINE first == SubSeq(Ahead, 1, UintLength(Ahead))
  <2>1. Ahead \in Seq(Byte) /\ little \in BOOLEAN
    BY FlatAhead DEF IInv
  <2>2. ASSUME NEW v \in Unsigned, IsPrefix(EncodeUint(v), Ahead) PROVE DecodeUint(first) = v
    <3>1. first = EncodeUint(v)
      BY <2>1, <2>2, UintIsFound
    <3> QED BY <3>1, UintComesBack
  <2>3. ASSUME NEW v \in Signed, IsPrefix(EncodeUint(EncodeZigzag(v)), Ahead)
        PROVE  DecodeZigzag(DecodeUint(first)) = v
    <3>1. EncodeZigzag(v) \in Unsigned /\ DecodeZigzag(EncodeZigzag(v)) = v
      BY ZigzagComesBack
    <3>2. DecodeUint(first) = EncodeZigzag(v)
      BY <2>2, <2>3, <3>1
    <3> QED BY <3>1, <3>2
  <2>4. ASSUME NEW v \in Shorts, IsPrefix(Ordered(v, little), Ahead) PROVE Unordered(Ahead, little) = v
    BY <2>1, <2>4, FixedComesBack
  <2> QED BY <2>2, <2>3, <2>4
<1> QED BY <1>1, ArrayInvariant, PTL

\* A ByteArray with nodes of one byte, the size src/test/test_bytearray.cc gives them, is a
\* flat sequence of bytes with a position: every write, move and read does to the chain what
\* FlatBytes does to the sequence, and no write is excused.  With larger nodes it is false:
\* WriteAdvancesBySize fails.
THEOREM ChainIsFlat ==
    ASSUME BaseSizes = {1}
    PROVE  Spec => ImplementsFlat
<1>1. Init => Flat!Init
  BY FirstArray
<1>2. IInv /\ [Next]_vars => [Flat!Next]_(Flat!vars)
  BY EveryStep
<1> QED BY <1>1, <1>2, ArrayInvariant, PTL DEF Spec, ImplementsFlat, Flat!Spec
=============================================================================
