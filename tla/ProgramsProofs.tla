--------------------------- MODULE ProgramsProofs ---------------------------
(***************************************************************************)
(* Proofs about pyeclib_conf_tool, for every request, and about the three  *)
(* programs of MCPrograms together, for any command lines, requests and    *)
(* wheels.                                                                 *)
(***************************************************************************)
EXTENDS MCPrograms, BackendProofs, PackWheelProofs, WellFoundedInduction

-----------------------------------------------------------------------------
(* FlattenSeq, of SequencesExt, is a recursive function: what it returns is  *)
(* shown by induction, which is stated for sets of numbers as the provers    *)
(* take no predicate as a parameter.                                         *)

LEMMA NumberInduction ==
  ASSUME NEW S, 0 \in S, \A n \in Nat : n \in S => n + 1 \in S
  PROVE  Nat \subseteq S
<1> DEFINE R == OpToRel(<, Nat)
           T == Nat \ S
<1>1. IsWellFoundedOn(R, Nat)
  BY NatLessThanWellFounded
<1>2. \A x, y \in Nat : x < y => <<x, y>> \in R
  BY DEF OpToRel
<1> HIDE DEF R
<1>3. CASE T # {}
  <2>1. PICK x \in T : \A y \in T : ~(<<y, x>> \in R)
    BY <1>1, <1>3, WFMin
  <2>2. x \in Nat /\ x # 0 /\ x - 1 \in Nat /\ x - 1 < x /\ (x - 1) + 1 = x
    OBVIOUS
  <2>3. x - 1 \in T
    BY <2>2
  <2> QED BY <1>2, <2>1, <2>2, <2>3
<1> QED BY <1>3

LEMMA ConcatenatedElements ==
  ASSUME NEW T, NEW s \in Seq(T), NEW t \in Seq(T)
  PROVE  s \o t \in Seq(T) /\ ToSet(s \o t) = ToSet(s) \cup ToSet(t)
<1>1. /\ s \o t \in Seq(T) /\ Len(s \o t) = Len(s) + Len(t)
      /\ \A i \in 1..Len(s) : (s \o t)[i] = s[i]
      /\ \A i \in 1..Len(t) : (s \o t)[Len(s) + i] = t[i]
  OBVIOUS
<1>2. \A i \in 1..Len(s \o t) : i \in 1..Len(s) \/ i - Len(s) \in 1..Len(t)
  BY <1>1
<1>3. ToSet(s \o t) \subseteq ToSet(s) \cup ToSet(t)
  <2> SUFFICES ASSUME NEW i \in 1..Len(s \o t)
               PROVE  (s \o t)[i] \in ToSet(s) \cup ToSet(t)
    BY <1>1 DEF ToSet
  <2>1. CASE i \in 1..Len(s)
    BY <1>1, <2>1 DEF ToSet
  <2>2. CASE i - Len(s) \in 1..Len(t)
    <3>1. Len(s) + (i - Len(s)) = i
      BY <1>1
    <3> QED BY <1>1, <2>2, <3>1 DEF ToSet
  <2> QED BY <1>2, <2>1, <2>2
<1>4. ToSet(s) \cup ToSet(t) \subseteq ToSet(s \o t)
  <2>1. \A i \in 1..Len(s) : i \in 1..Len(s \o t)
    BY <1>1
  <2>2. \A i \in 1..Len(t) : Len(s) + i \in 1..Len(s \o t)
    BY <1>1
  <2>3. ToSet(s) \subseteq ToSet(s \o t)
    <3>1. \A i \in 1..Len(s) : s[i] = (s \o t)[i] /\ i \in DOMAIN (s \o t)
      BY <1>1, <2>1
    <3>2. DOMAIN s = 1..Len(s)
      OBVIOUS
    <3> QED BY <3>1, <3>2, Zenon DEF ToSet
  <2>4. ToSet(t) \subseteq ToSet(s \o t)
    <3>1. \A i \in 1..Len(t) : t[i] = (s \o t)[Len(s) + i] /\ Len(s) + i \in DOMAIN (s \o t)
      BY <1>1, <2>2
    <3>2. DOMAIN t = 1..Len(t)
      OBVIOUS
    <3> QED BY <3>1, <3>2, Zenon DEF ToSet
  <2> QED BY <2>3, <2>4, Zenon
<1> QED BY <1>1, <1>3, <1>4

\* f[i] puts together the first i of m sequences.
Solves(f, seqs, m) ==
  f = [i \in 1..m |-> IF i = 1 THEN seqs[1] ELSE f[i - 1] \o seqs[i]]

LEMMA FlattenedElements ==
  ASSUME NEW T, NEW n \in Nat \ {0}, NEW seqs \in [1..n -> Seq(T)]
  PROVE  /\ FlattenSeq(seqs) \in Seq(T)
         /\ ToSet(FlattenSeq(seqs)) = UNION {ToSet(seqs[i]) : i \in 1..n}
<1> DEFINE S == {m \in Nat : \E f : Solves(f, seqs, m + 1)}
<1>1. 0 \in S
  <2> DEFINE f == [i \in 1..1 |-> seqs[1]]
  <2>1. Solves(f, seqs, 0 + 1)
    BY DEF Solves
  <2> HIDE DEF f
  <2> QED BY <2>1
<1>2. ASSUME NEW m \in Nat, m \in S PROVE m + 1 \in S
  <2>1. PICK f : Solves(f, seqs, m + 1)
    BY <1>2
  <2> DEFINE g == [i \in 1..m + 2 |-> IF i = m + 2 THEN f[m + 1] \o seqs[m + 2] ELSE f[i]]
  <2>2. ASSUME NEW i \in 1..m + 2
        PROVE  g[i] = IF i = 1 THEN seqs[1] ELSE g[i - 1] \o seqs[i]
    <3>1. CASE i = m + 2
      <4>1. i - 1 = m + 1 /\ i - 1 \in 1..m + 2 /\ i - 1 # m + 2 /\ i # 1
        BY <3>1
      <4>2. g[i - 1] = f[m + 1] /\ g[i] = f[m + 1] \o seqs[m + 2]
        BY <3>1, <4>1
      <4> QED BY <3>1, <4>1, <4>2
    <3>2. CASE i # m + 2
      <4>1. i \in 1..m + 1 /\ (i # 1 => i - 1 \in 1..m + 2 /\ i - 1 # m + 2)
        BY <3>2
      <4>2. f[i] = IF i = 1 THEN seqs[1] ELSE f[i - 1] \o seqs[i]
        BY <2>1, <4>1 DEF Solves
      <4>3. g[i] = f[i] /\ (i # 1 => g[i - 1] = f[i - 1])
        BY <3>2, <4>1
      <4> QED BY <4>2, <4>3
    <3> QED BY <3>1, <3>2
  <2>3. Solves(g, seqs, (m + 1) + 1)
    <3>1. (m + 1) + 1 = m + 2
      OBVIOUS
    <3>2. DOMAIN g = 1..m + 2 /\ g = [i \in 1..m + 2 |-> g[i]]
      OBVIOUS
    <3> HIDE DEF g
    <3> QED BY <2>2, <3>1, <3>2 DEF Solves
  <2> HIDE DEF g
  <2> QED BY <2>3
<1>3. n - 1 \in S
  <2> HIDE DEF S
  <2>1. Nat \subseteq S
    BY <1>1, <1>2, NumberInduction
  <2> QED BY <2>1
<1>4. seqs \in Seq(Seq(T)) /\ Len(seqs) = n
  OBVIOUS
<1>5. PICK f : Solves(f, seqs, n) /\ FlattenSeq(seqs) = f[n]
  <2>1. \E f : Solves(f, seqs, n)
    <3>1. (n - 1) + 1 = n
      OBVIOUS
    <3> QED BY <1>3, <3>1
  <2> DEFINE g == CHOOSE f : Solves(f, seqs, n)
  <2>2. Solves(g, seqs, n)
    BY <2>1
  <2>3. FlattenSeq(seqs) = g[n]
    BY <1>4 DEF FlattenSeq, Solves
  <2> QED BY <2>2, <2>3
<1> DEFINE Holds(i) == /\ f[i] \in Seq(T)
                       /\ ToSet(f[i]) = UNION {ToSet(seqs[j]) : j \in 1..i}
           H == {i \in Nat : i + 1 <= n => Holds(i + 1)}
<1>6. f[1] = seqs[1] /\ \A i \in 2..n : f[i] = f[i - 1] \o seqs[i]
  <2>1. DOMAIN f = 1..n /\ 1 \in 1..n
    BY <1>5 DEF Solves
  <2>2. \A i \in 1..n : f[i] = IF i = 1 THEN seqs[1] ELSE f[i - 1] \o seqs[i]
    BY <1>5 DEF Solves
  <2>3. \A i \in 2..n : i \in 1..n /\ i # 1
    OBVIOUS
  <2> QED BY <2>1, <2>2, <2>3
<1>7. 0 \in H
  <2>1. 1..0 + 1 = {1} /\ 1 \in 1..n
    OBVIOUS
  <2> QED BY <1>6, <2>1
<1>8. ASSUME NEW i \in Nat, i \in H PROVE i + 1 \in H
  <2> SUFFICES ASSUME i + 2 <= n PROVE Holds(i + 2)
    <3>1. (i + 1) + 1 = i + 2
      OBVIOUS
    <3> HIDE DEF Holds
    <3> QED BY <3>1
  <2>1. /\ i + 2 \in 2..n /\ (i + 2) - 1 = i + 1 /\ i + 1 <= n
        /\ i + 2 \in 1..n
        /\ 1..i + 2 = (1..i + 1) \cup {i + 2}
    OBVIOUS
  <2>2. f[i + 1] \in Seq(T) /\ ToSet(f[i + 1]) = UNION {ToSet(seqs[j]) : j \in 1..i + 1}
    BY <1>8, <2>1
  <2>3. f[i + 2] = f[i + 1] \o seqs[i + 2] /\ seqs[i + 2] \in Seq(T)
    BY <1>6, <2>1
  <2>4. /\ f[i + 2] \in Seq(T)
        /\ ToSet(f[i + 2]) = ToSet(f[i + 1]) \cup ToSet(seqs[i + 2])
    BY <2>2, <2>3, ConcatenatedElements
  <2> QED BY <2>1, <2>2, <2>4
<1>9. Holds(n)
  <2>1. n - 1 \in H
    <3> HIDE DEF H
    <3>1. Nat \subseteq H
      BY <1>7, <1>8, NumberInduction
    <3> QED BY <3>1
  <2>2. (n - 1) + 1 = n
    OBVIOUS
  <2> QED BY <2>1, <2>2
<1> QED BY <1>5, <1>9

-----------------------------------------------------------------------------
(* The schemes of pyeclib_conf_tool.                                         *)

Schemes ==
  [k: Int, m: Int, ec_type: {"jerasure_rs_vand", "jerasure_rs_cauchy",
                             "flat_xor_hd_3", "flat_xor_hd_4"}]

\* A scheme that is listed for k data fragments out of n.
Listed(s, k, n, f) ==
  /\ s.k = k /\ s.m = n - k /\ s \in Schemes
  /\ \/ s.ec_type \in {"jerasure_rs_vand", "jerasure_rs_cauchy"}
     \/ /\ f = 2 /\ s.ec_type = "flat_xor_hd_3"
        /\ k <= nCr(n - k, 2) /\ k \in 6..15 /\ n - k = 6
     \/ /\ f = 3 /\ s.ec_type = "flat_xor_hd_4"
        /\ k <= nCr(n - k, 3) /\ k \in 6..20 /\ n - k = 6

LEMMA ListedSchemes ==
  ASSUME NEW k \in Int, NEW n \in Int, NEW f \in Int
  PROVE  /\ SchemesOf(k, n, f) \in Seq(Schemes)
         /\ ToSet(SchemesOf(k, n, f)) = {s \in Schemes : Listed(s, k, n, f)}
<1> DEFINE rs  == <<ECScheme(k, n - k, "jerasure_rs_vand"),
                    ECScheme(k, n - k, "jerasure_rs_cauchy")>>
           xor == XorSchemes(k, n - k, f)
<1>1. /\ ECScheme(k, n - k, "jerasure_rs_vand") \in Schemes
      /\ ECScheme(k, n - k, "jerasure_rs_cauchy") \in Schemes
      /\ ECScheme(k, n - k, "flat_xor_hd_3") \in Schemes
      /\ ECScheme(k, n - k, "flat_xor_hd_4") \in Schemes
  BY DEF ECScheme, Schemes
<1>2. /\ rs \in Seq(Schemes)
      /\ ToSet(rs) = {ECScheme(k, n - k, t) : t \in {"jerasure_rs_vand", "jerasure_rs_cauchy"}}
  <2>1. PICK a \in Schemes, b \in Schemes :
          /\ a = ECScheme(k, n - k, "jerasure_rs_vand")
          /\ b = ECScheme(k, n - k, "jerasure_rs_cauchy")
    BY <1>1
  <2>2. rs = <<a, b>>
    BY <2>1
  <2> HIDE DEF rs
  <2>3. /\ rs \in Seq(Schemes) /\ Len(rs) = 2 /\ DOMAIN rs = 1..2
        /\ rs[1] = a /\ rs[2] = b
    BY <2>2
  <2>4. ToSet(rs) = {a, b}
    <3>1. 1..2 = {1, 2}
      OBVIOUS
    <3> QED BY <2>3, <3>1 DEF ToSet
  <2> QED BY <2>1, <2>3, <2>4
<1> DEFINE ofThree == /\ f = 2 /\ k <= nCr(n - k, 2) /\ k \in 6..15 /\ n - k = 6
           ofFour  == /\ f = 3 /\ k <= nCr(n - k, 3) /\ k \in 6..20 /\ n - k = 6
<1>3. /\ <<k, n - k>> \in valid_flat_xor_hd_3 <=> k \in 6..15 /\ n - k = 6
      /\ <<k, n - k>> \in valid_flat_xor_hd_4 <=> k \in 6..20 /\ n - k = 6
  BY DEF valid_flat_xor_hd_3, valid_flat_xor_hd_4
<1>4. /\ ofThree => xor = <<ECScheme(k, n - k, "flat_xor_hd_3")>>
      /\ ofFour => xor = <<ECScheme(k, n - k, "flat_xor_hd_4")>>
      /\ ~ofThree /\ ~ofFour => xor = <<>>
  BY <1>3 DEF XorSchemes
<1> HIDE DEF rs, xor, ofThree, ofFour
<1>5. /\ xor \in Seq(Schemes)
      /\ ToSet(xor) = {ECScheme(k, n - k, t) : t \in
           {u \in {"flat_xor_hd_3", "flat_xor_hd_4"} :
              (u = "flat_xor_hd_3" /\ ofThree) \/ (u = "flat_xor_hd_4" /\ ofFour)}}
  <2>1. ~(ofThree /\ ofFour)
    BY DEF ofThree, ofFour
  <2>2. CASE ofThree
    <3>1. PICK x \in Schemes : x = ECScheme(k, n - k, "flat_xor_hd_3")
      BY <1>1
    <3>2. xor = <<x>>
      BY <1>4, <2>2, <3>1
    <3>3. xor \in Seq(Schemes) /\ DOMAIN xor = 1..1 /\ xor[1] = x
      BY <3>2
    <3>4. ToSet(xor) = {x}
      BY <3>3 DEF ToSet
    <3> QED BY <2>1, <2>2, <3>1, <3>3, <3>4
  <2>3. CASE ofFour
    <3>1. PICK x \in Schemes : x = ECScheme(k, n - k, "flat_xor_hd_4")
      BY <1>1
    <3>2. xor = <<x>>
      BY <1>4, <2>3, <3>1
    <3>3. xor \in Seq(Schemes) /\ DOMAIN xor = 1..1 /\ xor[1] = x
      BY <3>2
    <3>4. ToSet(xor) = {x}
      BY <3>3 DEF ToSet
    <3> QED BY <2>1, <2>3, <3>1, <3>3, <3>4
  <2>4. CASE ~ofThree /\ ~ofFour
    <3>1. xor \in Seq(Schemes) /\ DOMAIN xor = {}
      BY <1>4, <2>4
    <3> QED BY <2>4, <3>1 DEF ToSet
  <2> QED BY <2>2, <2>3, <2>4
<1>6. /\ SchemesOf(k, n, f) \in Seq(Schemes)
      /\ ToSet(SchemesOf(k, n, f)) = ToSet(rs) \cup ToSet(xor)
  <2>1. SchemesOf(k, n, f) = rs \o xor
    BY DEF SchemesOf, rs, xor
  <2> QED BY <1>2, <1>5, <2>1, ConcatenatedElements
<1>7. \A s \in Schemes : Listed(s, k, n, f) <=>
        /\ s = ECScheme(k, n - k, s.ec_type)
        /\ \/ s.ec_type \in {"jerasure_rs_vand", "jerasure_rs_cauchy"}
           \/ s.ec_type = "flat_xor_hd_3" /\ ofThree
           \/ s.ec_type = "flat_xor_hd_4" /\ ofFour
  BY DEF Listed, ECScheme, Schemes, ofThree, ofFour
<1>8. \A t : ECScheme(k, n - k, t).ec_type = t
  BY DEF ECScheme
<1>9. ASSUME NEW s \in Schemes
      PROVE  s \in ToSet(rs) \cup ToSet(xor) <=> Listed(s, k, n, f)
  BY <1>2, <1>5, <1>7, <1>8
<1>10. ToSet(rs) \cup ToSet(xor) \subseteq Schemes
  <2>1. \A s \in Seq(Schemes) : ToSet(s) \subseteq Schemes
    BY DEF ToSet
  <2> QED BY <1>2, <1>5, <2>1
<1> QED BY <1>6, <1>9, <1>10

AllListed(low, n, f) == {s \in Schemes : \E k \in low .. n - f : Listed(s, k, n, f)}

\* The list for all k from low to n - f.
LEMMA ViableSchemes ==
  ASSUME NEW n \in Int, NEW f \in Int, NEW low \in Int
  PROVE  /\ Viable(n, low, f) \in Seq(Schemes)
         /\ ToSet(Viable(n, low, f)) = AllListed(low, n, f)
<1>1. CASE low + f > n
  <2>1. Viable(n, low, f) = <<>> /\ low .. n - f = {}
    BY <1>1 DEF Viable
  <2>2. ToSet(<<>>) = {} /\ <<>> \in Seq(Schemes)
    BY DEF ToSet
  <2>3. AllListed(low, n, f) = {}
    BY <2>1 DEF AllListed
  <2> QED BY <2>1, <2>2, <2>3
<1>2. CASE ~(low + f > n)
  <2> DEFINE c == n - f + 1 - low
             seqs == [i \in 1..c |-> SchemesOf(low + i - 1, n, f)]
  <2>1. c \in Nat \ {0}
    BY <1>2
  <2>2. \A i \in 1..c : low + i - 1 \in low .. n - f
    BY <2>1
  <2>3. \A k \in low .. n - f : k - low + 1 \in 1..c /\ low + (k - low + 1) - 1 = k
    BY <2>1
  <2>4. Viable(n, low, f) = FlattenSeq(seqs)
    BY <1>2 DEF Viable
  <2> HIDE DEF c
  <2>5. /\ seqs \in [1..c -> Seq(Schemes)]
        /\ \A i \in 1..c : ToSet(seqs[i]) = {s \in Schemes : Listed(s, low + i - 1, n, f)}
    <3> SUFFICES ASSUME NEW i \in 1..c
                 PROVE  /\ SchemesOf(low + i - 1, n, f) \in Seq(Schemes)
                        /\ ToSet(SchemesOf(low + i - 1, n, f)) =
                             {s \in Schemes : Listed(s, low + i - 1, n, f)}
      OBVIOUS
    <3>1. PICK k \in Int : k = low + i - 1
      OBVIOUS
    <3>2. /\ SchemesOf(k, n, f) \in Seq(Schemes)
          /\ ToSet(SchemesOf(k, n, f)) = {s \in Schemes : Listed(s, k, n, f)}
      BY ListedSchemes
    <3> QED BY <3>1, <3>2, Zenon
  <2> HIDE DEF seqs
  <2>6. /\ FlattenSeq(seqs) \in Seq(Schemes)
        /\ ToSet(FlattenSeq(seqs)) = UNION {ToSet(seqs[i]) : i \in 1..c}
    BY <2>1, <2>5, FlattenedElements
  <2>7. UNION {ToSet(seqs[i]) : i \in 1..c} = AllListed(low, n, f)
    BY <2>2, <2>3, <2>5 DEF AllListed
  <2> QED BY <2>4, <2>6, <2>7
<1> QED BY <1>1, <1>2

\* The ceiling of a quotient, and the numbers that lie beyond the quotient.
LEMMA Ceilings ==
  ASSUME NEW a \in Int, NEW b \in Nat \ {0}
  PROVE  /\ CeilDiv(a, b) \in Int
         /\ CeilDiv(a, b) * b >= a
         /\ \A k \in Int : k * b > a => k >= CeilDiv(a, b)
<1> DEFINE x == -a
           q == x \div b
           c == CeilDiv(a, b)
<1>1. x \in Int
  OBVIOUS
<1>2. q \in Int /\ x % b \in 0..b - 1 /\ x = b * q + (x % b)
  BY <1>1, SMTT(30)
<1>3. c = -q
  BY DEF CeilDiv
<1>4. c \in Int /\ c * b = -(b * q)
  BY <1>2, <1>3
<1> HIDE DEF c, q
<1>5. c * b >= a /\ c * b - b < a
  BY <1>2, <1>4
<1>6. ASSUME NEW k \in Int, k * b > a PROVE k >= c
  <2>1. CASE k < c
    <3>1. PICK j \in Nat : c = k + 1 + j
      <4>1. c - k - 1 \in Nat /\ c = k + 1 + (c - k - 1)
        BY <1>4, <2>1
      <4> QED BY <4>1
    <3>2. (k + 1 + j) * b = k * b + b + j * b /\ j * b \in Nat /\ k * b \in Int
      OBVIOUS
    <3>3. c * b >= k * b + b
      BY <3>1, <3>2
    <3> QED BY <1>4, <1>5, <1>6, <3>2, <3>3
  <2> QED BY <1>4, <2>1
<1> QED BY <1>4, <1>5, <1>6 DEF c

\* The least k, however the product of the floats comes out: it has the rate,
\* and no k with a better rate is less.
LEMMA LeastK ==
  ASSUME NEW n \in Int, NEW r, r[1] \in Int, r[2] \in Nat \ {0}, NEW low \in MinKs(n, r)
  PROVE  /\ low \in Int
         /\ \A k \in Int : k >= low => k * r[2] >= r[1] * n
         /\ \A k \in Int : k * r[2] > r[1] * n => k >= low
<1> DEFINE a == r[1] * n
           b == r[2]
           exact == CeilDiv(a, b)
<1>1. a \in Int /\ b \in Nat \ {0}
  OBVIOUS
<1>2. low = exact \/ (low = exact + 1 /\ exact * b = a)
  BY DEF MinKs
<1> HIDE DEF a, b
<1>3. /\ exact \in Int /\ exact * b >= a
      /\ \A k \in Int : k * b > a => k >= exact
  BY <1>1, Ceilings
<1> HIDE DEF exact
<1>4. ASSUME NEW k \in Int, k >= low PROVE k * b >= a
  <2>1. PICK j \in Nat : k = exact + j
    <3>1. k - exact \in Nat /\ k = exact + (k - exact)
      BY <1>2, <1>3, <1>4
    <3> QED BY <3>1
  <2>2. (exact + j) * b = exact * b + j * b /\ j * b \in Nat /\ exact * b \in Int
    BY <1>1, <1>3
  <2> QED BY <1>1, <1>3, <2>1, <2>2
<1>5. ASSUME NEW k \in Int, k * b > a PROVE k >= low
  <2>1. k >= exact
    BY <1>3, <1>5
  <2>2. CASE low = exact + 1 /\ exact * b = a
    <3>1. k # exact
      BY <1>1, <1>5, <2>2
    <3> QED BY <1>3, <2>1, <2>2, <3>1
  <2> QED BY <1>2, <2>1, <2>2
<1> QED BY <1>2, <1>3, <1>4, <1>5 DEF a, b

\* The schemes t are the last ones of s.
LastOnes(t, s) ==
  /\ s \in Seq(Schemes) /\ t \in Seq(Schemes)
  /\ Len(t) <= Len(s)
  /\ \A i \in 1..Len(t) : t[i] = s[Len(s) - Len(t) + i]

LEMMA LastOnesOfTail ==
  ASSUME NEW s, NEW t, LastOnes(t, s), t # <<>>
  PROVE  LastOnes(Tail(t), s)
<1>1. /\ s \in Seq(Schemes) /\ t \in Seq(Schemes)
      /\ Len(s) \in Nat /\ Len(t) \in Nat /\ Len(t) <= Len(s)
      /\ \A i \in 1..Len(t) : t[i] = s[Len(s) - Len(t) + i]
  BY DEF LastOnes
<1> DEFINE u == Tail(t)
<1>2. /\ u \in Seq(Schemes) /\ Len(u) = Len(t) - 1
      /\ \A i \in 1..Len(u) : u[i] = t[i + 1] /\ i + 1 \in 1..Len(t)
  BY <1>1
<1> HIDE DEF u
<1>3. ASSUME NEW i \in 1..Len(u) PROVE u[i] = s[Len(s) - Len(u) + i]
  <2>1. Len(s) - Len(t) + (i + 1) = Len(s) - Len(u) + i
    BY <1>1, <1>2
  <2> QED BY <1>1, <1>2, <2>1
<1>4. Len(u) <= Len(s)
  BY <1>1, <1>2
<1> QED BY <1>1, <1>2, <1>3, <1>4 DEF LastOnes, u

\* What the program knows: the schemes are those of a least k, and those still
\* to be tried are the last of them.
ToolInv ==
  /\ request \in Requests
  /\ ending \in {"start", "trying", "exit 1", "ECInvalidParameter", "TypeError"}
  /\ LastOnes(tries, schemes)
  /\ ending \notin {"start", "exit 1"} =>
       \E low \in MinKs(request.n, request.r) : schemes = Viable(request.n, low, request.f)

LEMMA InitToolInv == ToolInit => ToolInv
<1> SUFFICES ASSUME ToolInit PROVE ToolInv
  OBVIOUS
<1>1. schemes = <<>> /\ tries = <<>>
  BY DEF ToolInit
<1>2. Len(schemes) = 0 /\ Len(tries) = 0 /\ schemes \in Seq(Schemes) /\ tries \in Seq(Schemes)
  BY <1>1
<1> QED BY <1>2 DEF ToolInit, ToolInv, LastOnes

LEMMA NextToolInv == ToolInv /\ [ToolNext]_toolVars => ToolInv'
<1> SUFFICES ASSUME ToolInv, [ToolNext]_toolVars PROVE ToolInv'
  OBVIOUS
<1>1. CASE TooLarge
  BY <1>1 DEF TooLarge, ToolInv
<1>2. CASE get_viable_schemes
  <2>1. PICK low \in MinKs(request.n, request.r) :
          schemes' = Viable(request.n, low, request.f)
    BY <1>2 DEF get_viable_schemes
  <2>2. /\ tries' = schemes' /\ request' = request /\ ending' = "trying"
    BY <1>2 DEF get_viable_schemes
  <2>3. /\ request.n \in Int /\ request.f \in Int
        /\ request.r[1] \in Int /\ request.r[2] \in Nat \ {0}
    BY RequestsAssumption DEF ToolInv
  <2>4. low \in Int
    BY <2>3, LeastK
  <2>5. schemes' \in Seq(Schemes)
    BY <2>1, <2>3, <2>4, ViableSchemes
  <2>6. LastOnes(schemes', schemes')
    <3>1. Len(schemes') \in Nat /\ \A i \in 1..Len(schemes') : Len(schemes') - Len(schemes') + i = i
      BY <2>5
    <3> QED BY <2>5, <3>1 DEF LastOnes
  <2> QED BY <2>1, <2>2, <2>5, <2>6 DEF ToolInv
<1>3. CASE NotDefined
  <2>1. /\ tries # <<>> /\ tries' = Tail(tries) /\ schemes' = schemes
        /\ request' = request /\ ending' = ending
    BY <1>3 DEF NotDefined, Trying
  <2>2. LastOnes(tries', schemes')
    BY <2>1, LastOnesOfTail DEF ToolInv
  <2> QED BY <2>1, <2>2 DEF ToolInv
<1>4. CASE EncodeStr
  BY <1>4 DEF EncodeStr, Trying, ToolInv
<1>5. CASE SortResults
  BY <1>5 DEF SortResults, ToolInv
<1>6. CASE UNCHANGED toolVars
  BY <1>6 DEF toolVars, ToolInv
<1> QED BY <1>1, <1>2, <1>3, <1>4, <1>5, <1>6 DEF ToolNext

\* The inductive invariant of pyeclib_conf_tool.
THEOREM ToolInvariance == ToolSpec => []ToolInv
BY InitToolInv, NextToolInv, PTL DEF ToolSpec

LEMMA ToolTyped == ToolInv => ToolTypeOK
<1> SUFFICES ASSUME ToolInv PROVE IsSuffix(tries, schemes)
  BY DEF ToolInv, ToolTypeOK
<1> DEFINE t == Reverse(tries)
           s == Reverse(schemes)
           n == Len(tries)
<1>1. /\ n \in Nat /\ Len(schemes) \in Nat /\ n <= Len(schemes)
      /\ tries \in Seq(Schemes) /\ schemes \in Seq(Schemes)
      /\ \A i \in 1..n : tries[i] = schemes[Len(schemes) - n + i]
  <2>1. LastOnes(tries, schemes)
    BY DEF ToolInv
  <2> QED BY <2>1 DEF LastOnes
<1>2. /\ t \in Seq(Schemes) /\ Len(t) = n /\ \A i \in 1..n : t[i] = tries[(n - i) + 1]
  <2>1. \A i \in 1..n : (n - i) + 1 \in 1..n
    BY <1>1
  <2> QED BY <1>1, <2>1 DEF Reverse
<1>3. /\ s \in Seq(Schemes) /\ Len(s) = Len(schemes)
      /\ \A i \in 1..Len(schemes) : s[i] = schemes[(Len(schemes) - i) + 1]
  <2>1. \A i \in 1..Len(schemes) : (Len(schemes) - i) + 1 \in 1..Len(schemes)
    BY <1>1
  <2> QED BY <1>1, <2>1 DEF Reverse
<1>4. ASSUME NEW i \in 1..n PROVE t[i] = s[i]
  <2>1. /\ (n - i) + 1 \in 1..n /\ i \in 1..Len(schemes)
        /\ Len(schemes) - n + ((n - i) + 1) = (Len(schemes) - i) + 1
    BY <1>1
  <2> HIDE DEF t, s, n
  <2> QED BY <1>1, <1>2, <1>3, <2>1
<1> HIDE DEF t, s, n
<1>5. SubSeq(t, 1, n) = SubSeq(s, 1, n)
  BY <1>1, <1>2, <1>3, <1>4
<1> QED BY <1>1, <1>2, <1>3, <1>5 DEF IsSuffix, IsPrefix, t, s

\* Every reachable state is well formed.
THEOREM ToolTypes == ToolSpec => []ToolTypeOK
BY ToolInvariance, ToolTyped, PTL

\* A code of distance h is listed for k of n whenever it can be.
LEMMA XorListed ==
  ASSUME NEW n \in Int, NEW f \in Int, NEW k \in 6..15, n - k = 6,
         NEW t \in {"flat_xor_hd_3", "flat_xor_hd_4"}, HammingDistance(t, n - k) = f + 1
  PROVE  Listed(ECScheme(k, n - k, t), k, n, f)
<1>1. nCr(6, 2) = 15 /\ nCr(6, 3) = 20
  <2>1. (6 * (6 - 1)) \div 2 = 15 /\ (6 * (6 - 1) * (6 - 2)) \div 6 = 20
    OBVIOUS
  <2> QED BY <2>1 DEF nCr
<1>2. ECScheme(k, n - k, t) \in Schemes
  BY DEF ECScheme, Schemes
<1>3. CASE t = "flat_xor_hd_3"
  <2>1. f = 2
    BY <1>3 DEF HammingDistance
  <2>2. k <= nCr(n - k, 2)
    BY <1>1
  <2> QED BY <1>2, <1>3, <2>1, <2>2 DEF Listed, ECScheme
<1>4. CASE t = "flat_xor_hd_4"
  <2>1. f = 3
    BY <1>4 DEF HammingDistance
  <2>2. k <= nCr(n - k, 3) /\ k \in 6..20
    BY <1>1
  <2> QED BY <1>2, <1>4, <2>1, <2>2 DEF Listed, ECScheme
<1> QED BY <1>3, <1>4

\* What a request for n fragments, f faults and the rate a / b asks of a list:
\* SchemesMeetRequest of any list.
Asked(list, n, f, a, b) ==
  LET Meets(k) == n - k >= f /\ k * b >= a * n
      Exceeds(k) == n - k >= f /\ k * b > a * n
      Found(k, t) == \E i \in DOMAIN list : list[i] = ECScheme(k, n - k, t)
  IN /\ \A s \in ToSet(list) :
          /\ Meets(s.k) /\ s.k + s.m = n
          /\ s.ec_type \in XorNames => HammingDistance(s.ec_type, s.m) = f + 1
     /\ \A k \in 1 .. n : Exceeds(k) =>
          Found(k, "jerasure_rs_vand") /\ Found(k, "jerasure_rs_cauchy")
     /\ \A k \in 1 .. n, t \in {"flat_xor_hd_3", "flat_xor_hd_4"} :
          /\ Exceeds(k) /\ HammingDistance(t, n - k) = f + 1
          /\ k \in 6 .. 15 /\ n - k = 6
          => Found(k, t)

LEMMA ViableIsAsked ==
  ASSUME NEW n \in Int, NEW f \in Int, NEW r, r[1] \in Int, r[2] \in Nat \ {0},
         NEW low \in MinKs(n, r)
  PROVE  Asked(Viable(n, low, f), n, f, r[1], r[2])
<1> DEFINE list == Viable(n, low, f)
           Meets(k) == n - k >= f /\ k * r[2] >= r[1] * n
           Exceeds(k) == n - k >= f /\ k * r[2] > r[1] * n
           Found(k, t) == \E i \in DOMAIN list : list[i] = ECScheme(k, n - k, t)
<1>1. /\ low \in Int
      /\ \A k \in Int : k >= low => k * r[2] >= r[1] * n
      /\ \A k \in Int : k * r[2] > r[1] * n => k >= low
  BY LeastK
<1>2. ToSet(list) = AllListed(low, n, f)
  <2>1. low \in Int
    BY <1>1
  <2> QED BY <2>1, ViableSchemes, Zenon
<1> HIDE DEF list
<1>3. ASSUME NEW s \in ToSet(list)
      PROVE  /\ Meets(s.k) /\ s.k + s.m = n
             /\ s.ec_type \in XorNames => HammingDistance(s.ec_type, s.m) = f + 1
  <2>1. PICK k \in low .. n - f : Listed(s, k, n, f)
    BY <1>2 DEF AllListed
  <2>2. k \in Int /\ k >= low /\ n - k >= f
    BY <1>1
  <2>3. s.k = k /\ s.m = n - k
    BY <2>1 DEF Listed
  <2>4. k * r[2] >= r[1] * n
    BY <1>1, <2>2
  <2>5. s.ec_type \in XorNames => HammingDistance(s.ec_type, s.m) = f + 1
    BY <2>1 DEF Listed, XorNames, HammingDistance
  <2> QED BY <2>2, <2>3, <2>4, <2>5
<1>4. ASSUME NEW k \in Int, Exceeds(k), NEW t, Listed(ECScheme(k, n - k, t), k, n, f)
      PROVE  Found(k, t)
  <2>1. k \in low .. n - f
    BY <1>1, <1>4
  <2>2. ECScheme(k, n - k, t) \in Schemes
    BY <1>4 DEF Listed
  <2>3. ECScheme(k, n - k, t) \in ToSet(list)
    BY <1>2, <1>4, <2>1, <2>2 DEF AllListed
  <2> QED BY <2>3 DEF ToSet
<1>5. ASSUME NEW k \in 1..n, Exceeds(k), NEW t \in {"jerasure_rs_vand", "jerasure_rs_cauchy"}
      PROVE  Found(k, t)
  <2>1. ECScheme(k, n - k, t) \in Schemes
    BY DEF ECScheme, Schemes
  <2>2. /\ ECScheme(k, n - k, t).k = k /\ ECScheme(k, n - k, t).m = n - k
        /\ ECScheme(k, n - k, t).ec_type = t
    BY DEF ECScheme
  <2>3. Listed(ECScheme(k, n - k, t), k, n, f)
    BY <2>1, <2>2 DEF Listed
  <2>4. k \in Int
    OBVIOUS
  <2> HIDE DEF Found, Exceeds
  <2> QED BY <1>4, <1>5, <2>3, <2>4
<1>6. ASSUME NEW k \in 1..n, NEW t \in {"flat_xor_hd_3", "flat_xor_hd_4"},
             Exceeds(k), HammingDistance(t, n - k) = f + 1, k \in 6..15, n - k = 6
      PROVE  Found(k, t)
  <2>1. Listed(ECScheme(k, n - k, t), k, n, f)
    BY <1>6, XorListed
  <2>2. k \in Int
    OBVIOUS
  <2> HIDE DEF Found, Exceeds
  <2> QED BY <1>4, <1>6, <2>1, <2>2
<1> HIDE DEF Meets, Exceeds, Found
<1>7. /\ \A s \in ToSet(list) :
           /\ Meets(s.k) /\ s.k + s.m = n
           /\ s.ec_type \in XorNames => HammingDistance(s.ec_type, s.m) = f + 1
      /\ \A k \in 1 .. n : Exceeds(k) =>
           Found(k, "jerasure_rs_vand") /\ Found(k, "jerasure_rs_cauchy")
      /\ \A k \in 1 .. n, t \in {"flat_xor_hd_3", "flat_xor_hd_4"} :
           /\ Exceeds(k) /\ HammingDistance(t, n - k) = f + 1
           /\ k \in 6 .. 15 /\ n - k = 6
           => Found(k, t)
  BY <1>3, <1>5, <1>6
<1> QED BY <1>7, Zenon DEF Asked, Meets, Exceeds, Found, list

LEMMA ToolMeets == ToolInv => SchemesMeetRequest
<1> SUFFICES ASSUME ToolInv, ending \notin {"start", "exit 1", "off"}
             PROVE  Asked(schemes, request.n, request.f, request.r[1], request.r[2])
  BY Zenon DEF SchemesMeetRequest, Asked
<1>1. /\ request.n \in Int /\ request.f \in Int
      /\ request.r[1] \in Int /\ request.r[2] \in Nat \ {0}
  BY RequestsAssumption DEF ToolInv
<1>2. PICK low \in MinKs(request.n, request.r) :
        schemes = Viable(request.n, low, request.f)
  BY DEF ToolInv
<1>3. Asked(Viable(request.n, low, request.f), request.n, request.f,
            request.r[1], request.r[2])
  BY <1>1, ViableIsAsked, Zenon
<1> QED BY <1>2, <1>3, Zenon

\* get_viable_schemes lists what was asked for, all of it, for every number of
\* fragments, rate and tolerance (tools/pyeclib_conf_tool.py:140-204).
THEOREM SchemesAreViable == ToolSpec => []SchemesMeetRequest
BY ToolInvariance, ToolMeets, PTL

-----------------------------------------------------------------------------
(* The three programs, one of them in each behaviour.                        *)

LEMMA OffStaysOff ==
  /\ BackendOff /\ [BackendNext]_cliVars => UNCHANGED cliVars
  /\ ToolOff /\ [ToolNext]_toolVars => UNCHANGED toolVars
  /\ WheelOff /\ [WheelNext]_wheelVars => UNCHANGED wheelVars
<1>1. BackendOff => ~BackendNext
  <2> SUFFICES ASSUME BackendOff, BackendNext PROVE FALSE
    OBVIOUS
  <2>1. types = {} /\ exit = Running /\ cli.command = "none"
    BY DEF BackendOff, Plain
  <2>2. types # {"main"} /\ ~Walking
    BY <2>1 DEF Walking
  <2> QED BY <2>1, <2>2
          DEF BackendNext, NoCommand, Version, List, Check, Main, ExpandTypes, SkipType,
              VerifyType, VerifyExit, BenchType, BenchExit
<1>2. ToolOff => ~ToolNext
  BY DEF ToolOff, ToolNext, TooLarge, get_viable_schemes, NotDefined, EncodeStr,
         SortResults, Trying
<1>3. WheelOff => ~WheelNext
  <2> SUFFICES ASSUME stage = "ended", WheelNext PROVE FALSE
    BY DEF WheelOff
  <2>1. "ended" \notin LibNames
    BY LibNamesAre DEF Four
  <2>2. ~InjectLib /\ ~Raise /\ ~Kill
    BY <2>1 DEF InjectLib, Raise, Kill
  <2> QED
    BY <2>2, Zenon
    DEF WheelNext, BuildWheel, Unpack, NoIsal, rebuild_dist_info_record, build_zip,
        RemoveUnpacked, repair_wheel, Move, fix_ownership, RemoveBuilt
<1> QED BY <1>1, <1>2, <1>3

\* The invariants of the three programs, of which two are off.
ProgramsInv ==
  /\ BackendOff \/ (BInv /\ BenchInv)
  /\ ToolOff \/ ToolInv
  /\ WheelOff \/ WInv

LEMMA InitProgramsInv == Init => ProgramsInv
<1>1. BackendInit => BInv /\ BenchInv
  <2>1. BackendInit => BenchInv
    BY DEF BackendInit, Running, BenchInv,
           BenchSampleSuffices
  <2> QED BY <2>1, InitBInv
<1> QED BY <1>1, InitToolInv, WheelInitInv DEF Init, ProgramsInv

\* Each program's own step keeps its invariant, and no step is of a program
\* that is off.
LEMMA NextProgramsInv ==
  ProgramsInv /\ [Next]_<<cliVars, toolVars, wheelVars>> => ProgramsInv'
<1> SUFFICES ASSUME ProgramsInv, [Next]_<<cliVars, toolVars, wheelVars>>
             PROVE  ProgramsInv'
  OBVIOUS
<1>1. [BackendNext]_cliVars /\ [ToolNext]_toolVars /\ [WheelNext]_wheelVars
  BY DEF Next, cliVars, toolVars, wheelVars
<1>2. (BackendOff \/ (BInv /\ BenchInv))'
  <2>1. CASE BackendOff
    <3>1. UNCHANGED cliVars
      BY <1>1, <2>1, OffStaysOff
    <3> QED BY <2>1, <3>1 DEF BackendOff, cliVars
  <2>2. CASE BInv /\ BenchInv
    <3>1. BInv'
      BY <1>1, <2>2, VerifyTypeInv, OthersInv
    <3> QED BY <1>1, <2>2, <3>1, BenchStep
  <2> QED BY <2>1, <2>2 DEF ProgramsInv
<1>3. (ToolOff \/ ToolInv)'
  <2>1. CASE ToolOff
    <3>1. UNCHANGED toolVars
      BY <1>1, <2>1, OffStaysOff
    <3> QED BY <2>1, <3>1 DEF ToolOff, toolVars
  <2> QED BY <1>1, <2>1, NextToolInv DEF ProgramsInv
<1>4. (WheelOff \/ WInv)'
  <2>1. CASE WheelOff
    <3>1. UNCHANGED wheelVars
      BY <1>1, <2>1, OffStaysOff
    <3> QED BY <2>1, <3>1 DEF WheelOff, wheelVars
  <2>2. CASE WInv
    <3>1. WInv'
      BY <1>1, <2>2, NextTree, NextFiles, NextDirs, NextRest DEF WInv
    <3> QED BY <3>1
  <2> QED BY <2>1, <2>2 DEF ProgramsInv
<1> QED BY <1>2, <1>3, <1>4 DEF ProgramsInv

THEOREM ProgramsInvariance == Spec => []ProgramsInv
BY InitProgramsInv, NextProgramsInv, PTL DEF Spec

\* Whichever of the programs runs, its state is well formed and the others stay
\* as they are.
THEOREM ProgramsAreTyped == Spec => []ProgramsTypeOK
<1>1. ProgramsInv => ProgramsTypeOK
  <2> SUFFICES ASSUME ProgramsInv PROVE ProgramsTypeOK
    OBVIOUS
  <2>1. BackendOff => BackendTypeOK
    BY DEF BackendOff, Running, Clean, BackendTypeOK
  <2>2. BInv => BackendTypeOK
    BY DEF BInv
  <2>3. ToolOff \/ ToolInv => ending = "off" \/ ToolTypeOK
    BY ToolTyped DEF ToolOff
  <2>4. WheelOff \/ WInv => opts = <<>> \/ WheelTypeOK
    BY DEF WheelOff, WInv, WheelTypeOK, TreeOK, DirsOK
  <2> QED BY <2>1, <2>2, <2>3, <2>4 DEF ProgramsInv, ProgramsTypeOK
<1> QED BY <1>1, ProgramsInvariance, PTL

\* What is proved of each program holds of the composition too, where it is
\* one of three.
THEOREM ProgramsKeepTheirPromises ==
  Spec => []( /\ VerifyExitTruthful /\ BenchSampleSuffices
              /\ SchemesMeetRequest
              /\ WheelComplete /\ TempLeftOnlyIfInterrupted )
<1>1. ProgramsInv => VerifyExitTruthful /\ BenchSampleSuffices
  <2>1. BackendOff => VerifyExitTruthful /\ BenchSampleSuffices
    BY DEF BackendOff, Plain, Running, VerifyExitTruthful, BenchSampleSuffices
  <2> QED BY <2>1 DEF ProgramsInv, BInv, BenchInv
<1>2. ProgramsInv => SchemesMeetRequest
  <2>1. ToolOff => SchemesMeetRequest
    BY DEF ToolOff, SchemesMeetRequest
  <2> QED BY <2>1, ToolMeets DEF ProgramsInv
<1>3. ProgramsInv => WheelComplete /\ TempLeftOnlyIfInterrupted
  <2>1. WheelOff => WheelComplete /\ TempLeftOnlyIfInterrupted
    BY DEF WheelOff, NoFile, Packed, WheelComplete, TempLeftOnlyIfInterrupted
  <2>2. WInv => WheelComplete /\ TempLeftOnlyIfInterrupted
    BY LibNamesAre
       DEF WInv, FilesOK, WheelComplete, DirsOK, Excused, TempLeftOnlyIfInterrupted,
           Unpacked, Four
  <2> QED BY <2>1, <2>2 DEF ProgramsInv
<1> QED BY <1>1, <1>2, <1>3, ProgramsInvariance, PTL

=============================================================================
