---------------------------- MODULE BackendProofs ----------------------------
(***************************************************************************)
(* Proofs about Backend: the exit status of verify sums up what came of    *)
(* the codes, for every command line, whatever backends are loaded and     *)
(* whatever they give back; bench samples fragments that can be decoded.   *)
(***************************************************************************)
EXTENDS Backend, FiniteSetTheorems, TLAPS

\* What the totals say so far.
TallyOK ==
  exit.error = "none" /\ cli.command = "verify" =>
    /\ tally.corrupt => \E d \in made : d.ec_type \in Faulty
    /\ tally.failures => \E d \in made : \E t \in Trials(d) : ~Sure(d, t)
    /\ cli.iterations = "all" /\ ~tally.failures =>
         \A d \in made : \A t \in Trials(d) : May(d, t)

BInv == BackendTypeOK /\ TallyOK /\ VerifyExitTruthful

LEMMA InitBInv == BackendInit => BInv
BY DEF BackendInit, BInv, BackendTypeOK, TallyOK, VerifyExitTruthful, Running, Clean

LEMMA VerifyTypeInv == BInv /\ VerifyType => BInv'
<1> SUFFICES ASSUME BInv, VerifyType PROVE BInv'
  OBVIOUS
<1> USE DEF BInv
<1> DEFINE d == Driver(ArgumentsFor(ThisType))
<1>1. /\ exit = Running /\ cli.command = "verify" /\ cli' = cli /\ loaded' = loaded
      /\ made' = made \cup {d}
  BY DEF VerifyType, Walking
<1>2. CASE Traceback("ValueError") /\ UNCHANGED <<types, tally>>
  <2>1. exit' = [status |-> 1, error |-> "ValueError"] /\ tally' = tally
    BY <1>2 DEF Traceback
  <2> QED BY <2>1 DEF BackendTypeOK, TallyOK, VerifyExitTruthful
<1>3. ASSUME NEW now \in Outcomes(d), tally' = Totals(now), exit' = exit
      PROVE  BInv'
  <2>1. PICK tried \in Tried(d) :
          /\ now.failures => \E t \in tried : ~Sure(d, t)
          /\ now.failures \/ \A t \in tried : May(d, t)
          /\ now.corrupt => d.ec_type \in Faulty /\ \E t \in tried : May(d, t)
    BY DEF Outcomes
  <2>2. /\ tried \subseteq Trials(d)
        /\ cli.iterations = "all" => tried = Trials(d)
    BY DEF Tried
  <2>3. now \in [failures: BOOLEAN, corrupt: BOOLEAN]
    BY DEF Outcomes
  <2>4. /\ tally'.failures <=> tally.failures \/ now.failures
        /\ tally'.corrupt <=> tally.corrupt \/ now.corrupt
        /\ tally' \in [failures: BOOLEAN, corrupt: BOOLEAN]
    BY <1>3, <2>3 DEF Totals, BackendTypeOK
  <2>5. BackendTypeOK'
    BY <1>3, <2>4 DEF BackendTypeOK
  <2>6. exit'.error = "none" /\ exit'.status = -1
    BY <1>1, <1>3 DEF Running
  <2>7. TallyOK'
    <3>1. /\ tally.corrupt => \E e \in made : e.ec_type \in Faulty
          /\ tally.failures => \E e \in made : \E t \in Trials(e) : ~Sure(e, t)
          /\ cli.iterations = "all" /\ ~tally.failures =>
               \A e \in made : \A t \in Trials(e) : May(e, t)
      BY <1>1 DEF TallyOK, Running
    <3>2. \A e : Trials(e)' = Trials(e)
      BY <1>1 DEF Trials
    <3> HIDE DEF d
    <3> QED BY <1>1, <2>1, <2>2, <2>4, <3>1, <3>2 DEF TallyOK
  <2> QED BY <2>5, <2>6, <2>7 DEF VerifyExitTruthful
<1> QED BY <1>2, <1>3 DEF VerifyType

LEMMA OthersInv == BInv /\ [BackendNext /\ ~VerifyType]_cliVars => BInv'
<1> SUFFICES ASSUME BInv, [BackendNext /\ ~VerifyType]_cliVars PROVE BInv'
  OBVIOUS
<1> USE DEF BInv
\* What is said of a driver is said of the arguments, which never change.
<1>1. ASSUME cli' = cli, made' = made, tally' = tally
      PROVE  /\ exit'.error = "none" => exit.error = "none"
             /\ TallyOK
             => TallyOK'
  <2>1. \A e : Trials(e)' = Trials(e)
    BY <1>1 DEF Trials
  <2> QED BY <1>1, <2>1 DEF TallyOK
<1>2. CASE NoCommand
  <2>1. exit' = [status |-> 2, error |-> "none"] /\ cli' = cli /\ cli.command = "none" /\ tally' = tally
    BY <1>2 DEF NoCommand, Main, Return
  <2> QED BY <2>1 DEF BackendTypeOK, TallyOK, VerifyExitTruthful
<1>3. CASE Version
  <2>1. exit' = [status |-> 0, error |-> "none"] /\ cli' = cli /\ cli.command = "version" /\ tally' = tally
    BY <1>3 DEF Version, Main, Return
  <2> QED BY <2>1 DEF BackendTypeOK, TallyOK, VerifyExitTruthful
<1>4. CASE List
  <2>1. /\ exit' \in {[status |-> n, error |-> "none"] : n \in {0, 1}}
        /\ cli' = cli /\ cli.command = "list" /\ tally' = tally
    BY <1>4 DEF List, Main, Return
  <2> QED BY <2>1 DEF BackendTypeOK, TallyOK, VerifyExitTruthful
<1>5. CASE Check
  <2>1. /\ exit' \in {[status |-> n, error |-> "none"] : n \in {0, 1, 2}}
        /\ cli' = cli /\ cli.command = "check" /\ tally' = tally
    BY <1>5 DEF Check, Main, Return
  <2> QED BY <2>1 DEF BackendTypeOK, TallyOK, VerifyExitTruthful
<1>6. CASE ExpandTypes \/ SkipType
  <2>1. /\ cli' = cli /\ made' = made /\ tally' = tally /\ exit' = exit
        /\ exit = Running
    BY <1>6 DEF ExpandTypes, SkipType, Walking
  <2>2. exit'.status = -1 /\ exit'.error = "none"
    BY <2>1 DEF Running
  <2> QED BY <1>1, <2>1, <2>2 DEF BackendTypeOK, VerifyExitTruthful
<1>7. CASE VerifyExit
  <2>1. /\ exit = Running /\ cli.command = "verify"
        /\ cli' = cli /\ made' = made /\ tally' = tally
        /\ exit' = [status |-> IF tally.corrupt THEN 3 ELSE IF tally.failures THEN 1 ELSE 0,
                    error |-> "none"]
    BY <1>7 DEF VerifyExit, Return
  <2>2. exit.error = "none" /\ exit'.error = "none"
    BY <2>1 DEF Running
  <2>3. TallyOK'
    BY <1>1, <2>1, <2>2
  <2>4. BackendTypeOK'
    BY <2>1 DEF BackendTypeOK
  <2>5. VerifyExitTruthful'
    <3>1. /\ exit'.status = 3 => tally'.corrupt
          /\ exit'.status = 1 => tally'.failures
          /\ exit'.status = 0 => ~tally'.failures
      BY <2>1 DEF BackendTypeOK
    <3> QED BY <2>1, <2>2, <2>3, <3>1 DEF TallyOK, VerifyExitTruthful
  <2> QED BY <2>3, <2>4, <2>5
<1>8. CASE BenchType
  <2>1. /\ cli' = cli /\ cli.command = "bench" /\ tally' = tally
        /\ exit' \in {exit} \cup {[status |-> 1, error |-> e] : e \in {"ValueError", "ECDriverError"}}
    BY <1>8 DEF BenchType, Traceback
  <2> QED BY <2>1 DEF BackendTypeOK, TallyOK, VerifyExitTruthful
<1>9. CASE BenchExit
  <2>1. exit' = [status |-> 0, error |-> "none"] /\ cli' = cli /\ cli.command = "bench" /\ tally' = tally
    BY <1>9 DEF BenchExit, Return
  <2> QED BY <2>1 DEF BackendTypeOK, TallyOK, VerifyExitTruthful
<1>10. CASE UNCHANGED cliVars
  <2>1. cli' = cli /\ made' = made /\ tally' = tally /\ exit' = exit
    BY <1>10 DEF cliVars
  <2>2. \A e : Trials(e)' = Trials(e)
    BY <2>1 DEF Trials
  <2> QED BY <1>1, <2>1, <2>2 DEF BackendTypeOK, VerifyExitTruthful
<1> QED BY <1>2, <1>3, <1>4, <1>5, <1>6, <1>7, <1>8, <1>9, <1>10 DEF BackendNext

\* The invariant of the command line program: until it ends, its totals are
\* those of the drivers verified so far.
THEOREM BackendInvariance == BackendSpec => []BInv
<1>1. BInv /\ [BackendNext]_cliVars => BInv'
  BY VerifyTypeInv, OthersInv
<1> QED BY InitBInv, <1>1, PTL DEF BackendSpec

\* Every reachable state is well formed.
THEOREM BackendTypes == BackendSpec => []BackendTypeOK
<1>1. BInv => BackendTypeOK
  BY DEF BInv
<1> QED BY BackendInvariance, <1>1, PTL

\* verify's exit status says what came of the codes, however many are walked
\* over, whichever libraries are faulty (cli/verify.py:106-110).
THEOREM VerifyIsTruthful == BackendSpec => []VerifyExitTruthful
<1>1. BInv => VerifyExitTruthful
  BY DEF BInv
<1> QED BY BackendInvariance, <1>1, PTL

-----------------------------------------------------------------------------
(* bench samples fragments that can be decoded.                            *)

\* A set of at most eight numbers has a smallest one.
LEMMA SmallestOfEight ==
  ASSUME NEW S, S \subseteq 1..8, S # {}
  PROVE  \E x \in S : \A y \in S : x <= y
<1>1. PICK z \in S : z \in 1..8
  OBVIOUS
<1>2. CASE 1 \in S
  BY <1>2
<1>3. CASE 1 \notin S /\ 2 \in S
  BY <1>3
<1>4. CASE 1 \notin S /\ 2 \notin S /\ 3 \in S
  BY <1>4
<1>5. CASE 1 \notin S /\ 2 \notin S /\ 3 \notin S /\ 4 \in S
  BY <1>5
<1>6. CASE 1 \notin S /\ 2 \notin S /\ 3 \notin S /\ 4 \notin S /\ 5 \in S
  BY <1>6
<1>7. CASE 1 \notin S /\ 2 \notin S /\ 3 \notin S /\ 4 \notin S /\ 5 \notin S /\ 6 \in S
  BY <1>7
<1>8. CASE 1 \notin S /\ 2 \notin S /\ 3 \notin S /\ 4 \notin S /\ 5 \notin S /\ 6 \notin S /\ 7 \in S
  BY <1>8
<1>9. CASE 1 \notin S /\ 2 \notin S /\ 3 \notin S /\ 4 \notin S /\ 5 \notin S /\ 6 \notin S /\ 7 \notin S /\ 8 \in S
  BY <1>9
<1> QED BY <1>1, <1>2, <1>3, <1>4, <1>5, <1>6, <1>7, <1>8, <1>9

\* What d.k and the others are for a name that may be tried.
LEMMA TriedDriver ==
  ASSUME NEW t, MayTry(t), cli.k \in Int, cli.m \in Int, cli.l \in Int
  PROVE  LET d == Driver(ArgumentsFor(t))
         IN  /\ d.k = cli.k /\ d.m = cli.m /\ d.local_parity = cli.l
             /\ cli.k \in Nat \ {0} /\ cli.m \in Nat \ {0}
             /\ d.ec_type = "flat_xor_hd" => d.hd \in Nat /\ d.m >= d.hd - 1
<1> DEFINE a == ArgumentsFor(t)
           d == Driver(a)
           refused == {i \in 1..8 : Checks(a)[i][1]}
<1>1. /\ a.ec_type = t /\ a.k = cli.k /\ a.m = cli.m /\ a.local_parity = cli.l
  BY DEF ArgumentsFor
<1>2. t \in ALL_EC_TYPES /\ Verdict(a) = "ok" /\ Makeable(d)
  BY DEF MayTry, VALID_EC_TYPES
<1>3. Looked(t)
  BY <1>2, NotGiven DEF ALL_EC_TYPES, PyECLib_EC_Types, XorNames, Looked
<1> HIDE DEF a
<1>4. /\ d.k = cli.k /\ d.m = cli.m /\ d.local_parity = cli.l
      /\ d.ec_type = BackendOf(t) /\ d.hd = HammingDistance(t, cli.m)
  BY <1>1, <1>3 DEF Driver
<1>5. ~Checks(a)[2][1]
  <2>1. CASE refused = {}
    BY <2>1
  <2>2. CASE refused # {}
    <3>1. Min(refused) \in refused
      <4>1. refused \subseteq 1..8
        OBVIOUS
      <4> HIDE DEF refused
      <4>2. \E x \in refused : \A y \in refused : x <= y
        BY <2>2, <4>1, SmallestOfEight
      <4> QED BY <4>2 DEF Min
    <3>2. \A i \in 1..8 : Checks(a)[i][2] # "ok"
      BY DEF Checks
    <3>3. Verdict(a) = Checks(a)[Min(refused)][2]
      BY <2>2 DEF Verdict
    <3> QED BY <1>2, <3>1, <3>2, <3>3
  <2> QED BY <2>1, <2>2
<1>6. ~NotPositive(cli.k) /\ ~NotPositive(cli.m)
  BY <1>1, <1>5 DEF Checks
<1>7. cli.k \in Nat \ {0} /\ cli.m \in Nat \ {0}
  BY <1>6 DEF NotPositive, IsPositive
<1>8. d.ec_type = "flat_xor_hd" => d.hd \in Nat /\ d.m >= d.hd - 1
  <2>1. ASSUME BackendOf(t) = "flat_xor_hd" PROVE HammingDistance(t, cli.m) \in Nat
    <3>1. t \in XorNames
      BY <2>1 DEF BackendOf, XorNames
    <3> QED BY <3>1 DEF XorNames, HammingDistance
  <2>2. d.ec_type = "flat_xor_hd" => d.m >= d.hd - 1
    BY <1>2 DEF Makeable
  <2> HIDE DEF d
  <2> QED BY <1>4, <2>1, <2>2
<1> QED BY <1>4, <1>7, <1>8 DEF a

\* A sample of n data fragments D and p parities P of driver d, counted.
Counted(d, n, p, D, P) ==
  /\ D \subseteq DataIndexes(d) /\ P \subseteq d.k .. d.k + d.m - 1
  /\ IsFiniteSet(D) /\ IsFiniteSet(P) /\ IsFiniteSet(DataIndexes(d))
  /\ Cardinality(D) = n /\ Cardinality(P) = p /\ n \in Nat /\ p \in Nat
  /\ Cardinality(D \cup P) = n + p
  /\ Cardinality(DataIndexes(d) \ D) = d.k - n
  /\ n = d.k => D = DataIndexes(d)
  /\ p = d.m => P = d.k .. d.k + d.m - 1

LEMMA SampleSizes ==
  ASSUME NEW d, d.k \in Nat \ {0}, d.m \in Nat \ {0}, NEW n \in Int, NEW p \in Int,
         NEW D \in kSubset(n, DataIndexes(d)),
         NEW P \in kSubset(p, Indexes(d) \ DataIndexes(d))
  PROVE  Counted(d, n, p, D, P)
<1> DEFINE Data == 0 .. d.k - 1
           Parities == d.k .. d.k + d.m - 1
<1>1. DataIndexes(d) = Data /\ Indexes(d) \ DataIndexes(d) = Parities
  BY DEF DataIndexes, Indexes
<1>2. IsFiniteSet(Data) /\ Cardinality(Data) = d.k
  <2>1. 0 \in Int /\ d.k - 1 \in Int /\ ~(0 > d.k - 1) /\ (d.k - 1) - 0 + 1 = d.k
    OBVIOUS
  <2> QED BY <2>1, FS_Interval
<1>3. IsFiniteSet(Parities) /\ Cardinality(Parities) = d.m
  <2>1. /\ d.k \in Int /\ d.k + d.m - 1 \in Int /\ ~(d.k > d.k + d.m - 1)
        /\ (d.k + d.m - 1) - d.k + 1 = d.m
    OBVIOUS
  <2> QED BY <2>1, FS_Interval
<1>4. D \in SUBSET Data /\ Cardinality(D) = n /\ P \in SUBSET Parities /\ Cardinality(P) = p
  BY <1>1 DEF kSubset
<1>5. D \cap P = {} /\ Data \cap D = D
  <2>1. \A i \in D : i \in Int /\ i < d.k
    BY <1>4
  <2>2. \A i \in P : i \in Int /\ i >= d.k
    BY <1>4
  <2>3. \A i \in Int : ~(i < d.k /\ i >= d.k)
    OBVIOUS
  <2> HIDE DEF Data, Parities
  <2> QED BY <1>4, <2>1, <2>2, <2>3
<1> HIDE DEF Data, Parities
<1>6. IsFiniteSet(D) /\ (n = d.k => D = Data)
  BY <1>2, <1>4, FS_Subset
<1>7. IsFiniteSet(P) /\ (p = d.m => P = Parities)
  BY <1>3, <1>4, FS_Subset
<1>8. n \in Nat /\ p \in Nat
  BY <1>4, <1>6, <1>7, FS_CardinalityType
<1>9. Cardinality(D \cup P) = n + p
  <2>1. Cardinality(D \cap P) = 0
    BY <1>5, FS_EmptySet
  <2>2. Cardinality(D \cup P) = Cardinality(D) + Cardinality(P) - Cardinality(D \cap P)
    BY <1>6, <1>7, FS_Union
  <2> QED BY <1>4, <1>8, <2>1, <2>2
<1>10. Cardinality(Data \ D) = d.k - n
  <2>1. Cardinality(Data \ D) = Cardinality(Data) - Cardinality(Data \cap D)
    BY <1>2, FS_Difference
  <2> QED BY <1>2, <1>4, <1>5, <2>1
<1> QED BY <1>1, <1>2, <1>4, <1>6, <1>7, <1>8, <1>9, <1>10 DEF Parities, Counted

\* Of l groups, one lost data: the groups whose local parity is at hand and of
\* no use are fewer than l, so that u + l - 1 parities mend u losses.
LEMMA LrcSampleSuffices ==
  ASSUME NEW d, d.k \in Nat \ {0}, NEW u \in Nat \ {0},
         d.local_parity \in Nat \ {0},
         NEW D, D \subseteq DataIndexes(d), NEW P, IsFiniteSet(P),
         \A i \in P : i \in Int /\ i >= d.k,
         IsFiniteSet(DataIndexes(d)), Cardinality(DataIndexes(d) \ D) = u,
         Cardinality(P) = u + d.local_parity - 1
  PROVE  LrcRecovers(d, D \cup P)
<1> DEFINE l == d.local_parity
           S == D \cup P
           Missing == DataIndexes(d) \ D
           Mended == {g \in 0 .. l - 1 : d.k + g \in S /\ \E i \in Missing : i % l = g}
           Globals == {i \in S : i >= d.k + l}
           Locals == {i \in P : i < d.k + l}
           Held == {g \in 0 .. l - 1 : d.k + g \in P}
<1>1. \A i \in D : i \in Nat /\ i < d.k
  BY DEF DataIndexes
<1>2. DataIndexes(d) \ S = Missing
  BY DEF DataIndexes
<1>3. Globals = P \ Locals
  BY <1>1
<1>4. Mended = {g \in Held : \E i \in Missing : i % l = g}
  BY <1>1
<1>5. IsFiniteSet(0 .. l - 1) /\ Cardinality(0 .. l - 1) = l
  <2>1. 0 \in Int /\ l - 1 \in Int /\ ~(0 > l - 1) /\ (l - 1) - 0 + 1 = l
    OBVIOUS
  <2> QED BY <2>1, FS_Interval
<1>6. PICK g \in 0 .. l - 1 : \E i \in Missing : i % l = g
  <2>1. Missing # {}
    <3>1. Cardinality({}) = 0
      BY FS_EmptySet
    <3> QED BY <3>1
  <2>2. PICK i \in Missing : i \in Nat
    BY <2>1 DEF DataIndexes
  <2>3. i % l \in 0 .. l - 1
    BY <2>2
  <2> QED BY <2>2, <2>3
<1>7. Held \ Mended \subseteq (0 .. l - 1) \ {g}
  BY <1>4, <1>6
<1>8. Locals \in SUBSET P /\ Mended \in SUBSET Held /\ Held \in SUBSET (0 .. l - 1)
  BY <1>4
<1>9. [i \in Locals |-> i - d.k] \in Injection(Locals, Held)
  BY DEF Injection, IsInjective
<1>10. LrcRecovers(d, S) <=>
         Cardinality(Missing) - Cardinality(Mended) <= Cardinality(Globals)
  BY <1>2 DEF LrcRecovers
<1> HIDE DEF l, S, Missing, Mended, Globals, Locals, Held
<1>11. /\ IsFiniteSet(Held) /\ IsFiniteSet(Mended) /\ IsFiniteSet(Locals)
       /\ IsFiniteSet(Globals)
  BY <1>3, <1>5, <1>8, FS_Subset, FS_Difference
<1>12. /\ Cardinality(Held) \in Nat /\ Cardinality(Mended) \in Nat
       /\ Cardinality(Locals) \in Nat /\ Cardinality(Globals) \in Nat
       /\ Cardinality(Held \ Mended) \in Nat
  <2>1. IsFiniteSet(Held \ Mended)
    BY <1>11, FS_Difference
  <2> QED BY <1>11, <2>1, FS_CardinalityType
<1>13. Cardinality(Locals) <= Cardinality(Held)
  BY <1>9, <1>11, FS_Injection
<1>14. Cardinality(Held \ Mended) = Cardinality(Held) - Cardinality(Mended)
  <2>1. Held \cap Mended = Mended
    BY <1>8
  <2> QED BY <1>11, <2>1, FS_Difference
<1>15. Cardinality(Held \ Mended) <= l - 1
  <2>1. IsFiniteSet((0 .. l - 1) \ {g}) /\ Cardinality((0 .. l - 1) \ {g}) = l - 1
    <3> DEFINE I == 0 .. l - 1
    <3>1. IsFiniteSet(I) /\ Cardinality(I) = l /\ g \in I
      BY <1>5, <1>6
    <3> HIDE DEF I
    <3>2. IsFiniteSet(I \ {g}) /\ Cardinality(I \ {g}) = l - 1
      BY <3>1, FS_RemoveElement
    <3> QED BY <3>2 DEF I
  <2>2. Held \ Mended \in SUBSET ((0 .. l - 1) \ {g})
    BY <1>7
  <2> QED BY <2>1, <2>2, FS_Subset
<1>16. Cardinality(Missing) = u /\ l \in Nat
  BY DEF Missing, l
<1>17. Cardinality(Globals) = u + l - 1 - Cardinality(Locals)
  <2>1. P \cap Locals = Locals
    BY <1>8
  <2>2. Cardinality(P \ Locals) = Cardinality(P) - Cardinality(P \cap Locals)
    BY FS_Difference
  <2>3. Cardinality(P) = u + l - 1
    BY DEF l
  <2>4. Cardinality(Globals) = Cardinality(P) - Cardinality(Locals)
    BY <1>3, <2>1, <2>2, Zenon
  <2> QED BY <1>12, <1>16, <2>3, <2>4
<1>18. Cardinality(Missing) - Cardinality(Mended) <= Cardinality(Globals)
  BY <1>12, <1>13, <1>14, <1>15, <1>16, <1>17
<1> QED BY <1>10, <1>18 DEF S

\* Every sample bench takes is enough, but for XOR codes whose distance is less
\* than what is missing and for an LRC without local parities.
LEMMA SamplesSuffice ==
  ASSUME NEW t, MayTry(t),
         cli.k \in Int, cli.m \in Int, cli.l \in Int, cli.u \in Int,
         NEW d, d = Driver(ArgumentsFor(t)), NEW S \in Samples(d),
         d.ec_type = "flat_xor_hd" => cli.u < d.hd,
         d.ec_type = "isa_l_rs_lrc" => cli.l > 0
  PROVE  Recovers(d, S)
<1>1. /\ d.k = cli.k /\ d.m = cli.m /\ d.local_parity = cli.l
      /\ d.k \in Nat \ {0} /\ d.m \in Nat \ {0}
      /\ d.ec_type = "flat_xor_hd" => d.hd \in Nat /\ d.m >= d.hd - 1
  BY TriedDriver
<1>2. PICK n \in Int, p \in Int : n = d.k - cli.u /\ p = ParitySample(d)
  BY <1>1 DEF ParitySample
<1>3. PICK D \in kSubset(n, DataIndexes(d)), P \in kSubset(p, Indexes(d) \ DataIndexes(d)) :
        S = D \cup P
  <2>1. PICK s \in kSubset(n, DataIndexes(d)) \X kSubset(p, Indexes(d) \ DataIndexes(d)) :
          S = s[1] \cup s[2]
    BY <1>2 DEF Samples
  <2> QED BY <2>1
<1>4. /\ D \subseteq DataIndexes(d) /\ P \subseteq d.k .. d.k + d.m - 1
      /\ IsFiniteSet(D) /\ IsFiniteSet(P) /\ IsFiniteSet(DataIndexes(d))
      /\ Cardinality(D) = n /\ Cardinality(P) = p /\ n \in Nat /\ p \in Nat
      /\ Cardinality(D \cup P) = n + p
      /\ Cardinality(DataIndexes(d) \ D) = d.k - n
      /\ n = d.k => D = DataIndexes(d)
      /\ p = d.m => P = d.k .. d.k + d.m - 1
  <2>1. d.k \in Nat \ {0} /\ d.m \in Nat \ {0}
    BY <1>1
  <2>2. Counted(d, n, p, D, P)
    BY <2>1, SampleSizes
  <2> QED BY <2>2, Zenon DEF Counted
<1>5. d.k - n = cli.u /\ cli.u \in Int
  BY <1>1, <1>2
<1>6. CASE d.ec_type = "flat_xor_hd"
  <2>1. p = d.m
    BY <1>2, <1>6 DEF ParitySample
  <2>2. P = d.k .. d.k + d.m - 1
    BY <1>4, <2>1
  <2>3. Indexes(d) \ S = DataIndexes(d) \ D
    <3>1. \A i : i \in Indexes(d) /\ i \notin P <=> i \in DataIndexes(d)
      BY <1>1, <2>2 DEF Indexes, DataIndexes
    <3> QED BY <1>3, <3>1
  <2>4. Cardinality(Indexes(d) \ S) = cli.u
    BY <1>4, <1>5, <2>3, Zenon
  <2>5. Cardinality(S) = n + d.m
    BY <1>3, <1>4, <2>1, Zenon
  <2>6. cli.u < d.hd /\ n + d.m >= d.k
    BY <1>1, <1>4, <1>5, <1>6
  <2> QED BY <1>6, <2>4, <2>5, <2>6 DEF Recovers
<1>7. CASE d.ec_type = "isa_l_rs_lrc"
  <2>1. p = cli.u + d.local_parity - 1 /\ d.local_parity \in Nat \ {0}
    BY <1>1, <1>2, <1>7 DEF ParitySample
  <2>2. CASE cli.u = 0
    <3>1. n = d.k
      BY <1>1, <1>5, <2>2, <1>4
    <3>2. DataIndexes(d) \subseteq S
      BY <1>3, <1>4, <3>1
    <3> QED BY <3>2 DEF Recovers
  <2>3. CASE cli.u # 0
    <3>1. cli.u \in Nat
      <4>1. IsFiniteSet(DataIndexes(d) \ D)
        BY <1>4, FS_Difference
      <4>2. Cardinality(DataIndexes(d) \ D) \in Nat
        BY <4>1, FS_CardinalityType
      <4> QED BY <1>4, <1>5, <4>2
    <3>2. cli.u \in Nat \ {0}
      BY <2>3, <3>1
    <3>3. \A i \in P : i \in Int /\ i >= d.k
      BY <1>1, <1>4
    <3>4. Cardinality(DataIndexes(d) \ D) = cli.u
      BY <1>4, <1>5, Zenon
    <3>5. Cardinality(P) = cli.u + d.local_parity - 1
      BY <1>4, <2>1, Zenon
    <3>6. LrcRecovers(d, D \cup P)
      BY <1>1, <1>4, <2>1, <3>2, <3>3, <3>4, <3>5, LrcSampleSuffices
    <3>7. d.local_parity > 0
      BY <2>1
    <3> QED BY <1>3, <1>7, <3>6, <3>7 DEF Recovers
  <2> QED BY <2>2, <2>3
<1>8. CASE d.ec_type \notin {"flat_xor_hd", "isa_l_rs_lrc"}
  <2>1. p = cli.u
    BY <1>2, <1>8 DEF ParitySample
  <2>2. n + p = d.k
    BY <1>1, <1>5, <1>4, <2>1
  <2>3. Cardinality(S) = d.k
    BY <1>3, <1>4, <2>2, Zenon
  <2> QED BY <1>1, <1>8, <2>3 DEF Recovers
<1> QED BY <1>6, <1>7, <1>8

BenchInv == cli \in CommandLines /\ BenchSampleSuffices

LEMMA BenchStep == BenchInv /\ [BackendNext]_cliVars => BenchInv'
<1> SUFFICES ASSUME BenchInv, [BackendNext]_cliVars PROVE BenchInv'
  OBVIOUS
<1>1. cli' = cli /\ loaded' = loaded
  BY DEF BackendNext, cliVars, NoCommand, Version, List, Check, ExpandTypes, SkipType,
         VerifyType, VerifyExit, BenchType, BenchExit
<1>2. CASE exit'.error # "ECDriverError"
  BY <1>1, <1>2 DEF BenchInv, BenchSampleSuffices
<1>3. CASE exit'.error = "ECDriverError" /\ UNCHANGED cliVars
  <2>1. types' = types /\ exit' = exit
    BY <1>3 DEF cliVars
  <2> QED BY <1>1, <1>3, <2>1
          DEF BenchInv, BenchSampleSuffices, ThisType, ArgumentsFor
<1>4. CASE exit'.error = "ECDriverError" /\ BackendNext
  <2>1. BenchType
    BY <1>4 DEF BackendNext, NoCommand, Version, List, Check, Main, ExpandTypes, SkipType,
                Walking, VerifyType, VerifyExit, BenchExit, Return, Traceback, Running
  <2> DEFINE d == Driver(ArgumentsFor(ThisType))
  <2>2. /\ MayTry(ThisType) /\ types' = types
        /\ {S \in Samples(d) : ~Recovers(d, S)} # {}
    <3>1. exit.error = "none"
      BY <2>1 DEF BenchType, Walking, Running
    <3> QED BY <1>4, <2>1, <3>1 DEF BenchType, Traceback
  <2>3. cli.k \in Int /\ cli.m \in Int /\ cli.l \in Int /\ cli.u \in Int
    BY CommandLinesAssumption DEF BenchInv
  <2>4. PICK S \in Samples(d) : ~Recovers(d, S)
    BY <2>2
  <2>5. \/ d.ec_type = "flat_xor_hd" /\ ~(cli.u < d.hd)
        \/ d.ec_type = "isa_l_rs_lrc" /\ ~(cli.l > 0)
    BY <2>2, <2>3, <2>4, SamplesSuffice
  <2>6. d.ec_type = "flat_xor_hd" => d.hd \in Nat
    BY <2>2, <2>3, TriedDriver
  <2>7. \/ d.ec_type = "flat_xor_hd" /\ cli.u >= d.hd
        \/ d.ec_type = "isa_l_rs_lrc" /\ cli.l <= 0
    <3> HIDE DEF d
    <3> QED BY <2>3, <2>5, <2>6
  <2>8. d' = d
    BY <1>1, <2>2 DEF ThisType, ArgumentsFor
  <2> QED BY <1>1, <2>7, <2>8 DEF BenchInv, BenchSampleSuffices
<1> QED BY <1>2, <1>3, <1>4

\* bench ends with a failed decode() only where no sample of that size can be
\* relied upon, for every code, every split of an LRC's parities and every
\* number of missing fragments (cli/bench.py:78-96).
THEOREM BenchSamplesSuffice == BackendSpec => []BenchSampleSuffices
<1>1. BackendInit => BenchInv
  BY DEF BackendInit, Running, BenchInv, BenchSampleSuffices
<1>2. BenchInv => BenchSampleSuffices
  BY DEF BenchInv
<1> QED BY <1>1, <1>2, BenchStep, PTL DEF BackendSpec
=============================================================================
