---------------------------- MODULE StripeProofs ----------------------------
(***************************************************************************)
(* Proofs about Stripe, for every stripe, object and word size, any losses *)
(* and damage, any lists of fragments, indexes and ranges.                 *)
(***************************************************************************)
EXTENDS Stripe, FiniteSetTheorems, TLAPS

-----------------------------------------------------------------------------
(* Lists made of sets.                                                     *)

LEMMA SetAsSeq ==
  ASSUME NEW S, IsFiniteSet(S)
  PROVE  /\ SetToSeq(S) \in Seq(S)
         /\ Len(SetToSeq(S)) = Cardinality(S)
         /\ ToSet(SetToSeq(S)) = S
<1> DEFINE n == Cardinality(S)
           f == SetToSeq(S)
<1>1. n \in Nat /\ ExistsBijection(1..n, S)
  BY FS_CardinalityType
<1>2. \E g \in [1..n -> S] : IsInjective(g)
  BY <1>1 DEF ExistsBijection, Bijection, Injection, IsInjective
<1>3. f \in [1..n -> S] /\ IsInjective(f)
  BY <1>2 DEF SetToSeq
<1>4. f \in Injection(1..n, S)
  BY <1>3 DEF Injection, IsInjective
<1>5. Cardinality(1..n) = n
  BY <1>1, FS_Interval
<1>6. f \in Surjection(1..n, S)
  BY <1>4, <1>5, FS_Injection
<1>7. ToSet(f) = S
  BY <1>3, <1>6 DEF ToSet, Surjection
<1> HIDE DEF f
<1>8. f \in Seq(S) /\ Len(f) = n
  BY <1>1, <1>3
<1> QED BY <1>7, <1>8 DEF f

LEMMA OrderOfSet ==
  ASSUME NEW S, IsFiniteSet(S), NEW s \in SetToSeqs(S)
  PROVE  s \in Seq(S) /\ Len(s) = Cardinality(S) /\ ToSet(s) = S
<1> DEFINE n == Cardinality(S)
<1>1. n \in Nat
  BY FS_CardinalityType
<1>2. s \in [1..n -> S] /\ \A i, j \in 1..n : i # j => s[i] # s[j]
  BY DEF SetToSeqs
<1>3. s \in Injection(1..n, S)
  BY <1>2 DEF Injection, IsInjective
<1>4. s \in Surjection(1..n, S)
  BY <1>1, <1>3, FS_Injection, FS_Interval
<1>5. ToSet(s) = S
  BY <1>2, <1>4 DEF ToSet, Surjection
<1> QED BY <1>1, <1>2, <1>5

LEMMA ImageFinite ==
  ASSUME NEW S, IsFiniteSet(S), NEW g
  PROVE  IsFiniteSet({g[i] : i \in S})
<1> DEFINE T == {g[i] : i \in S}
           h == [i \in S |-> g[i]]
<1>1. h \in Surjection(S, T)
  BY DEF Surjection
<1> QED BY <1>1, FS_Surjection

-----------------------------------------------------------------------------
(* What ECDriver() accepts.                                                *)

LEMMA LeastRefusal ==
  ASSUME NEW R \in SUBSET (1..8), R # {}
  PROVE  Min(R) \in R
<1>1. \E x \in R : \A y \in R : x =< y
  <2>1. CASE 1 \in R
    BY <2>1
  <2>2. CASE 2 \in R /\ 1 \notin R
    BY <2>2
  <2>3. CASE 3 \in R /\ ~(1 \in R \/ 2 \in R)
    BY <2>3
  <2>4. CASE 4 \in R /\ ~(1 \in R \/ 2 \in R \/ 3 \in R)
    BY <2>4
  <2>5. CASE 5 \in R /\ ~(1 \in R \/ 2 \in R \/ 3 \in R \/ 4 \in R)
    BY <2>5
  <2>6. CASE 6 \in R /\ ~(1 \in R \/ 2 \in R \/ 3 \in R \/ 4 \in R \/ 5 \in R)
    BY <2>6
  <2>7. CASE 7 \in R /\ ~(1 \in R \/ 2 \in R \/ 3 \in R \/ 4 \in R \/ 5 \in R \/ 6 \in R)
    BY <2>7
  <2>8. CASE 8 \in R /\ ~(1 \in R \/ 2 \in R \/ 3 \in R \/ 4 \in R \/ 5 \in R \/ 6 \in R \/ 7 \in R)
    BY <2>8
  <2>9. \/ 1 \in R \/ 2 \in R \/ 3 \in R \/ 4 \in R
        \/ 5 \in R \/ 6 \in R \/ 7 \in R \/ 8 \in R
    <3>1. PICK z \in R : TRUE
      OBVIOUS
    <3>2. \/ z = 1 \/ z = 2 \/ z = 3 \/ z = 4 \/ z = 5 \/ z = 6 \/ z = 7 \/ z = 8
      BY z \in 1..8
    <3> QED BY <3>1, <3>2
  <2> QED BY <2>1, <2>2, <2>3, <2>4, <2>5, <2>6, <2>7, <2>8, <2>9
<1> QED BY <1>1 DEF Min

LEMMA Accepted ==
  ASSUME NEW a \in Arguments, Verdict(a) = "ok"
  PROVE  /\ a.k \in Int /\ a.k > 0 /\ a.m \in Int /\ a.m > 0
         /\ a.lib \in {"ECPyECLibDriver", "ECNullDriver"}
         /\ a.lib = "ECPyECLibDriver" => Looked(a.ec_type)
         /\ Looked(a.ec_type) => BackendOf(a.ec_type) \in PyECLib_EC_Types
<1> DEFINE refused == {i \in 1..8 : Checks(a)[i][1]}
<1>1. \A i \in 1..8 : Checks(a)[i][2] # "ok"
  BY DEF Checks
<1>2. refused = {}
  <2>1. CASE refused # {}
    <3>1. Min(refused) \in 1..8
      BY <2>1, LeastRefusal
    <3>2. Verdict(a) = Checks(a)[Min(refused)][2]
      BY <2>1 DEF Verdict
    <3> QED BY <1>1, <3>1, <3>2
  <2> QED BY <2>1
<1>3. \A i \in 1..8 : ~Checks(a)[i][1]
  BY <1>2
<1>4. /\ ~(NotPositive(a.k) \/ NotPositive(a.m))
      /\ ~(Looked(a.ec_type) /\ BackendOf(a.ec_type) \notin PyECLib_EC_Types)
      /\ a.lib \notin {"nowhere", "ECStripingDriver"}
      /\ ~(a.lib = "ECPyECLibDriver" /\ ~Looked(a.ec_type))
  <2>1. ~Checks(a)[2][1] /\ ~Checks(a)[4][1]
    BY <1>3
  <2>2. ~Checks(a)[6][1] /\ ~Checks(a)[7][1] /\ ~Checks(a)[8][1]
    BY <1>3
  <2>3. /\ ~(NotPositive(a.k) \/ NotPositive(a.m))
        /\ ~(Looked(a.ec_type) /\ BackendOf(a.ec_type) \notin PyECLib_EC_Types)
    BY <2>1 DEF Checks
  <2>4. /\ a.lib \notin {"nowhere", "ECStripingDriver"}
        /\ ~(a.lib = "ECPyECLibDriver" /\ ~Looked(a.ec_type))
    BY <2>2 DEF Checks
  <2> QED BY <2>3, <2>4
<1>5. a \in [ec_type: STRING \cup {NoType}, lib: Classes,
             k: Int \cup {NoNumber}, m: Int \cup {NoNumber},
             chksum_type: STRING, local_parity: Int \cup {NoNumber, NoType}]
  BY ArgumentsAssumption
<1> QED BY <1>4, <1>5 DEF NotPositive, IsPositive, Classes

-----------------------------------------------------------------------------
(* The inductive invariant.                                                *)

Fragments == [idx: Int, size: 0..Whole, right: BOOLEAN, sum: BOOLEAN]

\* The driver is the one ECDriver() makes of arguments it accepts.
DriverOK ==
  pc \in {"made", "idle", "loop", "returned"} =>
    driver = Driver(args) /\ Verdict(args) = "ok"

\* There is a fragment or a gap under each index; none before encode().
StoreOK ==
  /\ IsFiniteSet(DOMAIN store)
  /\ \A i \in DOMAIN store :
       store[i] # Lost => store[i] \in Fragments /\ store[i].idx = i
  /\ IF pc \in {"idle", "loop"} \/ (pc = "returned" /\ driver.lib = "ECPyECLibDriver")
       THEN DOMAIN store = Indexes(driver)
       ELSE DOMAIN store = {}

\* A call that is over leaves nothing behind.
FrameOK ==
  /\ have \subseteq Fragments /\ size \in 0..Whole
  /\ built \in Seq(Fragments) /\ list \in Seq(Int) /\ todo \in Seq(Int)
  /\ pc \notin {"loop", "returned"} => list = <<>> /\ have = {} /\ out = NoOut
  /\ list = <<>> => todo = <<>> /\ built = <<>>
  /\ pc \in {"idle", "loop"} => driver.lib = "ECPyECLibDriver" /\ out = NoOut
  /\ pc = "returned" /\ out.call # "reconstruct" => list = <<>>
  /\ pc = "returned" /\ driver.lib = "ECNullDriver" => list = <<>> /\ have = {}
  /\ out.call = "verify" => have = {}

Rebuilding ==
  \/ pc = "loop"
  \/ pc = "returned" /\ out.call = "reconstruct" /\ out.error = "none"

\* What was rebuilt is the beginning of the sorted list, what is left is the
\* rest of it, and what was rebuilt helps with the rest.
LoopOK ==
  Rebuilding =>
    /\ Ascending(list) /\ ToSet(list) \subseteq DOMAIN store
    /\ Len(built) + Len(todo) = Len(list)
    /\ \A j \in 1..Len(built) : built[j].idx = list[j] /\ list[j] \in Idx(have)
    /\ \A j \in 1..Len(todo) : todo[j] = list[Len(built) + j]
    /\ pc = "returned" => todo = <<>>

\* The answer of the stripe check fits what the client holds.
VerifyOK ==
  (/\ pc = "returned" /\ out.call = "verify" /\ out.error = "none"
   /\ driver.lib = "ECPyECLibDriver") =>
    /\ Held = DOMAIN store
    /\ ToSet(out.value) # {} => driver.inline_chksum
    /\ \A i \in DOMAIN store :
         store[i].size = Whole =>
           (i \in ToSet(out.value) <=> driver.inline_chksum /\ ~store[i].sum)

StripeInv ==
  /\ TypeOK /\ DriverOK /\ StoreOK /\ FrameOK /\ LoopOK /\ VerifyOK
  /\ ReadWithinFragments /\ WholeRequestSucceeds /\ RangesExact

-----------------------------------------------------------------------------
(* Lists of fragments.                                                     *)

LEMMA ListsOfFragments ==
  ASSUME StoreOK, NEW fragments \in FragmentLists
  PROVE  fragments \in Seq(Fragments)
<1>1. CASE fragments = <<>>
  BY <1>1
<1>2. CASE fragments # <<>>
  <2>0. PICK S \in SUBSET Held : \E f \in S : fragments = Listed(f, S)
    BY <1>2 DEF FragmentLists
  <2>1. PICK f \in S : fragments = Listed(f, S)
    BY <2>0
  <2>2. IsFiniteSet(S \ {f})
    BY FS_Subset DEF StoreOK, Held
  <2> DEFINE T == {store[i] : i \in S \ {f}}
  <2>3. IsFiniteSet(T)
    BY <2>2, ImageFinite
  <2>4. T \subseteq Fragments /\ store[f] \in Fragments
    BY DEF StoreOK, Held
  <2>5. SetToSeq(T) \in Seq(T)
    BY <2>3, SetAsSeq
  <2> HIDE DEF T
  <2>6. SetToSeq(T) \in Seq(Fragments)
    BY <2>4, <2>5
  <2>7. fragments = <<store[f]>> \o SetToSeq(T)
    BY <2>1 DEF Listed, T
  <2> QED BY <2>4, <2>6, <2>7
<1> QED BY <1>1, <1>2

\* Fragments that pass the check have one size, which is not 0.
LEMMA SameSize ==
  ASSUME NEW fragments \in Seq(Fragments), FragmentSizeError(fragments) = "none"
  PROVE  /\ ToSet(fragments) \subseteq Fragments
         /\ fragments[1].size \in 1..Whole
         /\ \A f \in ToSet(fragments) : f.size = fragments[1].size
<1>1. /\ fragments # <<>> /\ fragments[1].size # 0
      /\ \A i \in 2 .. Len(fragments) : fragments[i].size = fragments[1].size
  BY DEF FragmentSizeError
<1>2. DOMAIN fragments = 1 .. Len(fragments) /\ Len(fragments) \in Nat /\ 1 \in DOMAIN fragments
  BY <1>1
<1>3. \A i \in DOMAIN fragments : fragments[i] \in Fragments
  BY <1>2
<1>4. \A i \in DOMAIN fragments : fragments[i].size = fragments[1].size
  BY <1>1, <1>2
<1>5. fragments[1].size \in 1..Whole
  BY <1>1, <1>2, <1>3 DEF Fragments, Whole
<1> QED BY <1>3, <1>4, <1>5 DEF ToSet

-----------------------------------------------------------------------------
(* The steps.                                                              *)

LEMMA InitInv == Init => StripeInv
<1> SUFFICES ASSUME Init PROVE StripeInv
  OBVIOUS
<1>1. TypeOK
  BY FaultsAssumption DEF Init, TypeOK, Whole
<1>2. IsFiniteSet(DOMAIN store) /\ DOMAIN store = {}
  BY FS_EmptySet DEF Init
<1>3. DriverOK /\ StoreOK /\ FrameOK /\ LoopOK /\ VerifyOK
  BY <1>2 DEF Init, DriverOK, StoreOK, FrameOK, LoopOK, Rebuilding, VerifyOK, Whole, NoOut
<1>4. ReadWithinFragments /\ WholeRequestSucceeds /\ RangesExact
  BY DEF Init, ReadWithinFragments, WholeRequestSucceeds, RangesExact, NoOut
<1> QED BY <1>1, <1>3, <1>4 DEF StripeInv

\* Steps after which no call is under way and none has just returned.
LEMMA Silent ==
  ASSUME out' = NoOut, have' = {} \/ (have' = have /\ size' = size),
         pc' \notin {"loop", "returned"}, StripeInv
  PROVE  /\ LoopOK' /\ VerifyOK'
         /\ ReadWithinFragments' /\ WholeRequestSucceeds' /\ RangesExact'
BY DEF StripeInv, LoopOK, Rebuilding, VerifyOK, ReadWithinFragments,
       WholeRequestSucceeds, RangesExact, NoOut

LEMMA ConstructInv == StripeInv /\ Construct => StripeInv'
<1> SUFFICES ASSUME StripeInv, Construct PROVE StripeInv'
  OBVIOUS
<1> USE DEF StripeInv
<1>1. pc' \in {"made", "refused"} /\ UNCHANGED <<args, store, faults, frame, out>>
  BY DEF Construct
<1>2. pc' = "made" => driver' = Driver(args) /\ Verdict(args) = "ok"
  BY DEF Construct
<1>3. TypeOK'
  <2>1. pc' = "made" => driver'.lib \in {"ECPyECLibDriver", "ECNullDriver"}
    BY <1>2, Accepted DEF TypeOK, Driver
  <2> QED BY <1>1, <1>2, <2>1 DEF TypeOK, frame
<1>4. DriverOK' /\ StoreOK' /\ FrameOK'
  BY <1>1, <1>2 DEF Construct, DriverOK, StoreOK, FrameOK, frame
<1>5. out' = NoOut /\ have' = have /\ size' = size
  BY <1>1 DEF Construct, FrameOK, frame
<1> QED BY <1>1, <1>3, <1>4, <1>5, Silent

LEMMA NullInv == StripeInv /\ ECNullDriver => StripeInv'
<1> SUFFICES ASSUME StripeInv, ECNullDriver PROVE StripeInv'
  OBVIOUS
<1> USE DEF StripeInv
<1>1. /\ pc = "made" /\ driver.lib = "ECNullDriver" /\ pc' = "returned"
      /\ UNCHANGED <<args, driver, store, faults, frame>>
      /\ out'.error \in {"TypeError", "none"} /\ out'.value = <<>> /\ out'.asked = <<>>
  BY DEF ECNullDriver, Answer
<1>2. TypeOK' /\ DriverOK'
  BY <1>1 DEF TypeOK, DriverOK, frame
<1>3. list = <<>> /\ todo = <<>> /\ built = <<>> /\ have = {}
  BY <1>1 DEF FrameOK
<1>4. StoreOK' /\ FrameOK' /\ VerifyOK'
  BY <1>1, <1>3 DEF StoreOK, FrameOK, VerifyOK, frame
<1>5. LoopOK'
  BY <1>1, <1>3 DEF LoopOK, Ascending, ToSet, frame
<1>6. ReadWithinFragments' /\ WholeRequestSucceeds' /\ RangesExact'
  BY <1>1, <1>3 DEF ReadWithinFragments, WholeRequestSucceeds, RangesExact, frame
<1> QED BY <1>2, <1>4, <1>5, <1>6

LEMMA EncodeInv == StripeInv /\ Encode => StripeInv'
<1> SUFFICES ASSUME StripeInv, Encode PROVE StripeInv'
  OBVIOUS
<1> USE DEF StripeInv
<1>1. /\ pc = "made" /\ pc' = "idle" /\ driver.lib = "ECPyECLibDriver"
      /\ store' = [i \in Indexes(driver) |-> Fragment(i)]
      /\ UNCHANGED <<args, driver, faults, frame, out>>
  BY DEF Encode
<1>2. driver.k \in Int /\ driver.m \in Int
  BY <1>1, Accepted DEF TypeOK, DriverOK, Driver
<1>3. IsFiniteSet(Indexes(driver)) /\ Indexes(driver) \subseteq Int
  BY <1>2, FS_Interval DEF Indexes
<1>4. \A i \in Indexes(driver) : Fragment(i) \in Fragments /\ Fragment(i).idx = i
  BY <1>3 DEF Fragment, Fragments, Whole
<1>5. StoreOK'
  BY <1>1, <1>3, <1>4 DEF StoreOK
<1>6. TypeOK'
  BY <1>1, <1>4 DEF TypeOK, Fragments, frame
<1>7. DriverOK' /\ FrameOK'
  BY <1>1 DEF DriverOK, FrameOK, frame
<1>8. out' = NoOut /\ have' = have /\ size' = size
  BY <1>1 DEF FrameOK, frame
<1> QED BY <1>1, <1>5, <1>6, <1>7, <1>8, Silent

LEMMA FaultInv == StripeInv /\ Fault => StripeInv'
<1> SUFFICES ASSUME StripeInv, Fault PROVE StripeInv'
  OBVIOUS
<1> USE DEF StripeInv
<1>1. PICK i \in Held : \E f \in Damaged(i) \cup {Lost} : store' = [store EXCEPT ![i] = f]
  BY DEF Fault
<1>2. PICK f \in Damaged(i) \cup {Lost} : store' = [store EXCEPT ![i] = f]
  BY <1>1
<1>3. /\ pc = "idle" /\ faults < MaxFaults /\ faults' = faults + 1
      /\ UNCHANGED <<pc, args, driver, frame, out>>
  BY DEF Fault
<1>4. i \in DOMAIN store /\ i \in Int
  BY DEF Held, StoreOK, Fragments
<1>5. f # Lost => f \in Fragments /\ f.idx = i
  <2>1. Fragment(i) \in Fragments /\ Fragment(i).idx = i
    BY <1>4 DEF Fragment, Fragments, Whole
  <2>2. ASSUME f # Lost
        PROVE  \/ \E n \in {0, 1} : f = [Fragment(i) EXCEPT !.size = n]
               \/ f = [Fragment(i) EXCEPT !.right = FALSE, !.sum = FALSE]
    BY <1>2, <2>2 DEF Damaged
  <2> DEFINE F == Fragment(i)
  <2>3. \A n \in {0, 1} : [F EXCEPT !.size = n] \in Fragments /\ [F EXCEPT !.size = n].idx = i
    BY <2>1 DEF Fragments, Whole
  <2>4. LET g == [F EXCEPT !.right = FALSE, !.sum = FALSE] IN g \in Fragments /\ g.idx = i
    BY <2>1 DEF Fragments
  <2> QED BY <2>2, <2>3, <2>4
<1>6. StoreOK'
  BY <1>2, <1>3, <1>4, <1>5 DEF StoreOK
<1>7. TypeOK'
  BY <1>2, <1>3, <1>4, <1>5, FaultsAssumption DEF TypeOK, Fragments, frame
<1>8. DriverOK' /\ FrameOK'
  BY <1>3 DEF DriverOK, FrameOK, frame
<1>9. out' = NoOut /\ have' = have /\ size' = size
  BY <1>3 DEF FrameOK, frame
<1> QED BY <1>3, <1>6, <1>7, <1>8, <1>9, Silent

-----------------------------------------------------------------------------
(* decode() and its ranges.                                                *)

LEMMA ModSmall ==
  ASSUME NEW w \in Nat, NEW x \in Int, 0 <= x, x < w
  PROVE  x % w = x
OBVIOUS

LEMMA ModNegative ==
  ASSUME NEW w \in Nat, NEW x \in Int, -w <= x, x < 0
  PROVE  x % w = x + w
OBVIOUS

\* Offset and length add up to the end of the range, whatever wraps.
LEMMA ModOfSum ==
  ASSUME NEW w \in Nat \ {0}, NEW x \in Int, NEW y \in Int,
         -w < x, x < w, -w <= y, y <= w
  PROVE  ((x % w) + (y % w)) % w = (x + y) % w
<1>1. CASE 0 <= x /\ 0 <= y /\ y < w
  BY <1>1, ModSmall
<1>2. CASE x < 0 /\ 0 <= y /\ y < w
  BY <1>2, ModSmall, ModNegative
<1>3. CASE 0 <= x /\ y < 0
  BY <1>3, ModSmall, ModNegative
<1>4. CASE x < 0 /\ y < 0
  BY <1>4, ModSmall, ModNegative
<1>5. CASE y = w
  BY <1>5
<1> QED BY <1>1, <1>2, <1>3, <1>4, <1>5

\* A pair of C longs.
Longs(r) ==
  /\ r[1] \in Int /\ -Word <= 2 * r[1] /\ 2 * r[1] < Word
  /\ r[2] \in Int /\ -Word <= 2 * r[2] /\ 2 * r[2] < Word

\* The answer to a range that passes the check.
Answered(r, slice) ==
  IF 0 <= r[1] /\ r[1] <= r[2] + 1 THEN slice = <<r[1], r[2] - r[1] + 1>>
  ELSE slice[1] >= ObjLen \/ slice[2] > ObjLen

\* The check is one of the end alone; the object is too short for a negative
\* end to wrap into it.
LEMMA InObjectByEnd ==
  ASSUME NEW r, Longs(r)
  PROVE  InObject(r) <=> r[2] \in -1 .. ObjLen - 1
<1>1. Word \in Nat \ {0} /\ Word >= 2 /\ ObjLen \in Nat /\ 2 * ObjLen <= Word
  BY RangesAssumption
<1> DEFINE b == r[1]
           y == r[2] - r[1] + 1
           z == r[2] + 1
<1>2. b \in Int /\ -Word < b /\ b < Word /\ y \in Int /\ -Word <= y /\ y <= Word
  BY <1>1 DEF Longs
<1>3. z = b + y /\ z \in Int /\ -Word < 2 * z /\ 2 * z <= Word + 1
  BY <1>1 DEF Longs
<1>4. (Slice(r)[1] + Slice(r)[2]) % Word = ((b % Word) + (y % Word)) % Word
  BY DEF Slice
<1> HIDE DEF b, y
<1>5. (Slice(r)[1] + Slice(r)[2]) % Word = z % Word
  <2>1. ((b % Word) + (y % Word)) % Word = (b + y) % Word
    BY <1>1, <1>2, ModOfSum
  <2> QED BY <1>3, <1>4, <2>1
<1>6. r[2] \in -1 .. ObjLen - 1 <=> z \in 0 .. ObjLen
  BY <1>1 DEF Longs
<1> HIDE DEF z
<1>7. CASE 0 <= z
  <2>1. z % Word = z
    <3>1. z < Word
      BY <1>1, <1>3
    <3> QED BY <1>1, <1>3, <1>7, <3>1, ModSmall
  <2> QED BY <1>1, <1>3, <1>5, <1>6, <1>7, <2>1 DEF InObject
<1>8. CASE z < 0
  <2>1. z % Word = z + Word
    BY <1>1, <1>3, <1>8, ModNegative
  <2>2. ~(z + Word <= ObjLen) /\ z \notin 0 .. ObjLen
    BY <1>1, <1>3, <1>8
  <2> QED BY <1>5, <1>6, <2>1, <2>2 DEF InObject
<1> QED BY <1>3, <1>7, <1>8

LEMMA SliceAnswers ==
  ASSUME NEW r, Longs(r), r[2] >= -1
  PROVE  Answered(r, Slice(r))
<1>1. Word \in Nat \ {0} /\ Word >= 2 /\ ObjLen \in Nat /\ 2 * ObjLen <= Word
  BY RangesAssumption
<1> DEFINE b == r[1]
           y == r[2] - r[1] + 1
<1>2. b \in Int /\ -Word < b /\ b < Word /\ y \in Int /\ -Word < y /\ y <= Word
  BY <1>1 DEF Longs
<1>3. Slice(r) = <<b % Word, y % Word>>
  BY DEF Slice
<1>4. CASE 0 <= r[1] /\ r[1] <= r[2] + 1
  <2>1. 0 <= y /\ y < Word
    BY <1>1, <1>4 DEF Longs
  <2>2. b % Word = b /\ y % Word = y
    BY <1>1, <1>2, <1>4, <2>1, ModSmall
  <2> QED BY <1>3, <1>4, <2>2 DEF Answered
<1>5. CASE r[1] < 0
  <2>1. b % Word = b + Word
    <3>1. b \in Int /\ -Word <= b /\ b < 0
      BY <1>1, <1>2, <1>5
    <3> HIDE DEF b
    <3> QED BY <1>1, <3>1, ModNegative
  <2>2. b + Word >= ObjLen
    BY <1>1 DEF Longs
  <2>3. Slice(r)[1] >= ObjLen
    BY <1>3, <2>1, <2>2
  <2>4. ~(0 <= r[1] /\ r[1] <= r[2] + 1)
    BY <1>5 DEF Longs
  <2> QED BY <2>3, <2>4 DEF Answered
<1>6. CASE 0 <= r[1] /\ r[1] > r[2] + 1
  <2>1. y < 0 /\ -Word < 2 * y
    BY <1>1, <1>6 DEF Longs
  <2>2. y % Word = y + Word
    BY <1>1, <1>2, <2>1, ModNegative
  <2>3. y + Word > ObjLen
    BY <1>1, <1>2, <2>1
  <2>4. Slice(r)[2] > ObjLen
    BY <1>3, <2>2, <2>3
  <2>5. ~(0 <= r[1] /\ r[1] <= r[2] + 1)
    BY <1>6 DEF Longs
  <2> QED BY <2>4, <2>5 DEF Answered
<1>7. \/ 0 <= r[1] /\ r[1] <= r[2] + 1
      \/ r[1] < 0
      \/ 0 <= r[1] /\ r[1] > r[2] + 1
  BY DEF Longs
<1> QED BY <1>4, <1>5, <1>6, <1>7

LEMMA AnswerExact ==
  ASSUME NEW ranges \in RangeLists, DecodeAnswer(ranges)
  PROVE  RangesExact'
<1>1. \A j \in 1..Len(ranges) : Longs(ranges[j])
  BY RangesAssumption DEF Longs
<1>2. out'.asked = ranges
  BY DEF DecodeAnswer, Answer
<1>3. \A j \in 1..Len(ranges) :
        /\ InObject(ranges[j]) <=> ranges[j][2] \in -1 .. ObjLen - 1
        /\ InObject(ranges[j]) => Answered(ranges[j], Slice(ranges[j]))
  <2>1. \A j \in 1..Len(ranges) : InObject(ranges[j]) <=> ranges[j][2] \in -1 .. ObjLen - 1
    BY <1>1, InObjectByEnd
  <2>2. ObjLen \in Nat
    BY RangesAssumption
  <2>3. \A j \in 1..Len(ranges) : InObject(ranges[j]) => ranges[j][2] >= -1
    BY <2>1, <2>2
  <2> QED BY <1>1, <2>1, <2>3, SliceAnswers
<1>4. out'.error = "none" <=> \A j \in 1..Len(ranges) : InObject(ranges[j])
  BY DEF DecodeAnswer, Answer
<1>5. ASSUME out'.error = "none", NEW j \in 1..Len(ranges)
      PROVE  Answered(ranges[j], out'.value[j])
  <2>1. out'.value = [i \in 1..Len(ranges) |-> Slice(ranges[i])]
    BY <1>4, <1>5 DEF DecodeAnswer, Answer
  <2>2. out'.value[j] = Slice(ranges[j])
    BY <2>1
  <2> QED BY <1>3, <1>4, <1>5, <2>2
<1>6. /\ out'.error = "none" <=> \A j \in 1..Len(ranges) : ranges[j][2] \in -1 .. ObjLen - 1
      /\ out'.error = "none" => \A j \in 1..Len(ranges) : Answered(ranges[j], out'.value[j])
  BY <1>3, <1>4, <1>5
<1> QED BY <1>2, <1>6 DEF RangesExact, Answered

LEMMA DecodeInv == StripeInv /\ Decode => StripeInv'
<1> SUFFICES ASSUME StripeInv, Decode PROVE StripeInv'
  OBVIOUS
<1> USE DEF StripeInv
<1>1. PICK given \in FragmentLists, twice \in BOOLEAN, ranges \in RangeLists :
        LET fragments == IF twice /\ given # <<>> THEN Append(given, given[1]) ELSE given
            error     == FragmentSizeError(fragments)
            F         == ToSet(fragments)
        IN  IF error # "none" \/ Len(fragments) < driver.k
              THEN /\ Answer("decode", IF error # "none" THEN error
                                       ELSE "ECInsufficientFragments", <<>>, ranges)
                   /\ UNCHANGED <<have, size>>
              ELSE /\ have' = F
                   /\ size' = fragments[1].size
                   /\ \/ DecodeAnswer(ranges)
                      \/ Answer("decode", "ECInsufficientFragments", <<>>, ranges)
  BY DEF Decode
<1> DEFINE fragments == IF twice /\ given # <<>> THEN Append(given, given[1]) ELSE given
<1>2. fragments \in Seq(Fragments)
  <2>1. given \in Seq(Fragments)
    BY ListsOfFragments
  <2> QED BY <2>1
<1> HIDE DEF fragments
<1>3. /\ pc = "idle" /\ pc' = "returned"
      /\ UNCHANGED <<args, driver, store, faults, list, todo, built>>
      /\ out'.call = "decode"
  BY <1>1 DEF Decode, Answer, DecodeAnswer
<1>4. \/ UNCHANGED <<have, size>>
      \/ /\ have' \subseteq Fragments /\ size' \in 1..Whole
         /\ \A f \in have' : f.size = size'
  <2>1. \/ UNCHANGED <<have, size>>
        \/ /\ FragmentSizeError(fragments) = "none"
           /\ have' = ToSet(fragments) /\ size' = fragments[1].size
    BY <1>1 DEF fragments
  <2> QED BY <1>2, <2>1, SameSize
<1>5. \/ DecodeAnswer(ranges)
      \/ out'.error \notin {"none", "ECInvalidParameter"}
  <2>1. FragmentSizeError(fragments) \in {"none", "ECDriverError", "ECDriverErrorWithPosition"}
    BY DEF FragmentSizeError
  <2> QED BY <1>1, <2>1 DEF Answer, fragments
<1>6. list = <<>> /\ todo = <<>> /\ built = <<>>
  BY <1>3 DEF FrameOK
<1>7. TypeOK'
  BY <1>3, <1>4 DEF TypeOK
<1>8. driver.lib = "ECPyECLibDriver"
  BY <1>3 DEF FrameOK
<1>9. DriverOK' /\ StoreOK' /\ FrameOK'
  BY <1>3, <1>4, <1>6, <1>8 DEF DriverOK, StoreOK, FrameOK, Whole
<1>10. LoopOK' /\ VerifyOK' /\ ReadWithinFragments' /\ WholeRequestSucceeds'
  BY <1>3, <1>4 DEF LoopOK, Rebuilding, VerifyOK, ReadWithinFragments, WholeRequestSucceeds
<1>11. RangesExact'
  BY <1>5, AnswerExact DEF RangesExact
<1> QED BY <1>7, <1>9, <1>10, <1>11

-----------------------------------------------------------------------------
(* reconstruct()                                                           *)

LEMMA ListsOfIndexes ==
  ASSUME StoreOK, pc = "idle", NEW S \in IndexSets, NEW s \in SetToSeqs(S)
  PROVE  s \in Seq(Int) /\ ToSet(s) = S /\ S \subseteq DOMAIN store
<1>1. S \subseteq DOMAIN store /\ IsFiniteSet(S)
  BY FS_Subset DEF IndexSets, StoreOK
<1>2. DOMAIN store \subseteq Int
  BY DEF StoreOK, Indexes
<1>3. s \in Seq(S) /\ ToSet(s) = S
  BY <1>1, OrderOfSet
<1> QED BY <1>1, <1>2, <1>3

LEMMA ReconstructInv == StripeInv /\ Reconstruct => StripeInv'
<1> SUFFICES ASSUME StripeInv, Reconstruct PROVE StripeInv'
  OBVIOUS
<1> USE DEF StripeInv
<1>1. PICK fragments \in FragmentLists, S \in IndexSets :
        \E indexes, sorted \in SetToSeqs(S) :
          /\ Ascending(sorted)
          /\ IF FragmentSizeError(fragments) # "none"
               THEN /\ list' = indexes
                    /\ Answer("reconstruct", FragmentSizeError(fragments), <<>>, <<>>)
                    /\ UNCHANGED <<todo, have, size, built>>
               ELSE /\ list' = sorted /\ todo' = sorted /\ built' = <<>>
                    /\ have' = ToSet(fragments) /\ size' = fragments[1].size
                    /\ pc' = "loop" /\ UNCHANGED out
  BY DEF Reconstruct
<1>2. PICK indexes \in SetToSeqs(S), sorted \in SetToSeqs(S) :
          /\ Ascending(sorted)
          /\ IF FragmentSizeError(fragments) # "none"
               THEN /\ list' = indexes
                    /\ Answer("reconstruct", FragmentSizeError(fragments), <<>>, <<>>)
                    /\ UNCHANGED <<todo, have, size, built>>
               ELSE /\ list' = sorted /\ todo' = sorted /\ built' = <<>>
                    /\ have' = ToSet(fragments) /\ size' = fragments[1].size
                    /\ pc' = "loop" /\ UNCHANGED out
  BY <1>1
<1>3. pc = "idle" /\ UNCHANGED <<args, driver, store, faults>>
  BY DEF Reconstruct
<1>4. /\ indexes \in Seq(Int) /\ sorted \in Seq(Int)
      /\ ToSet(sorted) \subseteq DOMAIN store
  BY <1>3, ListsOfIndexes
<1>5. /\ list = <<>> /\ todo = <<>> /\ built = <<>> /\ have = {} /\ out = NoOut
      /\ driver.lib = "ECPyECLibDriver"
  BY <1>3 DEF FrameOK
<1>6. CASE FragmentSizeError(fragments) # "none"
  <2>1. /\ list' = indexes /\ pc' = "returned" /\ UNCHANGED <<todo, have, size, built>>
        /\ out'.call = "reconstruct"
        /\ out'.error \in {"ECDriverError", "ECDriverErrorWithPosition"}
    BY <1>2, <1>6 DEF Answer, FragmentSizeError
  <2>2. TypeOK' /\ DriverOK' /\ StoreOK'
    BY <1>3, <1>4, <1>5, <2>1 DEF TypeOK, DriverOK, StoreOK
  <2>3. FrameOK'
    BY <1>3, <1>4, <1>5, <2>1 DEF FrameOK
  <2>4. LoopOK' /\ VerifyOK' /\ ReadWithinFragments'
    BY <2>1 DEF LoopOK, Rebuilding, VerifyOK, ReadWithinFragments
  <2>5. WholeRequestSucceeds' /\ RangesExact'
    BY <2>1 DEF WholeRequestSucceeds, RangesExact
  <2> QED BY <2>2, <2>3, <2>4, <2>5
<1>7. CASE FragmentSizeError(fragments) = "none"
  <2>1. /\ list' = sorted /\ todo' = sorted /\ built' = <<>>
        /\ have' = ToSet(fragments) /\ size' = fragments[1].size
        /\ pc' = "loop" /\ out' = out /\ Ascending(sorted)
    BY <1>2, <1>7
  <2>2. /\ have' \subseteq Fragments /\ size' \in 1..Whole
        /\ \A f \in have' : f.size = size'
    BY <1>7, <2>1, ListsOfFragments, SameSize
  <2>3. TypeOK' /\ DriverOK' /\ StoreOK'
    BY <1>3, <1>4, <1>5, <2>1, <2>2 DEF TypeOK, DriverOK, StoreOK
  <2>4. FrameOK'
    BY <1>3, <1>4, <1>5, <2>1, <2>2 DEF FrameOK, Whole, NoOut
  <2>5. LoopOK'
    BY <1>3, <1>4, <2>1 DEF LoopOK, Ascending, ToSet
  <2>6. VerifyOK' /\ ReadWithinFragments'
    BY <2>1, <2>2 DEF VerifyOK, ReadWithinFragments
  <2>7. WholeRequestSucceeds' /\ RangesExact'
    BY <1>5, <2>1 DEF WholeRequestSucceeds, RangesExact, NoOut
  <2> QED BY <2>3, <2>4, <2>5, <2>6, <2>7
<1> QED BY <1>6, <1>7

\* Of a sorted request that names all lost data, the next index is data, or
\* all data is there: so it is rebuilt if the data can be.
LEMMA NextSucceeds ==
  ASSUME StripeInv, pc = "loop", todo # <<>>,
         DataIndexes(driver) \ Idx(have) \subseteq ToSet(list),
         Recovers(driver, Idx(have))
  PROVE  Rebuilds(driver, Idx(have), Head(todo)) = {TRUE}
<1> USE DEF StripeInv
<1>1. /\ Ascending(list) /\ Len(built) + Len(todo) = Len(list)
      /\ \A j \in 1..Len(built) : list[j] \in Idx(have)
      /\ \A j \in 1..Len(todo) : todo[j] = list[Len(built) + j]
      /\ ToSet(list) \subseteq DOMAIN store /\ DOMAIN store = Indexes(driver)
  BY DEF LoopOK, Rebuilding, StoreOK
<1>2. list \in Seq(Int) /\ todo \in Seq(Int) /\ Len(built) \in Nat
  BY DEF FrameOK
<1> DEFINE b == Len(built)
           i == Head(todo)
<1>3. i = list[b + 1] /\ b + 1 \in 1..Len(list)
  BY <1>1, <1>2
<1> HIDE DEF i, b
<1>4. i \in Indexes(driver) /\ i \in Int
  <2>1. i \in ToSet(list)
    BY <1>2, <1>3 DEF ToSet
  <2> QED BY <1>1, <2>1 DEF Indexes
<1>7. driver.k \in Int
  BY Accepted DEF TypeOK, DriverOK, Driver
<1>5. CASE i \in DataIndexes(driver)
  BY <1>5 DEF Rebuilds, i
<1>6. CASE i \notin DataIndexes(driver)
  <2>1. ASSUME NEW d \in DataIndexes(driver), d \notin Idx(have) PROVE FALSE
    <3>1. PICK j \in 1..Len(list) : list[j] = d
      BY <1>2, <2>1 DEF ToSet
    <3>2. j > b
      BY <1>1, <1>2, <2>1, <3>1 DEF b
    <3>3. \/ j = b + 1
          \/ list[b + 1] < list[j]
      <4>1. DOMAIN list = 1..Len(list)
        BY <1>2
      <4>2. j = b + 1 \/ b + 1 < j
        BY <1>2, <3>2 DEF b
      <4>3. \A x, y \in DOMAIN list : x < y => list[x] < list[y]
        BY <1>1 DEF Ascending
      <4> QED BY <1>3, <4>1, <4>2, <4>3
    <3>4. d < driver.k /\ d \in Int /\ i <= d
      <4>1. d < driver.k /\ d \in Int
        BY <1>7 DEF DataIndexes
      <4>2. i = d \/ i < d
        BY <1>3, <3>1, <3>3
      <4> QED BY <1>4, <4>1, <4>2
    <3>5. 0 <= i /\ i < driver.k
      BY <1>4, <1>7, <3>4 DEF Indexes
    <3> QED BY <1>4, <1>6, <1>7, <3>5 DEF DataIndexes
  <2>2. DataIndexes(driver) \subseteq Idx(have)
    BY <2>1
  <2> QED BY <1>4, <2>2 DEF Rebuilds, i
<1> QED BY <1>5, <1>6 DEF i

LEMMA RebuiltFragment ==
  ASSUME have \subseteq Fragments, \A f \in have : f.size = size,
         size \in 0..Whole, NEW i \in Int
  PROVE  Rebuilt(i) \in Fragments /\ Rebuilt(i).idx = i /\ Rebuilt(i).size = size
<1>1. CASE i \in Idx(have)
  <2>1. \E f \in have : f.idx = i
    BY <1>1 DEF Idx
  <2>2. Rebuilt(i) \in have /\ Rebuilt(i).idx = i
    BY <1>1, <2>1 DEF Rebuilt
  <2> QED BY <2>2
<1>2. CASE i \notin Idx(have)
  BY <1>2 DEF Rebuilt, Fragments
<1> QED BY <1>1, <1>2

LEMMA RebuildNextInv == StripeInv /\ RebuildNext => StripeInv'
<1> SUFFICES ASSUME StripeInv, RebuildNext PROVE StripeInv'
  OBVIOUS
<1> USE DEF StripeInv
<1> DEFINE i == Head(todo)
<1>1. PICK ok \in IF size = Whole THEN Rebuilds(driver, Idx(have), i) ELSE {FALSE} :
        \/ /\ ok
           /\ built' = Append(built, Rebuilt(i))
           /\ have'  = have \cup {Rebuilt(i)}
           /\ todo'  = Tail(todo)
           /\ UNCHANGED <<pc, out>>
        \/ /\ ~ok
           /\ Answer("reconstruct", "ECInsufficientFragments", <<>>, <<>>)
           /\ built' = <<>>
           /\ UNCHANGED <<have, todo>>
  BY DEF RebuildNext
<1>2. pc = "loop" /\ todo # <<>> /\ UNCHANGED <<args, driver, store, faults, list, size>>
  BY DEF RebuildNext
<1>3. /\ list \in Seq(Int) /\ todo \in Seq(Int) /\ built \in Seq(Fragments)
      /\ have \subseteq Fragments /\ size \in 0..Whole
      /\ out = NoOut /\ driver.lib = "ECPyECLibDriver"
  BY <1>2 DEF FrameOK
<1>4. i \in Int
  BY <1>2, <1>3
<1>5. Rebuilt(i) \in Fragments /\ Rebuilt(i).idx = i /\ Rebuilt(i).size = size
  BY <1>3, <1>4, RebuiltFragment DEF ReadWithinFragments
<1>6. /\ Ascending(list) /\ ToSet(list) \subseteq DOMAIN store
      /\ Len(built) + Len(todo) = Len(list)
      /\ \A j \in 1..Len(built) : built[j].idx = list[j] /\ list[j] \in Idx(have)
      /\ \A j \in 1..Len(todo) : todo[j] = list[Len(built) + j]
  BY <1>2 DEF LoopOK, Rebuilding
<1>7. CASE ok
  <2>1. /\ size = Whole
        /\ built' = Append(built, Rebuilt(i)) /\ have' = have \cup {Rebuilt(i)}
        /\ todo' = Tail(todo) /\ UNCHANGED <<pc, out>>
    BY <1>1, <1>7
  <2>2. Len(built') = Len(built) + 1 /\ Len(todo') = Len(todo) - 1 /\ Len(todo) > 0
    BY <1>2, <1>3, <1>5, <2>1
  <2>3. built' \in Seq(Fragments) /\ todo' \in Seq(Int) /\ have' \subseteq Fragments
    BY <1>2, <1>3, <1>5, <2>1
  <2>4. TypeOK'
    BY <1>2, <1>3, <1>6, <2>1, <2>2 DEF TypeOK, Whole
  <2>5. DriverOK' /\ StoreOK'
    BY <1>2, <2>1 DEF DriverOK, StoreOK
  <2>6. list # <<>>
    BY <1>2 DEF FrameOK
  <2>7. FrameOK'
    BY <1>2, <1>3, <2>1, <2>3, <2>6 DEF FrameOK, NoOut
  <2>8. /\ Idx(have') = Idx(have) \cup {i}
        /\ i = list[Len(built) + 1]
    <3>1. Idx(have') = Idx(have) \cup {i}
      BY <1>5, <2>1 DEF Idx
    <3>2. 1 \in 1..Len(todo) /\ i = todo[1]
      BY <1>2, <1>3
    <3> QED BY <1>6, <3>1, <3>2
  <2>9. \A j \in 1..Len(built') : built'[j].idx = list[j] /\ list[j] \in Idx(have')
    <3>1. ASSUME NEW j \in 1..Len(built)
          PROVE  built'[j].idx = list[j] /\ list[j] \in Idx(have')
      <4>1. built'[j] = built[j]
        BY <1>3, <1>5, <2>1
      <4> QED BY <1>6, <2>8, <4>1
    <3>2. LET j == Len(built) + 1 IN built'[j].idx = list[j] /\ list[j] \in Idx(have')
      <4>1. built'[Len(built) + 1] = Rebuilt(i)
        BY <1>3, <1>5, <2>1
      <4> QED BY <1>5, <2>8, <4>1
    <3>3. \A j \in 1..Len(built') : j \in 1..Len(built) \/ j = Len(built) + 1
      BY <1>3, <2>2
    <3> QED BY <3>1, <3>2, <3>3
  <2>10. \A j \in 1..Len(todo') : todo'[j] = list[Len(built') + j]
    BY <1>2, <1>3, <1>6, <2>1, <2>2
  <2>11. Len(built') + Len(todo') = Len(list)
    <3>1. Len(built) \in Nat /\ Len(todo) \in Nat /\ Len(list) \in Nat
      BY <1>3
    <3>2. Len(built) + Len(todo) = Len(list)
      BY <1>6
    <3> QED BY <2>2, <3>1, <3>2
  <2>12. LoopOK'
    <3>1. Ascending(list)' /\ (ToSet(list) \subseteq DOMAIN store)' /\ pc' = "loop"
      BY <1>2, <1>6, <2>1 DEF Ascending, ToSet
    <3> QED BY <2>9, <2>10, <2>11, <3>1, <1>2 DEF LoopOK, Idx
  <2>13. VerifyOK' /\ ReadWithinFragments'
    BY <1>2, <1>5, <2>1 DEF VerifyOK, ReadWithinFragments
  <2>14. WholeRequestSucceeds' /\ RangesExact'
    BY <1>3, <2>1 DEF WholeRequestSucceeds, RangesExact, NoOut
  <2> QED BY <2>4, <2>5, <2>7, <2>12, <2>13, <2>14
<1>8. CASE ~ok
  <2>1. /\ pc' = "returned" /\ built' = <<>> /\ UNCHANGED <<have, todo>>
        /\ out'.call = "reconstruct" /\ out'.error = "ECInsufficientFragments"
    BY <1>1, <1>8 DEF Answer
  <2>2. TypeOK' /\ DriverOK' /\ StoreOK'
    BY <1>2, <1>3, <1>6, <2>1 DEF TypeOK, DriverOK, StoreOK
  <2>3. FrameOK'
    BY <1>2, <1>3, <2>1 DEF FrameOK
  <2>4. LoopOK' /\ VerifyOK' /\ ReadWithinFragments' /\ RangesExact'
    BY <1>2, <2>1 DEF LoopOK, Rebuilding, VerifyOK, ReadWithinFragments, RangesExact
  <2>5. WholeRequestSucceeds'
    <3>1. SUFFICES ASSUME size = Whole,
                          DataIndexes(driver) \ Idx(have) \subseteq ToSet(list),
                          Recovers(driver, Idx(have))
                   PROVE  FALSE
      BY <1>2, <2>1 DEF WholeRequestSucceeds, Idx
    <3>2. Rebuilds(driver, Idx(have), i) = {TRUE}
      BY <1>2, <3>1, NextSucceeds
    <3> QED BY <1>1, <1>8, <3>1, <3>2
  <2> QED BY <2>2, <2>3, <2>4, <2>5
<1> QED BY <1>7, <1>8

LEMMA ReconstructReturnInv == StripeInv /\ ReconstructReturn => StripeInv'
<1> SUFFICES ASSUME StripeInv, ReconstructReturn PROVE StripeInv'
  OBVIOUS
<1> USE DEF StripeInv
<1>1. /\ pc = "loop" /\ todo = <<>> /\ pc' = "returned"
      /\ out'.call = "reconstruct" /\ out'.error = "none"
      /\ UNCHANGED <<args, driver, store, faults, frame>>
  BY DEF ReconstructReturn, Answer
<1>2. driver.lib = "ECPyECLibDriver"
  BY <1>1 DEF FrameOK
<1>3. TypeOK' /\ DriverOK' /\ StoreOK' /\ FrameOK'
  BY <1>1, <1>2 DEF TypeOK, DriverOK, StoreOK, FrameOK, frame
<1>4. LoopOK'
  BY <1>1 DEF LoopOK, Rebuilding, frame
<1>5. VerifyOK' /\ ReadWithinFragments' /\ WholeRequestSucceeds' /\ RangesExact'
  BY <1>1 DEF VerifyOK, ReadWithinFragments, WholeRequestSucceeds, RangesExact, frame
<1> QED BY <1>3, <1>4, <1>5

\* The steps that forget a call.
LEMMA Forgotten ==
  ASSUME StripeInv, Forget, pc' \notin {"loop", "returned"},
         UNCHANGED <<args, driver, faults>>, StoreOK', DriverOK',
         pc' \in {"made", "idle"}, pc = "returned",
         pc' = "idle" => driver.lib = "ECPyECLibDriver"
  PROVE  StripeInv'
<1> USE DEF StripeInv
<1>1. /\ out' = NoOut /\ have' = {} /\ size' = 0
      /\ list' = <<>> /\ todo' = <<>> /\ built' = <<>>
  BY DEF Forget
<1>2. TypeOK'
  BY <1>1 DEF TypeOK, StoreOK, Fragments, DriverOK
<1>3. FrameOK'
  BY <1>1 DEF FrameOK, Whole, NoOut
<1> QED BY <1>1, <1>2, <1>3, Silent

LEMMA PutBackInv == StripeInv /\ PutBack => StripeInv'
<1> SUFFICES ASSUME StripeInv, PutBack PROVE StripeInv'
  OBVIOUS
<1> USE DEF StripeInv
<1>1. /\ pc = "returned" /\ out.call = "reconstruct" /\ out.error = "none"
      /\ driver.lib = "ECPyECLibDriver" /\ pc' = "idle" /\ Forget
      /\ UNCHANGED <<args, driver, faults>>
      /\ store' = [i \in DOMAIN store |->
                     IF \E j \in 1..Len(list) : list[j] = i
                       THEN built[CHOOSE j \in 1..Len(list) : list[j] = i] ELSE store[i]]
  BY DEF PutBack
<1>2. /\ Len(built) + Len(todo) = Len(list) /\ todo = <<>>
      /\ \A j \in 1..Len(built) : built[j].idx = list[j]
      /\ built \in Seq(Fragments)
  BY <1>1 DEF LoopOK, Rebuilding, FrameOK
<1>3. \A j \in 1..Len(list) : built[j] \in Fragments /\ built[j].idx = list[j]
  BY <1>2
<1>4. ASSUME NEW i \in DOMAIN store, store'[i] # Lost
      PROVE  store'[i] \in Fragments /\ store'[i].idx = i
  <2>1. CASE \E j \in 1..Len(list) : list[j] = i
    <3>1. PICK j \in 1..Len(list) : list[j] = i /\ store'[i] = built[j]
      BY <1>1, <2>1
    <3> QED BY <1>3, <3>1
  <2>2. CASE ~ \E j \in 1..Len(list) : list[j] = i
    BY <1>1, <1>4, <2>2 DEF StoreOK
  <2> QED BY <2>1, <2>2
<1>5. StoreOK' /\ DriverOK'
  BY <1>1, <1>4 DEF StoreOK, DriverOK
<1> QED BY <1>1, <1>5, Forgotten

LEMMA GoOnInv == StripeInv /\ GoOn => StripeInv'
<1> SUFFICES ASSUME StripeInv, GoOn PROVE StripeInv'
  OBVIOUS
<1> USE DEF StripeInv
<1>1. /\ pc = "returned" /\ Forget /\ UNCHANGED <<args, driver, store, faults>>
      /\ pc' = IF driver.lib = "ECNullDriver" THEN "made" ELSE "idle"
  BY DEF GoOn
<1>2. driver.lib \in {"ECPyECLibDriver", "ECNullDriver"}
  BY <1>1 DEF TypeOK
<1>3. StoreOK' /\ DriverOK'
  BY <1>1, <1>2 DEF StoreOK, DriverOK
<1> QED BY <1>1, <1>2, <1>3, Forgotten

-----------------------------------------------------------------------------
(* verify_stripe_metadata() and fragments_needed()                         *)

\* The metadata of all fragments of a stripe, and the bad ones among them.
LEMMA MetadataOfStripe ==
  ASSUME StoreOK, Held = DOMAIN store, NEW lucky,
         NEW order \in Seq(Held), ToSet(order) = Held
  PROVE  LET metadata == [j \in 1..Len(order) |-> Metadata(order[j], lucky)]
         IN  BadFragments(metadata) =
               {i \in DOMAIN store : driver.inline_chksum /\ ~Metadata(i, lucky).sum}
<1> DEFINE metadata == [j \in 1..Len(order) |-> Metadata(order[j], lucky)]
<1>1. \A i \in DOMAIN store : Metadata(i, lucky).idx = i
  BY DEF Metadata, StoreOK, Held
<1>2. ToSet(metadata) = {Metadata(i, lucky) : i \in DOMAIN store}
  <2>1. Len(metadata) = Len(order) /\ DOMAIN metadata = 1..Len(order)
    OBVIOUS
  <2>2. ToSet(metadata) = {Metadata(order[j], lucky) : j \in 1..Len(order)}
    BY <2>1 DEF ToSet
  <2>3. Held = {order[j] : j \in 1..Len(order)}
    <3>1. DOMAIN order = 1..Len(order)
      OBVIOUS
    <3> QED BY <3>1 DEF ToSet
  <2>4. \A j \in 1..Len(order) : order[j] \in DOMAIN store
    BY <2>3
  <2>5. \A i \in DOMAIN store : \E j \in 1..Len(order) : order[j] = i
    BY <2>3
  <2> HIDE DEF metadata
  <2> QED BY <2>2, <2>4, <2>5
<1>3. BadFragments(metadata) =
        {f.idx : f \in {g \in {Metadata(i, lucky) : i \in DOMAIN store} :
                          driver.inline_chksum /\ ~g.sum}}
  BY <1>2 DEF BadFragments
<1>4. ASSUME NEW i \in BadFragments(metadata)
      PROVE  i \in DOMAIN store /\ driver.inline_chksum /\ ~Metadata(i, lucky).sum
  BY <1>1, <1>3
<1>5. ASSUME NEW i \in DOMAIN store, driver.inline_chksum, ~Metadata(i, lucky).sum
      PROVE  i \in BadFragments(metadata)
  BY <1>1, <1>3, <1>5
<1> QED BY <1>4, <1>5

LEMMA VerifyInv == StripeInv /\ VerifyStripeMetadata => StripeInv'
<1> SUFFICES ASSUME StripeInv, VerifyStripeMetadata PROVE StripeInv'
  OBVIOUS
<1> USE DEF StripeInv
<1>2. pc = "idle" /\ UNCHANGED <<args, driver, store, faults, frame>>
  BY DEF VerifyStripeMetadata
<1> DEFINE Metadatas(order, lucky) == [j \in 1..Len(order) |-> Metadata(order[j], lucky)]
           Orders == IF Held = DOMAIN store THEN SetToSeqs(Held) ELSE {SetToSeq(Held)}
<1>1. \/ Answer("get_metadata", "ECInvalidFragmentMetadata", <<>>, <<>>)
      \/ \E order \in Orders, lucky \in SUBSET CutShort :
           IF Len(Metadatas(order, lucky)) # driver.k + driver.m
             THEN Answer("verify", "ECInvalidParameter", <<>>, <<>>)
             ELSE Answer("verify", "none", SetToSeq(BadFragments(Metadatas(order, lucky))), <<>>)
  BY DEF VerifyStripeMetadata
<1> HIDE DEF Metadatas, Orders
<1>3. pc' = "returned" /\ out'.call \in {"verify", "get_metadata"}
  BY <1>1 DEF Answer
<1>4. /\ list = <<>> /\ todo = <<>> /\ built = <<>> /\ have = {}
      /\ driver.lib = "ECPyECLibDriver" /\ DOMAIN store = Indexes(driver)
  BY <1>2 DEF FrameOK, StoreOK
<1>5. IsFiniteSet(Held) /\ Held \subseteq DOMAIN store
  BY FS_Subset DEF StoreOK, Held
<1>7. ASSUME out'.call = "verify", out'.error = "none"
      PROVE  /\ Held = DOMAIN store
             /\ ToSet(out'.value) # {} => driver.inline_chksum
             /\ \A i \in DOMAIN store :
                  store[i].size = Whole =>
                    (i \in ToSet(out'.value) <=> driver.inline_chksum /\ ~store[i].sum)
  <2>0. ~Answer("get_metadata", "ECInvalidFragmentMetadata", <<>>, <<>>)
    BY <1>7 DEF Answer
  <2>1. PICK order \in Orders, lucky \in SUBSET CutShort :
          IF Len(Metadatas(order, lucky)) # driver.k + driver.m
            THEN Answer("verify", "ECInvalidParameter", <<>>, <<>>)
            ELSE Answer("verify", "none", SetToSeq(BadFragments(Metadatas(order, lucky))), <<>>)
    BY <1>1, <2>0
  <2> DEFINE metadata == Metadatas(order, lucky)
  <2>2. order \in Seq(Held) /\ Len(order) = Cardinality(Held) /\ ToSet(order) = Held
    BY <1>5, SetAsSeq, OrderOfSet DEF Orders
  <2>3. Len(metadata) = Len(order)
    BY <2>2 DEF Metadatas
  <2>4. /\ Len(order) = driver.k + driver.m
        /\ out'.value = SetToSeq(BadFragments(metadata))
    BY <1>7, <2>1, <2>3 DEF Answer
  <2>5. driver.k \in Int /\ driver.k > 0 /\ driver.m \in Int /\ driver.m > 0
    BY <1>2, Accepted DEF TypeOK, DriverOK, Driver
  <2>6. Cardinality(DOMAIN store) = driver.k + driver.m
    <3>1. DOMAIN store = 0 .. driver.k + driver.m - 1
      BY <1>4 DEF Indexes
    <3>2. Cardinality(0 .. driver.k + driver.m - 1) = driver.k + driver.m
      <4> DEFINE b == driver.k + driver.m - 1
      <4>1. b \in Int /\ b >= 0 /\ b + 1 = driver.k + driver.m
        BY <2>5
      <4> HIDE DEF b
      <4>2. Cardinality(0 .. b) = b + 1
        BY <4>1, FS_Interval
      <4> QED BY <4>1, <4>2 DEF b
    <3> QED BY <3>1, <3>2
  <2>7. Held = DOMAIN store
    BY <1>5, <2>2, <2>4, <2>6, FS_Subset DEF StoreOK
  <2>8. BadFragments(metadata) =
          {i \in DOMAIN store : driver.inline_chksum /\ ~Metadata(i, lucky).sum}
    BY <2>2, <2>7, MetadataOfStripe DEF Metadatas
  <2> HIDE DEF metadata
  <2>9. IsFiniteSet(BadFragments(metadata))
    BY <2>8, FS_Subset DEF StoreOK
  <2>10. ToSet(out'.value) = {i \in DOMAIN store : driver.inline_chksum /\ ~Metadata(i, lucky).sum}
    BY <2>4, <2>8, <2>9, SetAsSeq
  <2>11. \A i \in DOMAIN store : store[i].size = Whole => Metadata(i, lucky).sum = store[i].sum
    BY DEF Metadata, CutShort
  <2> QED BY <2>7, <2>10, <2>11
<1>8. TypeOK' /\ DriverOK' /\ StoreOK'
  BY <1>2, <1>3, <1>4 DEF TypeOK, DriverOK, StoreOK, frame
<1>9. FrameOK'
  BY <1>2, <1>3, <1>4 DEF FrameOK, frame
<1>10. VerifyOK'
  BY <1>2, <1>7 DEF VerifyOK, Held
<1>11. LoopOK' /\ ReadWithinFragments' /\ WholeRequestSucceeds' /\ RangesExact'
  BY <1>2, <1>3 DEF LoopOK, Rebuilding, ReadWithinFragments, WholeRequestSucceeds,
     RangesExact, frame
<1> QED BY <1>8, <1>9, <1>10, <1>11

LEMMA DropBadInv == StripeInv /\ DropBad => StripeInv'
<1> SUFFICES ASSUME StripeInv, DropBad PROVE StripeInv'
  OBVIOUS
<1> USE DEF StripeInv
<1>1. /\ pc = "returned" /\ out.call = "verify" /\ driver.lib = "ECPyECLibDriver"
      /\ store' = [i \in DOMAIN store |-> IF i \in ToSet(out.value) THEN Lost ELSE store[i]]
      /\ pc' = "idle" /\ out' = NoOut
      /\ UNCHANGED <<args, driver, faults, frame>>
  BY DEF DropBad
<1>2. list = <<>> /\ todo = <<>> /\ built = <<>> /\ have = {}
  BY <1>1 DEF FrameOK
<1>3. StoreOK'
  BY <1>1 DEF StoreOK
<1>4. TypeOK' /\ DriverOK'
  BY <1>1 DEF TypeOK, DriverOK, frame
<1>5. FrameOK'
  BY <1>1, <1>2 DEF FrameOK, frame, NoOut
<1> QED BY <1>1, <1>2, <1>3, <1>4, <1>5, Silent DEF frame

LEMMA FragmentsNeededInv == StripeInv /\ FragmentsNeeded => StripeInv'
<1> SUFFICES ASSUME StripeInv, FragmentsNeeded PROVE StripeInv'
  OBVIOUS
<1> USE DEF StripeInv
<1>1. /\ pc = "idle" /\ pc' = "returned" /\ out'.call = "fragments_needed"
      /\ UNCHANGED <<args, driver, store, faults, frame>>
  BY DEF FragmentsNeeded, Answer
<1>2. list = <<>> /\ todo = <<>> /\ built = <<>> /\ have = {} /\ driver.lib = "ECPyECLibDriver"
  BY <1>1 DEF FrameOK
<1>3. TypeOK' /\ DriverOK' /\ StoreOK' /\ FrameOK'
  BY <1>1, <1>2 DEF TypeOK, DriverOK, StoreOK, FrameOK, frame
<1>4. LoopOK' /\ VerifyOK' /\ ReadWithinFragments' /\ WholeRequestSucceeds' /\ RangesExact'
  BY <1>1 DEF LoopOK, Rebuilding, VerifyOK, ReadWithinFragments, WholeRequestSucceeds,
     RangesExact, frame
<1> QED BY <1>3, <1>4

LEMMA StutterInv == StripeInv /\ UNCHANGED vars => StripeInv'
<1> SUFFICES ASSUME StripeInv, UNCHANGED vars PROVE StripeInv'
  OBVIOUS
<1> USE DEF StripeInv, vars, frame
<1>1. TypeOK' /\ DriverOK' /\ StoreOK' /\ FrameOK'
  BY DEF TypeOK, DriverOK, StoreOK, FrameOK
<1>2. LoopOK'
  BY DEF LoopOK, Rebuilding
<1>3. VerifyOK'
  BY DEF VerifyOK, Held
<1>4. ReadWithinFragments' /\ WholeRequestSucceeds' /\ RangesExact'
  BY DEF ReadWithinFragments, WholeRequestSucceeds, RangesExact
<1> QED BY <1>1, <1>2, <1>3, <1>4

LEMMA RefusedStutters == Refused => UNCHANGED vars
BY DEF Refused

LEMMA NextInv == StripeInv /\ [Next]_vars => StripeInv'
BY ConstructInv, NullInv, EncodeInv, FaultInv, DecodeInv, ReconstructInv, RebuildNextInv,
   ReconstructReturnInv, PutBackInv, VerifyInv, DropBadInv, FragmentsNeededInv, GoOnInv,
   StutterInv, RefusedStutters DEF Next

-----------------------------------------------------------------------------
(* Theorems.                                                               *)

\* The inductive invariant, for any arguments, losses, lists and ranges.
THEOREM StripeInvariance == Spec => []StripeInv
BY InitInv, NextInv, PTL DEF Spec

\* Every reachable state of Stripe is well formed.
THEOREM StripeTypes == Spec => []TypeOK
<1>1. StripeInv => TypeOK
  BY DEF StripeInv
<1> QED BY <1>1, StripeInvariance, PTL

\* Fragments are stored under their own indexes, however many were rebuilt in
\* one call and in whatever order they were asked for (core.py:165).
THEOREM FragmentsStayInPlace == Spec => []KeptInPlace
<1>1. StripeInv => KeptInPlace
  BY DEF StripeInv, StoreOK, KeptInPlace
<1> QED BY <1>1, StripeInvariance, PTL

\* decode() and reconstruct() tell C no length beyond the end of a fragment
\* (core.py:102-124).
THEOREM NoReadPastTheEnd == Spec => []ReadWithinFragments
<1>1. StripeInv => ReadWithinFragments
  BY DEF StripeInv
<1> QED BY <1>1, StripeInvariance, PTL

\* A request for all lost data and any parities succeeds if the data can be
\* recovered, for every code: the proof uses nothing of Recovers but that data
\* is rebuilt from fragments that recover it and a parity from all data.
THEOREM WholeRequestsSucceed == Spec => []WholeRequestSucceeds
<1>1. StripeInv => WholeRequestSucceeds
  BY DEF StripeInv
<1> QED BY <1>1, StripeInvariance, PTL

\* For all pairs of C longs, and objects of at most half the word, the check in
\* uint64_t is one of the end alone; what begins in the object is answered
\* exactly, and nothing else that passes is (pyeclib_c.c:853-905).
THEOREM RangesAreExact == Spec => []RangesExact
<1>1. StripeInv => RangesExact
  BY DEF StripeInv
<1> QED BY <1>1, StripeInvariance, PTL

\* The repr of any driver that has a code is accepted, and makes that driver
\* without its checksums, its local parities and its library class, and with
\* nothing else changed.
THEOREM ReprsRebuild == Spec => []ReprRebuilds
<1>1. StripeInv => ReprRebuilds
  <2> SUFFICES ASSUME StripeInv, pc \notin {"new", "refused"}, driver.ec_type # NoType
               PROVE  /\ Verdict(WithDefaults(Repr(driver))) = "ok"
                      /\ Driver(WithDefaults(Repr(driver))) =
                           [ec_type |-> driver.ec_type, k |-> driver.k, m |-> driver.m,
                            hd |-> driver.hd, lib |-> "ECPyECLibDriver",
                            inline_chksum |-> FALSE, local_parity |-> 0]
    BY DEF ReprRebuilds
  <2> DEFINE again == WithDefaults(Repr(driver))
  <2>1. driver = Driver(args) /\ Verdict(args) = "ok" /\ args \in Arguments
    BY DEF StripeInv, TypeOK, DriverOK
  <2>2. /\ args.k \in Int /\ args.k > 0 /\ args.m \in Int /\ args.m > 0
        /\ Looked(args.ec_type) => BackendOf(args.ec_type) \in PyECLib_EC_Types
    BY <2>1, Accepted
  <2>3. Looked(args.ec_type) /\ driver.ec_type = BackendOf(args.ec_type)
    BY <2>1 DEF Driver
  <2>4. /\ driver.k = args.k /\ driver.m = args.m
        /\ driver.hd = HammingDistance(args.ec_type, args.m)
    BY <2>1 DEF Driver
  <2>5. /\ again.ec_type \in ALL_EC_TYPES
        /\ BackendOf(again.ec_type) = driver.ec_type
        /\ HammingDistance(again.ec_type, args.m) = driver.hd
    BY <2>2, <2>3, <2>4 DEF WithDefaults, Repr, BackendOf, XorNames, PyECLib_EC_Types, ALL_EC_TYPES,
       HammingDistance
  <2>6. Looked(again.ec_type) /\ again.ec_type # NoType
    <3>1. ALL_EC_TYPES \subseteq PyECLib_EC_Types \cup XorNames
      BY DEF ALL_EC_TYPES, XorNames
    <3>2. "" \notin PyECLib_EC_Types \cup XorNames
      BY DEF PyECLib_EC_Types, XorNames
    <3> QED BY <2>5, <3>1, <3>2, NotGiven DEF Looked
  <2>7. Verdict(again) = "ok"
    <3>1. \A i \in 1..8 : ~Checks(again)[i][1]
      <4>1. again.k = args.k /\ again.m = args.m
        BY <2>4 DEF WithDefaults, Repr
      <4>2. ~(NotPositive(again.k) \/ NotPositive(again.m)) /\ 0 # NoNumber
        <5>1. NoNumber \notin Int
          BY NotGiven
        <5> QED BY <2>2, <4>1, <5>1 DEF NotPositive, IsPositive
      <4>3. ~(Looked(again.ec_type) /\ BackendOf(again.ec_type) \notin PyECLib_EC_Types)
        BY <2>2, <2>3, <2>5
      <4>4. again.chksum_type \in PyECLib_FRAGHDRCHKSUM_Types
        BY DEF WithDefaults, PyECLib_FRAGHDRCHKSUM_Types
      <4>5. again.lib = "ECPyECLibDriver" /\ again.local_parity \notin {NoNumber, NoType}
        <5>1. again.lib = "ECPyECLibDriver" /\ again.local_parity = 0
          BY DEF WithDefaults
        <5>2. NoNumber \notin Int /\ NoType \notin Int
          BY NotGiven
        <5> QED BY <5>1, <5>2
      <4> HIDE DEF again
      <4>6. ~Checks(again)[1][1] /\ ~Checks(again)[2][1] /\ ~Checks(again)[3][1] /\ ~Checks(again)[4][1]
        BY <2>6, <4>2, <4>3, <4>5 DEF Checks
      <4>7. ~Checks(again)[5][1] /\ ~Checks(again)[6][1] /\ ~Checks(again)[7][1] /\ ~Checks(again)[8][1]
        BY <2>6, <4>4, <4>5 DEF Checks
      <4>8. \A i \in 1..8 : i = 1 \/ i = 2 \/ i = 3 \/ i = 4 \/ i = 5 \/ i = 6 \/ i = 7 \/ i = 8
        OBVIOUS
      <4> QED BY <4>6, <4>7, <4>8
    <3> QED BY <3>1 DEF Verdict
  <2>8. Driver(again) =
          [ec_type |-> driver.ec_type, k |-> driver.k, m |-> driver.m, hd |-> driver.hd,
           lib |-> "ECPyECLibDriver", inline_chksum |-> FALSE, local_parity |-> 0]
    <3>1. again.k = driver.k /\ again.m = driver.m /\ driver.m = args.m
      BY <2>4 DEF WithDefaults, Repr
    <3>2. /\ again.lib = "ECPyECLibDriver" /\ again.local_parity = 0
          /\ again.chksum_type # "inline_crc32"
      BY DEF WithDefaults
    <3> HIDE DEF again
    <3> QED BY <2>5, <2>6, <3>1, <3>2 DEF Driver
  <2> QED BY <2>7, <2>8
<1> QED BY <1>1, StripeInvariance, PTL

LEMMA OnlyDropBadFollows ==
  ASSUME StripeInv, Next, out.call = "verify", out.error = "none", out'.call = "none"
  PROVE  DropBad \/ DOMAIN store = {}
<1> USE DEF StripeInv
<1>1. pc = "returned"
  <2>1. out # NoOut
    BY DEF NoOut
  <2> QED BY <2>1 DEF FrameOK, NoOut
<1>2. ~(Construct \/ ECNullDriver \/ Encode \/ Fault \/ Decode \/ Reconstruct \/ RebuildNext
         \/ ReconstructReturn \/ VerifyStripeMetadata \/ FragmentsNeeded \/ Refused)
  BY <1>1 DEF Construct, ECNullDriver, Encode, Fault, Decode, Reconstruct, RebuildNext,
     ReconstructReturn, VerifyStripeMetadata, FragmentsNeeded, Refused
<1>4. CASE PutBack
  BY <1>4 DEF PutBack
<1>5. CASE GoOn
  BY <1>5 DEF GoOn, StoreOK
<1> QED BY <1>2, <1>4, <1>5 DEF Next

\* After a stripe check the client drops, of the fragments that are not cut
\* short, exactly those whose checksum does not match, if there are checksums,
\* and without them none at all: the answer names indexes, whatever the order
\* of the metadata (pyeclib_c.c:1102-1197).
THEOREM ScrubIsExact == Spec => ScrubDropsOnlyBad
<1>1. ASSUME StripeInv, [Next]_vars, out.call = "verify", out.error = "none",
             out'.call = "none", NEW i \in DOMAIN store
      PROVE  /\ store'[i] = Lost => args.chksum_type = "inline_crc32"
             /\ store[i].size = Whole =>
                  (store'[i] = Lost <=> args.chksum_type = "inline_crc32" /\ ~store[i].sum)
  <2>1. out' # out
    BY <1>1
  <2>2. DropBad
    BY <1>1, <2>1, OnlyDropBadFollows DEF vars
  <2>3. /\ store'[i] = IF i \in ToSet(out.value) THEN Lost ELSE store[i]
        /\ pc = "returned" /\ driver.lib = "ECPyECLibDriver"
    BY <1>1, <2>2 DEF DropBad
  <2>4. /\ store[i] # Lost
        /\ i \in ToSet(out.value) => driver.inline_chksum
        /\ store[i].size = Whole =>
             (i \in ToSet(out.value) <=> driver.inline_chksum /\ ~store[i].sum)
    BY <1>1, <2>3 DEF StripeInv, VerifyOK, Held
  <2>5. driver.inline_chksum <=> args.chksum_type = "inline_crc32"
    <3>1. driver = Driver(args)
      BY <1>1, <2>3 DEF StripeInv, DriverOK
    <3>2. Driver(args).inline_chksum = (args.chksum_type = "inline_crc32")
      BY DEF Driver
    <3>3. driver.inline_chksum = (args.chksum_type = "inline_crc32")
      BY <3>1, <3>2
    <3> QED BY <3>3
  <2> QED BY <2>3, <2>4, <2>5
<1>2. StripeInv /\ [Next]_vars =>
        [out.call = "verify" /\ out.error = "none" /\ out'.call = "none" =>
           \A i \in DOMAIN store :
             /\ store'[i] = Lost => args.chksum_type = "inline_crc32"
             /\ store[i].size = Whole =>
                  (store'[i] = Lost <=> args.chksum_type = "inline_crc32" /\ ~store[i].sum)]_vars
  BY <1>1
<1> QED BY <1>2, StripeInvariance, PTL DEF Spec, ScrubDropsOnlyBad
=============================================================================
