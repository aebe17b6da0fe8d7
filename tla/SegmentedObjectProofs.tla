----------------------- MODULE SegmentedObjectProofs -----------------------
(***************************************************************************)
(* Proofs about SegmentedObject, for every object length, segment size and *)
(* code.  The integer arithmetic is nonlinear (segment size times number   *)
(* of segments), so each fact about it is a lemma of its own.              *)
(***************************************************************************)
EXTENDS SegmentedObject, WellFoundedInduction, TLAPS

\* A plan's sizes and count are integers that add up to d.
AddsUp(p, d) ==
  /\ p.segment_size \in Int
  /\ p.last_segment_size \in Int
  /\ p.num_segments \in Int
  /\ p.segment_size * (p.num_segments - 1) + p.last_segment_size = d

\* The parts of SizesAddUp's inductive invariant: the arguments are lengths,
\* and every plan returned adds up.
PlanInv ==
  /\ pc \in {"new", "writing", "written"}
  /\ dataLen \in Nat
  /\ segmentSize \in Nat \ {0}
  /\ info.segment_size \in Nat
  /\ pc # "new" => AddsUp(info, dataLen)

\* The fields of a plan are what it was made from.
LEMMA PlanFields ==
  ASSUME NEW size, NEW last, NEW n
  PROVE  /\ Plan(size, last, n).segment_size = size
         /\ Plan(size, last, n).last_segment_size = last
         /\ Plan(size, last, n).num_segments = n
BY DEF Plan

\* A plan made from numbers that add up does.
LEMMA PlanAddsUp ==
  ASSUME NEW size \in Int, NEW last \in Int, NEW n \in Int, NEW d,
         size * (n - 1) + last = d
  PROVE  AddsUp(Plan(size, last, n), d)
<1> DEFINE p == Plan(size, last, n)
<1>1. p.segment_size = size /\ p.last_segment_size = last /\ p.num_segments = n
  BY PlanFields
<1> HIDE DEF p
<1>2. p.segment_size * (p.num_segments - 1) + p.last_segment_size = d
  BY <1>1, Zenon
<1>3. p.segment_size \in Int /\ p.last_segment_size \in Int /\ p.num_segments \in Int
  BY <1>1
<1>4. AddsUp(p, d)
  BY <1>2, <1>3, Zenon DEF AddsUp
<1> QED BY <1>4 DEF p

\* Many segments add up, merged or not, whatever their number.
LEMMA ManyAddUp ==
  ASSUME NEW d \in Int, NEW s \in Int, NEW n \in Int
  PROVE  AddsUp(ManySegments(d, s, n), d)
<1> DEFINE last == d - s * (n - 1)
<1>1. CASE last < MinSegment
  <2>1. ManySegments(d, s, n) = Plan(s, last + s, n - 1)
    BY <1>1 DEF ManySegments
  <2>2. s * ((n - 1) - 1) + (last + s) = d
    <3>1. s * ((n - 1) - 1) = s * (n - 1) - s /\ s * (n - 1) \in Int
      OBVIOUS
    <3> QED BY <3>1
  <2>3. last + s \in Int
    OBVIOUS
  <2> QED BY <2>1, <2>2, <2>3, PlanAddsUp
<1>2. CASE ~(last < MinSegment)
  <2>1. ManySegments(d, s, n) = Plan(s, last, n)
    BY <1>2 DEF ManySegments
  <2>2. s * (n - 1) + last = d /\ last \in Int
    <3>1. s * (n - 1) \in Int
      OBVIOUS
    <3> QED BY <3>1
  <2> QED BY <2>1, <2>2, PlanAddsUp
<1> QED BY <1>1, <1>2

\* A single segment adds up.
LEMMA OneAddsUp ==
  ASSUME NEW d \in Int
  PROVE  AddsUp(OneSegment(d), d)
<1>1. d * (1 - 1) + d = d
  OBVIOUS
<1> QED BY <1>1, PlanAddsUp DEF OneSegment

\* Whatever the overflowing comparison answers, the call's plan adds up.
LEMMA PlansAddUp ==
  ASSUME NEW d \in Nat, NEW s \in Nat \ {0}, NEW p \in SegmentInfos(d, s)
  PROVE  AddsUp(p, d)
<1>1. CeilDiv(d, s) \in Int
  BY DEF CeilDiv
<1>2. p = OneSegment(d) \/ p = ManySegments(d, s, CeilDiv(d, s))
  BY DEF SegmentInfos
<1> QED BY <1>1, <1>2, OneAddsUp, ManyAddUp

\* The segment size of a plan is the one asked for or the whole object's.
LEMMA PlanSize ==
  ASSUME NEW d \in Nat, NEW s \in Nat \ {0}, NEW p \in SegmentInfos(d, s)
  PROVE  p.segment_size = s \/ p.segment_size = d
<1>1. p = OneSegment(d) \/ p = ManySegments(d, s, CeilDiv(d, s))
  BY DEF SegmentInfos
<1> QED BY <1>1, PlanFields DEF OneSegment, ManySegments

\* The initial states satisfy the invariant.
LEMMA InitPlanInv == Init => PlanInv
<1> SUFFICES ASSUME Init PROVE PlanInv
  OBVIOUS
<1>1. dataLen \in Nat /\ segmentSize \in Nat \ {0}
  BY SizesAssumption DEF Init
<1>2. info.segment_size = 0
  BY PlanFields DEF Init, NoPlan
<1> QED BY <1>1, <1>2 DEF Init, PlanInv

\* Every step of the writer and of the reader preserves it.
LEMMA NextPlanInv == PlanInv /\ [Next]_vars => PlanInv'
<1> SUFFICES ASSUME PlanInv, [Next]_vars PROVE PlanInv'
  OBVIOUS
<1>1. CASE GetSegmentInfo
  <2>1. AddsUp(info', dataLen)
    BY <1>1, PlansAddUp DEF GetSegmentInfo, PlanInv
  <2>2. info'.segment_size = segmentSize \/ info'.segment_size = dataLen
    BY <1>1, PlanSize DEF GetSegmentInfo, PlanInv
  <2> QED BY <1>1, <2>1, <2>2 DEF GetSegmentInfo, PlanInv, AddsUp
<1>2. CASE EncodeSegment
  BY <1>2 DEF EncodeSegment, PlanInv, AddsUp
<1>3. CASE Written
  BY <1>3 DEF Written, PlanInv, AddsUp
<1>4. CASE GetByteRange
  <2>1. PICK s \in {segmentSize, info.segment_size} \ {0} :
          info' \in SegmentInfos(dataLen, s)
    BY <1>4 DEF GetByteRange
  <2>2. s \in Nat \ {0}
    BY DEF PlanInv
  <2>3. AddsUp(info', dataLen)
    BY <2>1, <2>2, PlansAddUp DEF PlanInv
  <2>4. info'.segment_size = s \/ info'.segment_size = dataLen
    BY <2>1, <2>2, PlanSize DEF PlanInv
  <2> QED BY <1>4, <2>2, <2>3, <2>4 DEF GetByteRange, PlanInv, AddsUp
<1>5. CASE UNCHANGED vars
  BY <1>5 DEF vars, PlanInv, AddsUp
<1> QED BY <1>1, <1>2, <1>3, <1>4, <1>5 DEF Next

\* The sizes of every plan get_segment_info returns add up to the object, for
\* every length, segment size and code, and although the comparison of its
\* two-segment case may overflow.
THEOREM PlansCoverObjects == Spec => []SizesAddUp
<1>1. PlanInv => SizesAddUp
  BY DEF PlanInv, AddsUp, SizesAddUp
<1> QED BY <1>1, InitPlanInv, NextPlanInv, PTL DEF Spec

-----------------------------------------------------------------------------
(* The stored segments.                                                    *)

LEMMA SizesKinds ==
  /\ MinSegment \in Nat \ {0} /\ 2 * MinSegment <= MaxInt
  /\ \A d \in DataLens : d \in 0..MaxInt
  /\ \A s \in SegmentSizes : s \in 1..MaxInt
<1>1. MinSegment \in Nat \ {0}
  BY SizesAssumption DEF MinSegment
<1> QED BY <1>1, SizesAssumption DEF MinSegment

\* The tail behind the whole segments has 1 to s bytes.
LEMMA TailSize ==
  ASSUME NEW d \in Nat, NEW s \in Nat \ {0}
  PROVE  /\ CeilDiv(d, s) \in Nat
         /\ d - s * (CeilDiv(d, s) - 1) \in 1..s
<1> DEFINE x == d + s - 1
<1>1. x \in Nat
  OBVIOUS
<1>2. x \div s \in Nat /\ x % s \in 0 .. s - 1 /\ x = s * (x \div s) + (x % s)
  BY <1>1, SMTT(30)
<1> QED BY <1>2, SMTT(30) DEF CeilDiv

LEMMA Lengths ==
  ASSUME NEW n \in Nat
  PROVE  FragmentBytes(n) \in Nat
<1>1. CeilDiv(n, MinSegment) \in Nat
  BY SizesKinds, TailSize
<1> QED BY <1>1, SizesAssumption DEF FragmentBytes

LEMMA PlanFragments ==
  ASSUME NEW size, NEW last, NEW n
  PROVE  /\ Plan(size, last, n).fragment_size = EncodedLength(size)
         /\ Plan(size, last, n).last_fragment_size = EncodedLength(last)
BY DEF Plan, EncodedLength

\* The three ways a plan is made: one segment, a tail of its own, a tail that
\* was too short and belongs to the segment before it.
LEMMA PlanKinds ==
  ASSUME NEW d \in 0..MaxInt, NEW s \in 1..MaxInt, NEW p \in SegmentInfos(d, s)
  PROVE  \E n \in Nat, last \in 1..s :
           /\ s * (n - 1) = d - last
           /\ n = 0 <=> d = 0
           /\ \/ /\ p = OneSegment(d)
                 /\ n = 1 \/ (n = 2 /\ d < s + MinSegment)
              \/ n # 1 /\ last >= MinSegment /\ p = Plan(s, last, n)
              \/ n # 1 /\ last < MinSegment /\ p = Plan(s, last + s, n - 1)
<1> DEFINE n == CeilDiv(d, s)
           last == d - s * (n - 1)
<1>1. n \in Nat /\ last \in 1..s
  BY TailSize
<1>2. /\ s * (n - 1) = d - last
      /\ n = 0 => s * (n - 1) = -s
      /\ n >= 1 => s * (n - 1) >= 0
  <2>1. n \in Nat
    BY <1>1
  <2> HIDE DEF n
  <2>2. s * (n - 1) \in Int /\ (n = 0 => s * (n - 1) = -s)
    BY <2>1
  <2>3. n >= 1 => s * (n - 1) >= 0
    BY <2>1
  <2> QED BY <2>2, <2>3
<1>3. PICK fits \in FitsInOne(d, s) :
        p = IF n = 1 \/ (n = 2 /\ fits) THEN OneSegment(d) ELSE ManySegments(d, s, n)
  BY DEF SegmentInfos
<1>4. fits => d < s + MinSegment
  <2> HIDE DEF n, last
  <2>1. (fits <=> d < s + MinSegment) \/ s + MinSegment > MaxInt
    BY Zenon DEF FitsInOne
  <2>2. s + MinSegment > MaxInt => d < s + MinSegment
    BY SizesKinds, SizesAssumption
  <2> QED BY <2>1, <2>2, Zenon
<1>5. ManySegments(d, s, n) =
        IF last < MinSegment THEN Plan(s, last + s, n - 1) ELSE Plan(s, last, n)
  BY DEF ManySegments
<1> HIDE DEF n, last
<1>6. n = 0 <=> d = 0
  BY <1>1, <1>2
<1>7. ~(last < MinSegment) => last >= MinSegment
  BY <1>1, SizesKinds
<1>8. \/ p = OneSegment(d) /\ (n = 1 \/ (n = 2 /\ d < s + MinSegment))
      \/ n # 1 /\ last >= MinSegment /\ p = Plan(s, last, n)
      \/ n # 1 /\ last < MinSegment /\ p = Plan(s, last + s, n - 1)
  <2>1. CASE n = 1 \/ (n = 2 /\ fits)
    <3>1. p = OneSegment(d)
      BY <1>3, <2>1, Zenon
    <3>2. n = 1 \/ (n = 2 /\ d < s + MinSegment)
      BY <1>4, <2>1
    <3> QED BY <3>1, <3>2
  <2>2. CASE ~(n = 1 \/ (n = 2 /\ fits))
    <3>1. n # 1 /\ p = ManySegments(d, s, n)
      BY <1>3, <2>2, Zenon
    <3>2. CASE last < MinSegment
      BY <1>5, <3>1, <3>2
    <3>3. CASE ~(last < MinSegment)
      BY <1>5, <1>7, <3>1, <3>3
    <3> QED BY <3>2, <3>3
  <2> QED BY <2>1, <2>2, Zenon
<1> QED BY <1>1, <1>2, <1>6, <1>8, Zenon

\* The three ways in numbers.
LEMMA PlanNumbers ==
  ASSUME NEW d \in 0..MaxInt, NEW s \in 1..MaxInt, NEW p \in SegmentInfos(d, s)
  PROVE  \E n \in Nat, last \in 1..s :
           /\ n = 0 => d = 0 /\ last = s
           /\ n = 1 => d = last
           /\ n = 2 => d = last + s
           /\ n >= 2 => d >= last + s
           /\ \/ p = OneSegment(d) /\ (n = 1 \/ (n = 2 /\ d < s + MinSegment))
              \/ n # 1 /\ last >= MinSegment /\ p = Plan(s, last, n)
              \/ n # 1 /\ last < MinSegment /\ p = Plan(s, last + s, n - 1)
<1>1. PICK n \in Nat, last \in 1..s :
        /\ s * (n - 1) = d - last
        /\ n = 0 <=> d = 0
        /\ \/ p = OneSegment(d) /\ (n = 1 \/ (n = 2 /\ d < s + MinSegment))
           \/ n # 1 /\ last >= MinSegment /\ p = Plan(s, last, n)
           \/ n # 1 /\ last < MinSegment /\ p = Plan(s, last + s, n - 1)
  BY PlanKinds
<1>2. /\ n = 0 => s * (n - 1) = -s
      /\ n = 1 => s * (n - 1) = 0
      /\ n = 2 => s * (n - 1) = s
  OBVIOUS
<1>3. n >= 2 => s * (n - 1) >= s
  OBVIOUS
<1>4. /\ n = 0 => d = 0 /\ last = s
      /\ n = 1 => d = last
      /\ n = 2 => d = last + s
      /\ n >= 2 => d >= last + s
  BY <1>1, <1>2, <1>3
<1> QED BY <1>1, <1>4, Zenon

\* Every plan is well formed.
LEMMA PlanTypes ==
  ASSUME NEW d \in 0..MaxInt, NEW s \in 1..MaxInt, NEW p \in SegmentInfos(d, s)
  PROVE  p \in [segment_size: 0..MaxInt, last_segment_size: 0..MaxInt,
                num_segments: Int, fragment_size: Nat, last_fragment_size: Nat]
<1>1. ASSUME NEW size \in 0..MaxInt, NEW last \in 0..MaxInt, NEW n \in Int
      PROVE  Plan(size, last, n) \in
               [segment_size: 0..MaxInt, last_segment_size: 0..MaxInt,
                num_segments: Int, fragment_size: Nat, last_fragment_size: Nat]
  <2>1. FragmentBytes(size) + Header \in Nat /\ FragmentBytes(last) + Header \in Nat
    BY Lengths, SizesAssumption
  <2> QED BY <2>1 DEF Plan
<1>2. PICK n \in Nat, last \in 1..s :
        /\ n = 0 => d = 0 /\ last = s
        /\ n = 1 => d = last
        /\ n = 2 => d = last + s
        /\ n >= 2 => d >= last + s
        /\ \/ p = OneSegment(d) /\ (n = 1 \/ (n = 2 /\ d < s + MinSegment))
           \/ n # 1 /\ last >= MinSegment /\ p = Plan(s, last, n)
           \/ n # 1 /\ last < MinSegment /\ p = Plan(s, last + s, n - 1)
  BY PlanNumbers
<1>3. CASE p = OneSegment(d)
  BY <1>1, <1>3 DEF OneSegment
<1>4. CASE n # 1 /\ last >= MinSegment /\ p = Plan(s, last, n)
  <2>1. last \in 0..MaxInt /\ s \in 0..MaxInt /\ n \in Int
    BY SizesAssumption
  <2> QED BY <1>1, <1>4, <2>1
<1>5. CASE n # 1 /\ last < MinSegment /\ p = Plan(s, last + s, n - 1)
  <2>1. last + s \in 0..MaxInt
    BY <1>2, <1>5, SizesKinds, SizesAssumption
  <2>2. s \in 0..MaxInt /\ n - 1 \in Int
    BY SizesAssumption
  <2> QED BY <1>1, <1>5, <2>1, <2>2
<1> QED BY <1>2, <1>3, <1>4, <1>5

\* Two plans for the same object and size differ, if the comparison overflows,
\* at most in the size of segments that do not exist.
LEMMA PlansAgree ==
  ASSUME NEW d \in 0..MaxInt, NEW s \in 1..MaxInt,
         NEW p \in SegmentInfos(d, s), NEW q \in SegmentInfos(d, s)
  PROVE  /\ p.num_segments = q.num_segments
         /\ p.last_segment_size = q.last_segment_size
         /\ p.num_segments > 1 => p.segment_size = q.segment_size
<1> DEFINE n == CeilDiv(d, s)
           last == d - s * (n - 1)
<1>1. ASSUME n = 2, s + MinSegment > MaxInt
      PROVE  ManySegments(d, s, n) = Plan(s, d, 1)
  <2>1. s * (n - 1) = s
    BY <1>1
  <2>2. last < MinSegment /\ last + s = d /\ n - 1 = 1
    BY <1>1, <2>1, SizesKinds, SizesAssumption
  <2> QED BY <2>2 DEF ManySegments
<1>2. ASSUME NEW r \in SegmentInfos(d, s)
      PROVE  \E fits \in BOOLEAN :
               /\ (fits <=> d < s + MinSegment) \/ s + MinSegment > MaxInt
               /\ r = IF n = 1 \/ (n = 2 /\ fits) THEN OneSegment(d) ELSE ManySegments(d, s, n)
  BY Zenon DEF SegmentInfos, FitsInOne
<1>3. PICK f \in BOOLEAN :
        /\ (f <=> d < s + MinSegment) \/ s + MinSegment > MaxInt
        /\ p = IF n = 1 \/ (n = 2 /\ f) THEN OneSegment(d) ELSE ManySegments(d, s, n)
  BY <1>2
<1>4. PICK g \in BOOLEAN :
        /\ (g <=> d < s + MinSegment) \/ s + MinSegment > MaxInt
        /\ q = IF n = 1 \/ (n = 2 /\ g) THEN OneSegment(d) ELSE ManySegments(d, s, n)
  BY <1>2
<1> HIDE DEF n, last
<1>5. CASE p = q
  BY <1>5, PlanTypes
<1>6. CASE p # q
  <2>1. n = 2 /\ s + MinSegment > MaxInt
    BY <1>3, <1>4, <1>6, Zenon
  <2>2. p \in {OneSegment(d), Plan(s, d, 1)} /\ q \in {OneSegment(d), Plan(s, d, 1)}
    BY <1>1, <1>3, <1>4, <2>1, Zenon
  <2> QED BY <2>2, PlanFields DEF OneSegment
<1> QED BY <1>5, <1>6

\* No segment of a plan is too short for encode(), nor longer than merging
\* makes it, if neither the object nor the size asked for is too short.
LEMMA PlansEncodable ==
  ASSUME NEW d \in 0..MaxInt, NEW s \in 1..MaxInt, NEW p \in SegmentInfos(d, s),
         s >= MinSegment, d >= MinSegment
  PROVE  /\ p.last_segment_size >= MinSegment
         /\ p.last_segment_size < s + MinSegment
         /\ p.num_segments > 1 => p.segment_size = s
<1>1. PICK n \in Nat, last \in 1..s :
        /\ n = 0 => d = 0 /\ last = s
        /\ n = 1 => d = last
        /\ n = 2 => d = last + s
        /\ n >= 2 => d >= last + s
        /\ \/ p = OneSegment(d) /\ (n = 1 \/ (n = 2 /\ d < s + MinSegment))
           \/ n # 1 /\ last >= MinSegment /\ p = Plan(s, last, n)
           \/ n # 1 /\ last < MinSegment /\ p = Plan(s, last + s, n - 1)
  BY PlanNumbers
<1>2. CASE p = OneSegment(d) /\ (n = 1 \/ (n = 2 /\ d < s + MinSegment))
  <2>1. p.last_segment_size = d /\ p.num_segments = 1
    BY <1>2, PlanFields DEF OneSegment
  <2> QED BY <1>1, <1>2, <2>1, SizesKinds
<1>3. CASE n # 1 /\ last >= MinSegment /\ p = Plan(s, last, n)
  <2>1. p.last_segment_size = last /\ p.segment_size = s
    BY <1>3, PlanFields
  <2> QED BY <1>3, <2>1, SizesKinds
<1>4. CASE n # 1 /\ last < MinSegment /\ p = Plan(s, last + s, n - 1)
  <2>1. p.last_segment_size = last + s /\ p.segment_size = s
    BY <1>4, PlanFields
  <2> QED BY <1>4, <2>1, SizesKinds
<1> QED BY <1>1, <1>2, <1>3, <1>4

\* A plan asked for again, with the size it returned, is no new one.
LEMMA AskedAgain ==
  ASSUME NEW d \in 0..MaxInt, NEW s \in 1..MaxInt, NEW p \in SegmentInfos(d, s),
         NEW t \in {s, p.segment_size} \ {0}, NEW q \in SegmentInfos(d, t)
  PROVE  q \in SegmentInfos(d, s)
<1>1. CASE t = s
  BY <1>1
<1>2. CASE t # s
  <2>1. p = OneSegment(d) \/ p.segment_size = s
    BY PlanNumbers, PlanFields
  <2>2. p = OneSegment(d) /\ t = d /\ d \in Nat \ {0}
    BY <1>2, <2>1, PlanFields, SizesAssumption DEF OneSegment
  <2>3. CeilDiv(d, d) = 1
    <3> DEFINE n == CeilDiv(d, d)
    <3>1. n \in Nat /\ d - d * (n - 1) \in 1..d
      BY <2>2, TailSize
    <3> HIDE DEF n
    <3>2. n = 0 => d * (n - 1) = -d
      BY <2>2
    <3>3. n >= 2 => d * (n - 1) >= d
      BY <2>2, <3>1
    <3>4. d * (n - 1) \in Int
      BY <2>2, <3>1
    <3>5. n = 1
      BY <2>2, <3>1, <3>2, <3>3, <3>4
    <3> QED BY <3>5 DEF n
  <2>4. q = OneSegment(d)
    BY <2>2, <2>3 DEF SegmentInfos
  <2> QED BY <2>2, <2>4
<1> QED BY <1>1, <1>2

\* The strengthening of the three properties of stored segments: what was
\* planned is a plan for the writer's own arguments, and what was stored so
\* far are the segments of any such plan.
SegmentsInv ==
  /\ pc \in {"new", "writing", "written"}
  /\ dataLen \in DataLens /\ segmentSize \in SegmentSizes
  /\ stored \in Seq(0..MaxInt)
  /\ IF pc = "new" THEN info = NoPlan /\ stored = <<>>
     ELSE info \in SegmentInfos(dataLen, segmentSize)
  /\ \A i \in 1..Len(stored) :
       /\ i <= info.num_segments
       /\ stored[i] = IF i = info.num_segments THEN info.last_segment_size
                      ELSE info.segment_size
  /\ pc = "written" => Len(stored) >= info.num_segments
  /\ DOMAIN recipe \subseteq ByteRanges(dataLen)

LEMMA InitSegmentsInv == Init => SegmentsInv
<1> SUFFICES ASSUME Init PROVE SegmentsInv
  OBVIOUS
<1>1. DOMAIN recipe = {}
  BY DEF Init, NoRecipe
<1>2. stored \in Seq(0..MaxInt) /\ Len(stored) = 0
  BY DEF Init
<1> QED BY <1>1, <1>2 DEF Init, SegmentsInv

LEMMA NextSegmentsInv == SegmentsInv /\ [Next]_vars => SegmentsInv'
<1> SUFFICES ASSUME SegmentsInv, [Next]_vars PROVE SegmentsInv'
  OBVIOUS
<1>0. dataLen \in 0..MaxInt /\ segmentSize \in 1..MaxInt
  BY SizesKinds DEF SegmentsInv
<1>1. CASE GetSegmentInfo
  <2>1. Len(stored) = 0
    BY <1>1 DEF GetSegmentInfo, SegmentsInv
  <2> QED BY <1>1, <2>1 DEF GetSegmentInfo, SegmentsInv
<1>2. CASE EncodeSegment
  <2> DEFINE size == IF Len(stored) + 1 = info.num_segments THEN info.last_segment_size
                     ELSE info.segment_size
  <2>1. /\ pc = "writing" /\ Len(stored) < info.num_segments
        /\ stored' = Append(stored, size)
        /\ UNCHANGED <<pc, dataLen, segmentSize, info, recipe>>
    BY <1>2 DEF EncodeSegment
  <2>2. info \in SegmentInfos(dataLen, segmentSize)
    BY <2>1 DEF SegmentsInv
  <2>3. size \in 0..MaxInt /\ info.num_segments \in Int
    BY <1>0, <2>2, PlanTypes
  <2> HIDE DEF size
  <2>4. /\ stored' \in Seq(0..MaxInt) /\ Len(stored') = Len(stored) + 1
        /\ \A i \in 1..Len(stored) : stored'[i] = stored[i]
        /\ stored'[Len(stored) + 1] = size
    BY <2>1, <2>3 DEF SegmentsInv
  <2>5. ASSUME NEW i \in 1..Len(stored')
        PROVE  /\ i <= info.num_segments
               /\ stored'[i] = IF i = info.num_segments THEN info.last_segment_size
                               ELSE info.segment_size
    <3>1. CASE i \in 1..Len(stored)
      BY <2>4, <3>1 DEF SegmentsInv
    <3>2. CASE i = Len(stored) + 1
      BY <2>1, <2>3, <2>4, <3>2 DEF size
    <3> QED BY <2>4, <3>1, <3>2 DEF SegmentsInv
  <2> QED BY <2>1, <2>4, <2>5 DEF SegmentsInv
<1>3. CASE Written
  BY <1>3 DEF Written, SegmentsInv
<1>4. CASE GetByteRange
  <2>1. PICK s \in {segmentSize, info.segment_size} \ {0} :
          info' \in SegmentInfos(dataLen, s)
    BY <1>4 DEF GetByteRange
  <2>2. /\ pc = "written" /\ pc' = pc /\ dataLen' = dataLen
        /\ segmentSize' = segmentSize /\ stored' = stored
        /\ DOMAIN recipe' = ByteRanges(dataLen)
    BY <1>4 DEF GetByteRange
  <2>3. info \in SegmentInfos(dataLen, segmentSize)
    BY <2>2 DEF SegmentsInv
  <2>4. info' \in SegmentInfos(dataLen, segmentSize)
    BY <1>0, <2>1, <2>3, AskedAgain
  <2>5. /\ info'.num_segments = info.num_segments
        /\ info'.last_segment_size = info.last_segment_size
        /\ info.num_segments > 1 => info'.segment_size = info.segment_size
    BY <1>0, <2>3, <2>4, PlansAgree
  <2>6. info.num_segments \in Int
    BY <1>0, <2>3, PlanTypes
  <2>7. \A i \in 1..Len(stored) :
          /\ i <= info'.num_segments
          /\ stored[i] = IF i = info'.num_segments THEN info'.last_segment_size
                         ELSE info'.segment_size
    <3> SUFFICES ASSUME NEW i \in 1..Len(stored)
                 PROVE  /\ i <= info'.num_segments
                        /\ stored[i] = IF i = info'.num_segments THEN info'.last_segment_size
                                       ELSE info'.segment_size
      OBVIOUS
    <3>1. /\ i <= info.num_segments
          /\ stored[i] = IF i = info.num_segments THEN info.last_segment_size
                         ELSE info.segment_size
      BY DEF SegmentsInv
    <3>2. i # info.num_segments => info.num_segments > 1
      BY <2>6, <3>1
    <3> QED BY <2>5, <3>1, <3>2
  <2> QED BY <2>2, <2>4, <2>5, <2>7 DEF SegmentsInv, ByteRanges
<1>5. CASE UNCHANGED vars
  BY <1>5 DEF vars, SegmentsInv, ByteRanges
<1> QED BY <1>1, <1>2, <1>3, <1>4, <1>5 DEF Next

\* The inductive invariant holds of get_segment_info's callers, whatever the
\* object, the sizes and the outcome of overflows.
THEOREM SegmentsInvariance == Spec => []SegmentsInv
BY InitSegmentsInv, NextSegmentsInv, PTL DEF Spec

\* Every reachable state is well formed.
THEOREM SegmentTypes == Spec => []TypeOK
<1>1. SegmentsInv => TypeOK
  <2> SUFFICES ASSUME SegmentsInv PROVE TypeOK
    OBVIOUS
  <2>1. dataLen \in 0..MaxInt /\ segmentSize \in 1..MaxInt
    BY SizesKinds DEF SegmentsInv
  <2>2. NoPlan \in [segment_size: 0..MaxInt, last_segment_size: 0..MaxInt,
                    num_segments: Int, fragment_size: Nat, last_fragment_size: Nat]
    BY Lengths, SizesAssumption DEF NoPlan, Plan
  <2> QED BY <2>1, <2>2, PlanTypes DEF SegmentsInv, TypeOK
<1> QED BY <1>1, SegmentsInvariance, PTL

\* encode() is never handed a segment shorter than its minimum, nor one longer
\* than merging makes it (pyeclib_c.c:426-474), for any object and size that
\* are not themselves too short.
THEOREM NoSegmentTooShort == Spec => []SegmentsEncodable
<1>1. SegmentsInv => SegmentsEncodable
  <2> SUFFICES ASSUME SegmentsInv, NEW i \in 1..Len(stored),
                      segmentSize >= MinSegment, dataLen >= MinSegment
               PROVE  stored[i] >= MinSegment /\ stored[i] < segmentSize + MinSegment
    BY DEF SegmentsEncodable
  <2>1. dataLen \in 0..MaxInt /\ segmentSize \in 1..MaxInt
    BY SizesKinds DEF SegmentsInv
  <2>2. info \in SegmentInfos(dataLen, segmentSize)
    BY DEF SegmentsInv
  <2>3. /\ info.last_segment_size >= MinSegment
        /\ info.last_segment_size < segmentSize + MinSegment
        /\ info.num_segments > 1 => info.segment_size = segmentSize
    BY <2>1, <2>2, PlansEncodable
  <2>4. info.num_segments \in Int
    BY <2>1, <2>2, PlanTypes
  <2>5. CASE i = info.num_segments
    BY <2>3, <2>5 DEF SegmentsInv
  <2>6. CASE i # info.num_segments
    <3>1. i < info.num_segments /\ stored[i] = info.segment_size
      BY <2>4, <2>6 DEF SegmentsInv
    <3> QED BY <2>1, <2>3, <2>4, <3>1, SizesKinds
  <2> QED BY <2>5, <2>6
<1> QED BY <1>1, SegmentsInvariance, PTL

\* The fragment sizes a plan announces are those of what encode() returns, for
\* the plan the segments were cut by and for one asked for later.
THEOREM AnnouncedSizesAreTrue == Spec => []FragmentsAsAnnounced
<1>1. SegmentsInv => FragmentsAsAnnounced
  <2> SUFFICES ASSUME SegmentsInv, NEW i \in 1..Len(stored)
               PROVE  EncodedLength(stored[i]) =
                        IF i = info.num_segments THEN info.last_fragment_size
                        ELSE info.fragment_size
    BY DEF FragmentsAsAnnounced
  <2>1. dataLen \in 0..MaxInt /\ segmentSize \in 1..MaxInt
    BY SizesKinds DEF SegmentsInv
  <2>2. info \in SegmentInfos(dataLen, segmentSize)
    BY DEF SegmentsInv
  <2>3. PICK size, last, n : info = Plan(size, last, n)
    BY <2>1, <2>2, PlanNumbers DEF OneSegment
  <2>4. /\ info.fragment_size = EncodedLength(info.segment_size)
        /\ info.last_fragment_size = EncodedLength(info.last_segment_size)
    BY <2>3, PlanFields, PlanFragments
  <2> QED BY <2>4 DEF SegmentsInv
<1> QED BY <1>1, SegmentsInvariance, PTL

\* Whoever asks for the plan again learns how many segments were stored,
\* although the two comparisons may both overflow and come out differently.
THEOREM PlansAreStable == Spec => []PlanIsStable
<1>1. SegmentsInv => PlanIsStable
  <2> SUFFICES ASSUME SegmentsInv, pc = "written", Len(stored) >= 1
               PROVE  Len(stored) = info.num_segments
    BY DEF PlanIsStable
  <2>1. dataLen \in 0..MaxInt /\ segmentSize \in 1..MaxInt
    BY SizesKinds DEF SegmentsInv
  <2>2. info.num_segments \in Int
    BY <2>1, PlanTypes DEF SegmentsInv
  <2>3. Len(stored) \in 1..Len(stored)
    BY DEF SegmentsInv
  <2>4. Len(stored) <= info.num_segments
    BY <2>3 DEF SegmentsInv
  <2> QED BY <2>2, <2>4 DEF SegmentsInv
<1> QED BY <1>1, SegmentsInvariance, PTL

-----------------------------------------------------------------------------
(* The places of the bytes.  Sums over the segments need induction, which is *)
(* stated for sets of numbers: the provers take no predicate as a parameter. *)

LEMMA SetInduction ==
  ASSUME NEW S, 0 \in S, \A n \in Nat : n \in S => n + 1 \in S
  PROVE  Nat \subseteq S
<1> DEFINE R == OpToRel(<, Nat)
           T == Nat \ S
<1>1. IsWellFoundedOn(R, Nat)
  BY NatLessThanWellFounded
<1>2. \A x, y \in Nat : x < y => <<x, y>> \in R
  BY DEF OpToRel
<1> HIDE DEF R
<1>3. CASE T # {}
  <2>1. PICK x \in T : \A y \in T : ~(<<y, x>> \in R)
    BY <1>1, <1>3, WFMin
  <2>2. x \in Nat /\ x # 0 /\ x - 1 \in Nat /\ x - 1 < x /\ (x - 1) + 1 = x
    OBVIOUS
  <2>3. x - 1 \in T
    BY <2>2
  <2> QED BY <1>2, <2>1, <2>2, <2>3
<1> QED BY <1>3

\* The recursion that defines Ends has a solution, and only one.
LEMMA EndsAre ==
  ASSUME NEW s, NEW n \in Nat, Len(s) = n,
         NEW f \in [0..n -> Int], f[0] = 0, \A i \in 1..n : f[i] = f[i - 1] + s[i]
  PROVE  Ends(s) = f
<1>1. f = [i \in 0..n |-> IF i = 0 THEN 0 ELSE f[i - 1] + s[i]]
  OBVIOUS
<1>2. Ends(s) = [i \in 0..n |-> IF i = 0 THEN 0 ELSE Ends(s)[i - 1] + s[i]]
  BY <1>1 DEF Ends
<1> DEFINE S == {i \in Nat : i <= n => Ends(s)[i] = f[i]}
<1>3. 0 \in S
  BY <1>2
<1>4. ASSUME NEW i \in Nat, i \in S PROVE i + 1 \in S
  <2>1. CASE i + 1 <= n
    <3>1. i + 1 \in 0..n /\ i + 1 # 0 /\ i + 1 \in 1..n /\ (i + 1) - 1 = i
      BY <2>1
    <3>2. Ends(s)[i + 1] = Ends(s)[(i + 1) - 1] + s[i + 1]
      BY <1>2, <3>1
    <3>3. Ends(s)[i] = f[i]
      BY <1>4, <2>1
    <3> QED BY <3>1, <3>2, <3>3
  <2> QED BY <2>1
<1>5. Nat \subseteq S
  <2> HIDE DEF S
  <2> QED BY <1>3, <1>4, SetInduction
<1>6. \A i \in 0..n : Ends(s)[i] = f[i]
  BY <1>5
<1> QED BY <1>2, <1>6

\* A sequence of n segments of one size, but for a last one of another.
Segments(s, n, size, last) ==
  Len(s) = n /\ \A i \in 1..n : s[i] = IF i = n THEN last ELSE size

\* Where they end.
LEMMA EndsOfSegments ==
  ASSUME NEW s, NEW n \in Nat \ {0}, NEW size \in Int, NEW last \in Int,
         Segments(s, n, size, last)
  PROVE  \A i \in 0..n : Ends(s)[i] = IF i = n THEN (n - 1) * size + last ELSE i * size
<1> DEFINE f == [i \in 0..n |-> IF i = n THEN (n - 1) * size + last ELSE i * size]
<1>1. f \in [0..n -> Int] /\ f[0] = 0
  <2>1. \A i \in 0..n : i * size \in Int
    OBVIOUS
  <2>2. (n - 1) * size + last \in Int /\ 0 * size = 0
    OBVIOUS
  <2> QED BY <2>1, <2>2
<1>2. ASSUME NEW i \in 1..n PROVE f[i] = f[i - 1] + s[i]
  <2>1. i - 1 \in 0..n /\ i - 1 # n /\ i \in 0..n
    OBVIOUS
  <2>2. f[i - 1] = (i - 1) * size
    BY <2>1
  <2>3. CASE i = n
    BY <2>1, <2>2, <2>3 DEF Segments
  <2>4. CASE i # n
    <3>1. i * size = (i - 1) * size + size
      OBVIOUS
    <3> QED BY <2>1, <2>2, <2>4, <3>1 DEF Segments
  <2> QED BY <2>3, <2>4
<1> HIDE DEF f
<1>3. Ends(s) = f
  BY <1>1, <1>2, EndsAre DEF Segments
<1> QED BY <1>3 DEF f

\* Only a plan for an object of no bytes has no segments.
LEMMA PlansHaveSegments ==
  ASSUME NEW d \in 0..MaxInt, NEW s \in 1..MaxInt, NEW p \in SegmentInfos(d, s),
         d # 0
  PROVE  p.num_segments \in Int /\ p.num_segments >= 1
<1>1. PICK n \in Nat, last \in 1..s :
        /\ n = 0 => d = 0 /\ last = s
        /\ \/ p = OneSegment(d)
           \/ n # 1 /\ p = Plan(s, last, n)
           \/ n # 1 /\ p = Plan(s, last + s, n - 1)
  BY PlanNumbers
<1>2. n >= 1
  BY <1>1
<1>3. CASE p = OneSegment(d)
  <2>1. p.num_segments = 1
    BY <1>3, PlanFields DEF OneSegment
  <2> QED BY <2>1
<1>4. CASE n # 1 /\ p = Plan(s, last, n)
  <2>1. p.num_segments = n
    BY <1>4, PlanFields
  <2> QED BY <1>2, <2>1
<1>5. CASE n # 1 /\ p = Plan(s, last + s, n - 1)
  <2>1. p.num_segments = n - 1
    BY <1>5, PlanFields
  <2> QED BY <1>2, <1>5, <2>1
<1> QED BY <1>1, <1>3, <1>4, <1>5

\* What was written has the sizes of the plan last asked for, and adds up to
\* the object.
LEMMA WrittenSegments ==
  ASSUME SegmentsInv, pc = "written"
  PROVE  /\ Len(stored) \in Nat /\ dataLen \in Nat
         /\ info.segment_size \in Nat /\ info.last_segment_size \in Nat
         /\ IF Len(stored) = 0 THEN dataLen = 0
            ELSE info.segment_size * (Len(stored) - 1) + info.last_segment_size = dataLen
         /\ Segments(stored, Len(stored), info.segment_size, info.last_segment_size)
<1>1. dataLen \in 0..MaxInt /\ segmentSize \in 1..MaxInt
  BY SizesKinds DEF SegmentsInv
<1>2. info \in SegmentInfos(dataLen, segmentSize)
  BY DEF SegmentsInv
<1>3. /\ info.segment_size \in Nat /\ info.last_segment_size \in Nat
      /\ info.num_segments \in Int
  <2>1. info \in [segment_size: 0..MaxInt, last_segment_size: 0..MaxInt,
                  num_segments: Int, fragment_size: Nat, last_fragment_size: Nat]
    BY <1>1, <1>2, PlanTypes
  <2> QED BY <2>1
<1>4. AddsUp(info, dataLen)
  <2>1. dataLen \in Nat /\ segmentSize \in Nat \ {0}
    BY <1>1
  <2> QED BY <1>2, <2>1, PlansAddUp
<1>5. Len(stored) \in Nat /\ Len(stored) >= info.num_segments
  BY DEF SegmentsInv
<1>6. CASE Len(stored) # 0
  <2>1. Len(stored) \in 1..Len(stored)
    BY <1>5, <1>6
  <2>2. Len(stored) <= info.num_segments
    BY <2>1 DEF SegmentsInv
  <2>3. Len(stored) = info.num_segments
    BY <1>3, <1>5, <2>2
  <2> QED BY <1>1, <1>3, <1>4, <1>6, <2>3 DEF SegmentsInv, AddsUp, Segments
<1>7. CASE Len(stored) = 0
  <2>1. dataLen = 0
    BY <1>1, <1>2, <1>3, <1>5, <1>7, PlansHaveSegments
  <2> QED BY <1>1, <1>3, <1>7, <2>1 DEF Segments
<1> QED BY <1>6, <1>7

-----------------------------------------------------------------------------
(* The recipes.  A byte's segment and offset are a quotient and a remainder. *)

\* Multiples of s further on lie at least s further on.
LEMMA NextMultiple ==
  ASSUME NEW g \in Int, NEW h \in Int, NEW s \in Nat \ {0}, g < h
  PROVE  g * s \in Int /\ h * s \in Int /\ g * s + s <= h * s
<1>1. PICK k \in Nat : h = g + 1 + k
  <2>1. h - g - 1 \in Nat /\ h = g + 1 + (h - g - 1)
    OBVIOUS
  <2> QED BY <2>1
<1>2. (g + 1 + k) * s = g * s + s + k * s
  OBVIOUS
<1>3. k * s \in Nat /\ g * s \in Int /\ h * s \in Int
  OBVIOUS
<1> QED BY <1>1, <1>2, <1>3

\* Quotient and remainder, and that no other pair of numbers is like them.
LEMMA Division ==
  ASSUME NEW b \in Nat, NEW s \in Nat \ {0}
  PROVE  /\ b \div s \in Nat /\ b % s \in 0..s - 1
         /\ (b \div s) * s \in Nat /\ b = (b \div s) * s + (b % s)
<1>1. b \div s \in Nat /\ b % s \in 0..s - 1 /\ b = s * (b \div s) + (b % s)
  BY SMTT(30)
<1>2. s * (b \div s) = (b \div s) * s /\ (b \div s) * s \in Nat
  BY <1>1
<1> QED BY <1>1, <1>2

LEMMA DivisionUnique ==
  ASSUME NEW b \in Nat, NEW s \in Nat \ {0}, NEW g \in Int, NEW i \in 0..s - 1,
         b = g * s + i
  PROVE  g = b \div s /\ i = b % s
<1> DEFINE q == b \div s
<1>1. /\ q \in Nat /\ b % s \in 0..s - 1
      /\ q * s \in Nat /\ b = q * s + (b % s)
  BY Division
<1> HIDE DEF q
<1>2. g * s \in Int
  OBVIOUS
<1>3. CASE g < q
  <2>1. g * s + s <= q * s
    BY <1>1, <1>3, NextMultiple
  <2> QED BY <1>1, <1>2, <2>1
<1>4. CASE q < g
  <2>1. q * s + s <= g * s
    BY <1>1, <1>4, NextMultiple
  <2> QED BY <1>1, <1>2, <2>1
<1>5. CASE g = q
  BY <1>1, <1>2, <1>5 DEF q
<1> QED BY <1>1, <1>3, <1>4, <1>5

\* A later byte is not in an earlier segment, nor before it in the same one.
LEMMA DivisionOrder ==
  ASSUME NEW b \in Nat, NEW c \in Nat, NEW s \in Nat \ {0}, b <= c
  PROVE  /\ b \div s <= c \div s
         /\ b \div s = c \div s => b % s <= c % s
<1> DEFINE p == b \div s
           q == c \div s
<1>1. /\ p \in Nat /\ b % s \in 0..s - 1
      /\ p * s \in Nat /\ b = p * s + (b % s)
  BY Division
<1>2. /\ q \in Nat /\ c % s \in 0..s - 1
      /\ q * s \in Nat /\ c = q * s + (c % s)
  BY Division
<1> HIDE DEF p, q
<1>3. CASE q < p
  <2>1. q * s + s <= p * s
    BY <1>1, <1>2, <1>3, NextMultiple
  <2> QED BY <1>1, <1>2, <2>1
<1>4. CASE p <= q
  <2>1. p = q => b % s <= c % s
    BY <1>1, <1>2
  <2> QED BY <1>4, <2>1 DEF p, q
<1> QED BY <1>1, <1>2, <1>3, <1>4

\* What a segment map names: the quotients and remainders of the range's bytes.
LEMMA SegmentMapFetches ==
  ASSUME NEW d \in Nat, NEW r \in ByteRanges(d), NEW s \in Nat \ {0}
  PROVE  Fetched(SegmentMap(r, s)) = {<<b \div s, b % s>> : b \in r[1]..r[2]}
<1> DEFINE m == SegmentMap(r, s)
           x == r[1]
           y == r[2]
           first == x \div s
           final == y \div s
           lo == x % s
           hi == y % s
<1>1. x \in Nat /\ y \in Nat /\ x <= y
  BY DEF ByteRanges
<1>2. /\ first \in Nat /\ lo \in 0..s - 1 /\ first * s \in Nat
      /\ x = first * s + lo
  BY <1>1, Division
<1>3. /\ final \in Nat /\ hi \in 0..s - 1 /\ final * s \in Nat
      /\ y = final * s + hi
  BY <1>1, Division
<1>4. /\ DOMAIN m = first..final
      /\ \A g \in first..final :
           /\ m[g][1] = IF g = first THEN lo ELSE 0
           /\ m[g][2] = IF g = final THEN hi ELSE s - 1
  BY DEF SegmentMap
<1> HIDE DEF m, x, y, first, final, lo, hi
<1>5. ASSUME NEW g \in DOMAIN m, NEW i \in m[g][1]..m[g][2]
      PROVE  \E b \in x..y : <<g, i>> = <<b \div s, b % s>>
  <2> DEFINE b == g * s + i
  <2>1. /\ g \in Nat /\ first <= g /\ g <= final
        /\ i >= (IF g = first THEN lo ELSE 0)
        /\ i <= (IF g = final THEN hi ELSE s - 1)
    <3>1. g \in first..final
      BY <1>4
    <3>2. /\ m[g][1] = IF g = first THEN lo ELSE 0
          /\ m[g][2] = IF g = final THEN hi ELSE s - 1
      BY <1>4, <3>1
    <3>3. m[g][1] \in Int /\ m[g][2] \in Int
      BY <1>2, <1>3, <3>2
    <3>4. m[g][1] <= i /\ i <= m[g][2]
      BY <3>3
    <3> QED BY <1>2, <1>3, <3>1, <3>2, <3>4
  <2>2. i \in 0..s - 1
    BY <1>2, <1>3, <1>4, <1>5, <2>1
  <2>3. g * s \in Nat
    BY <2>1
  <2>4. x <= g * s + i
    <3>1. CASE g = first
      BY <1>2, <2>1, <2>2, <2>3, <3>1
    <3>2. CASE first < g
      <4>1. first * s + s <= g * s
        BY <1>2, <2>1, <3>2, NextMultiple
      <4> QED BY <1>1, <1>2, <2>2, <2>3, <4>1
    <3> QED BY <1>2, <2>1, <3>1, <3>2
  <2>5. g * s + i <= y
    <3>1. CASE g = final
      BY <1>3, <2>1, <2>2, <2>3, <3>1
    <3>2. CASE g < final
      <4>1. g * s + s <= final * s
        BY <1>3, <2>1, <3>2, NextMultiple
      <4> QED BY <1>1, <1>3, <2>2, <2>3, <4>1
    <3> QED BY <1>3, <2>1, <3>1, <3>2
  <2> HIDE DEF m
  <2>6. b = g * s + i
    OBVIOUS
  <2> HIDE DEF b
  <2>7. b \in Nat
    BY <2>2, <2>3, <2>6
  <2>8. b \in x..y
    BY <1>1, <2>4, <2>5, <2>6, <2>7
  <2>9. g = b \div s /\ i = b % s
    BY <2>1, <2>2, <2>6, <2>7, DivisionUnique
  <2> QED BY <2>8, <2>9
<1>6. ASSUME NEW b \in x..y
      PROVE  b \div s \in DOMAIN m /\ b % s \in m[b \div s][1]..m[b \div s][2]
  <2>1. b \in Nat /\ x <= b /\ b <= y
    BY <1>1
  <2>2. b \div s \in Nat /\ b % s \in 0..s - 1
    BY <2>1, Division
  <2>3. first <= b \div s /\ (first = b \div s => lo <= b % s)
    BY <1>1, <2>1, DivisionOrder DEF first, lo
  <2>4. b \div s <= final /\ (b \div s = final => b % s <= hi)
    BY <1>1, <2>1, DivisionOrder DEF final, hi
  <2>5. b \div s \in first..final
    BY <1>2, <1>3, <2>2, <2>3, <2>4
  <2> QED BY <1>2, <1>3, <1>4, <2>2, <2>3, <2>4, <2>5
<1>7. Fetched(m) \subseteq {<<b \div s, b % s>> : b \in x..y}
  BY <1>5 DEF Fetched
<1>8. {<<b \div s, b % s>> : b \in x..y} \subseteq Fetched(m)
  BY <1>6 DEF Fetched
<1> QED BY <1>7, <1>8 DEF m, x, y

\* Up to the length of n segments of the same size, the places of the bytes are
\* their quotients and remainders too.
LEMMA StoredPlaces ==
  ASSUME NEW n \in Nat \ {0}, NEW size \in Nat, NEW last \in Nat, NEW d \in Nat,
         Segments(stored, n, size, last),
         size * (n - 1) + last = d, NEW b \in 0..d - 1, b < n * size
  PROVE  size # 0 /\ Place(b) = <<b \div size, b % size>>
<1>1. /\ (n - 1) * size \in Nat /\ size * (n - 1) = (n - 1) * size
      /\ b \in Nat /\ b < (n - 1) * size + last
      /\ n * size = (n - 1) * size + size
  OBVIOUS
<1>2. size # 0
  <2>1. CASE size = 0
    <3>1. n * size = 0
      BY <2>1
    <3> QED BY <3>1
  <2> QED BY <2>1
<1>3. size \in Nat \ {0}
  BY <1>2
<1> DEFINE e == Ends(stored)
           q == b \div size
<1>4. Len(stored) = n
  BY DEF Segments
<1>5. \A i \in 0..n : e[i] = IF i = n THEN (n - 1) * size + last ELSE i * size
  BY EndsOfSegments
<1>6. /\ q \in Nat /\ b % size \in 0..size - 1
      /\ q * size \in Nat /\ b = q * size + (b % size)
  BY <1>1, <1>3, Division
<1>7. Place(b) = LET g == CHOOSE i \in 1..n : e[i - 1] <= b /\ b < e[i]
                 IN  <<g - 1, b - e[g - 1]>>
  BY <1>4 DEF Place
<1> HIDE DEF e, q
<1>8. q <= n - 1
  <2>1. CASE n - 1 < q
    <3>1. (n - 1) * size + size <= q * size
      BY <1>3, <1>6, <2>1, NextMultiple
    <3> QED BY <1>1, <1>6, <3>1
  <2> QED BY <1>6, <2>1
<1>9. e[q] = q * size /\ b < e[q + 1]
  <2>1. q \in 0..n /\ q + 1 \in 0..n /\ q # n
    BY <1>6, <1>8
  <2>2. e[q] = q * size
    BY <1>5, <2>1
  <2>3. CASE q + 1 = n
    <3>1. e[q + 1] = (n - 1) * size + last
      BY <1>5, <2>1, <2>3
    <3> QED BY <1>1, <2>2, <3>1
  <2>4. CASE q + 1 # n
    <3>1. e[q + 1] = (q + 1) * size
      BY <1>5, <2>1, <2>4
    <3>2. (q + 1) * size = q * size + size
      BY <1>6
    <3> QED BY <1>6, <2>2, <3>1, <3>2
  <2> QED BY <2>3, <2>4
<1>10. ASSUME NEW i \in 1..n, e[i - 1] <= b, b < e[i]
       PROVE  i = q + 1
  <2>1. /\ i - 1 \in 0..n /\ i - 1 # n /\ i \in 0..n
        /\ (i - 1) * size \in Nat /\ i * size = (i - 1) * size + size
    OBVIOUS
  <2>2. (i - 1) * size <= b
    BY <1>5, <1>10, <2>1
  <2>3. b < (i - 1) * size + size
    <3>1. CASE i = n
      <4>1. e[i] = (n - 1) * size + last
        BY <1>5, <2>1, <3>1
      <4>2. (i - 1) * size = (n - 1) * size
        BY <3>1
      <4> QED BY <1>1, <1>10, <4>1, <4>2
    <3>2. CASE i # n
      <4>1. e[i] = i * size
        BY <1>5, <2>1, <3>2
      <4> QED BY <1>10, <2>1, <4>1
    <3> QED BY <3>1, <3>2
  <2>4. PICK j \in Int, o \in 0..size - 1 : j = i - 1 /\ b = j * size + o
    <3> DEFINE o == b - (i - 1) * size
    <3>1. o \in 0..size - 1 /\ b = (i - 1) * size + o /\ i - 1 \in Int
      BY <1>1, <2>1, <2>2, <2>3
    <3> HIDE DEF o
    <3> QED BY <3>1
  <2>5. j = q
    BY <1>1, <1>3, <2>4, DivisionUnique DEF q
  <2> QED BY <2>4, <2>5
<1>11. (CHOOSE i \in 1..n : e[i - 1] <= b /\ b < e[i]) = q + 1
  <2>1. q + 1 \in 1..n /\ (q + 1) - 1 = q
    BY <1>6, <1>8
  <2>2. e[(q + 1) - 1] <= b /\ b < e[q + 1]
    BY <1>1, <1>6, <1>9, <2>1
  <2> QED BY <1>10, <2>1, <2>2
<1>12. Place(b) = <<(q + 1) - 1, b - e[(q + 1) - 1]>>
  BY <1>7, <1>11
<1>13. (q + 1) - 1 = q /\ b - e[q] = b % size
  BY <1>1, <1>6, <1>9
<1> QED BY <1>2, <1>12, <1>13 DEF q

\* A plan for an object that is not empty has segments that are not.
LEMMA PlanOfBytes ==
  ASSUME SegmentsInv, pc # "new", dataLen # 0
  PROVE  info.segment_size \in Nat \ {0}
<1>1. dataLen \in 0..MaxInt /\ segmentSize \in 1..MaxInt
  BY SizesKinds DEF SegmentsInv
<1>2. info \in SegmentInfos(dataLen, segmentSize)
  BY DEF SegmentsInv
<1>3. info.segment_size = dataLen \/ info.segment_size = segmentSize
  BY <1>2 DEF SegmentInfos, OneSegment, ManySegments, Plan
<1> QED BY <1>1, <1>3

\* Every byte is in one of the n segments.
LEMMA PlacedInSegment ==
  ASSUME NEW n \in Nat \ {0}, NEW size \in Nat, NEW last \in Nat, NEW d \in Nat,
         Segments(stored, n, size, last),
         size * (n - 1) + last = d, NEW b \in 0..d - 1
  PROVE  \E g \in 0..n - 1 : Place(b)[1] = g
<1> DEFINE e == Ends(stored)
           In(i) == e[i - 1] <= b /\ b < e[i]
           seg == CHOOSE i \in 1..n : In(i)
<1>1. Len(stored) = n
  BY DEF Segments
<1>2. \A i \in 0..n : e[i] = IF i = n THEN (n - 1) * size + last ELSE i * size
  BY EndsOfSegments
<1>3. /\ (n - 1) * size \in Nat /\ size * (n - 1) = (n - 1) * size
      /\ n * size = (n - 1) * size + size
      /\ b \in Nat /\ b < (n - 1) * size + last
  OBVIOUS
<1>4. Place(b) = <<seg - 1, b - e[seg - 1]>>
  BY <1>1 DEF Place
<1> HIDE DEF e
<1>5. \E i \in 1..n : In(i)
  <2>1. CASE b < (n - 1) * size
    <3>1. size \in Nat \ {0}
      <4>1. CASE size = 0
        <5>1. (n - 1) * size = 0
          BY <4>1
        <5> QED BY <1>3, <2>1, <5>1
      <4> QED BY <4>1
    <3>2. PICK q \in Nat, o \in 0..size - 1 : q * size \in Nat /\ b = q * size + o
      <4>1. /\ b \div size \in Nat /\ b % size \in 0..size - 1
            /\ (b \div size) * size \in Nat
            /\ b = (b \div size) * size + (b % size)
        BY <1>3, <3>1, Division
      <4> QED BY <4>1
    <3>3. q < n - 1
      <4>1. CASE n - 1 < q
        <5>1. (n - 1) * size + size <= q * size
          BY <3>1, <4>1, NextMultiple
        <5> QED BY <1>3, <2>1, <3>2, <5>1
      <4>2. CASE n - 1 = q
        BY <1>3, <2>1, <3>2, <4>2
      <4> QED BY <4>1, <4>2
    <3>4. /\ q + 1 \in 1..n /\ q \in 0..n /\ q # n /\ q + 1 # n /\ q + 1 \in 0..n
          /\ (q + 1) - 1 = q /\ (q + 1) * size = q * size + size
      BY <3>3
    <3>5. e[q] = q * size /\ e[q + 1] = q * size + size
      BY <1>2, <3>4
    <3>6. In(q + 1)
      BY <1>3, <3>2, <3>4, <3>5
    <3> QED BY <3>4, <3>6
  <2>2. CASE ~(b < (n - 1) * size)
    <3>1. n - 1 \in 0..n /\ n - 1 # n /\ n \in 0..n /\ n \in 1..n
      OBVIOUS
    <3>2. e[n - 1] = (n - 1) * size /\ e[n] = (n - 1) * size + last
      BY <1>2, <3>1
    <3> QED BY <1>3, <2>2, <3>1, <3>2
  <2> QED BY <2>1, <2>2
<1> HIDE DEF In
<1>6. seg \in 1..n
  BY <1>5
<1> HIDE DEF seg
<1>7. seg - 1 \in 0..n - 1
  BY <1>6
<1> QED BY <1>4, <1>7

\* A segment map names the places of the range's bytes just where the range
\* ends within n segments of the same size.
LEMMA SegmentMapPlaces ==
  ASSUME NEW n \in Nat \ {0}, NEW size \in Nat \ {0}, NEW last \in Nat, NEW d \in Nat,
         Segments(stored, n, size, last), size * (n - 1) + last = d,
         NEW r \in ByteRanges(d)
  PROVE  Fetched(SegmentMap(r, size)) = {Place(b) : b \in r[1]..r[2]} <=> r[2] < n * size
<1>1. PICK x \in 0..d - 1, y \in 0..d - 1 : x = r[1] /\ y = r[2] /\ x <= y
  BY DEF ByteRanges
<1> DEFINE fetched == Fetched(SegmentMap(r, size))
           places == {Place(b) : b \in x..y}
<1>2. fetched = {<<b \div size, b % size>> : b \in x..y}
  BY <1>1, SegmentMapFetches
<1> HIDE DEF fetched
<1>3. n * size \in Nat
  OBVIOUS
<1>4. CASE y < n * size
  <2>1. ASSUME NEW b \in x..y
        PROVE  Place(b) = <<b \div size, b % size>>
    <3>1. b \in 0..d - 1 /\ b < n * size
      BY <1>1, <1>3, <1>4
    <3> QED BY <3>1, StoredPlaces
  <2>2. fetched = places
    BY <1>2, <2>1
  <2> QED BY <1>1, <1>4, <2>2 DEF fetched
<1>5. CASE ~(y < n * size)
  <2>1. PICK g \in Nat, o \in 0..size - 1 :
          /\ g = y \div size /\ o = y % size
          /\ g * size \in Nat /\ y = g * size + o
    <3>1. y \in Nat
      BY <1>1
    <3>2. /\ y \div size \in Nat /\ y % size \in 0..size - 1
          /\ (y \div size) * size \in Nat /\ y = (y \div size) * size + (y % size)
      BY <3>1, Division
    <3> QED BY <3>2
  <2>2. <<g, o>> \in fetched
    <3>1. y \in x..y
      BY <1>1
    <3>2. <<g, o>> = <<y \div size, y % size>>
      BY <2>1, Zenon
    <3> QED BY <1>2, <3>1, <3>2, Zenon
  <2>3. g >= n
    <3>1. CASE g < n
      <4>1. g * size + size <= n * size
        BY <3>1, NextMultiple
      <4> QED BY <1>1, <1>3, <1>5, <2>1, <4>1
    <3> QED BY <3>1
  <2>4. ASSUME NEW b \in x..y PROVE Place(b) # <<g, o>>
    <3>1. b \in 0..d - 1
      BY <1>1
    <3>2. PICK h \in 0..n - 1 : Place(b)[1] = h
      BY <3>1, PlacedInSegment
    <3> QED BY <2>3, <3>2
  <2>5. fetched # places
    BY <2>2, <2>4
  <2> QED BY <1>1, <1>5, <2>5 DEF fetched
<1> QED BY <1>4, <1>5

\* The recipes a reader holds are those of the plan made for them.
RecipesInv ==
  \/ recipe = NoRecipe
  \/ /\ pc = "written"
     /\ recipe = [r \in ByteRanges(dataLen) |-> SegmentMap(r, info.segment_size)]

LEMMA RecipesInvariance == Spec => []RecipesInv
<1>1. Init => RecipesInv
  BY DEF Init, RecipesInv
<1>2. RecipesInv /\ [Next]_vars => RecipesInv'
  <2> SUFFICES ASSUME RecipesInv, [Next]_vars PROVE RecipesInv'
    OBVIOUS
  <2>1. CASE GetSegmentInfo
    BY <2>1 DEF GetSegmentInfo, RecipesInv, NoRecipe
  <2>2. CASE EncodeSegment
    BY <2>2 DEF EncodeSegment, RecipesInv, NoRecipe
  <2>3. CASE Written
    BY <2>3 DEF Written, RecipesInv, NoRecipe
  <2>4. CASE GetByteRange
    <3>1. /\ pc' = "written" /\ dataLen' = dataLen
          /\ recipe' = [r \in ByteRanges(dataLen) |-> SegmentMap(r, info'.segment_size)]
      BY <2>4 DEF GetByteRange
    <3> QED BY <3>1 DEF RecipesInv
  <2>5. CASE UNCHANGED vars
    BY <2>5 DEF vars, RecipesInv, NoRecipe
  <2> QED BY <2>1, <2>2, <2>3, <2>4, <2>5 DEF Next
<1> QED BY <1>1, <1>2, PTL DEF Spec

\* get_segment_info_byterange names exactly the stored places of a range's
\* bytes, whatever the object and the segment size, but for the ranges that
\* reach the part of a merged tail past the length of its segments; of those
\* it names a segment that is not there (ec_iface.py:438-460).
THEOREM RecipesAreExact == Spec => []RecipesExactUpToMerge
<1>1. SegmentsInv /\ RecipesInv => RecipesExactUpToMerge
  <2> SUFFICES ASSUME SegmentsInv, RecipesInv, NEW r \in DOMAIN recipe
               PROVE  Fetched(recipe[r]) = {Place(b) : b \in r[1]..r[2]}
                        <=> r[2] < Len(stored) * info.segment_size
    BY DEF RecipesExactUpToMerge, RecipeIsExact
  <2> DEFINE n == Len(stored)
             size == info.segment_size
             last == info.last_segment_size
  <2>1. /\ pc = "written" /\ r \in ByteRanges(dataLen)
        /\ recipe[r] = SegmentMap(r, size)
    BY DEF RecipesInv, NoRecipe
  <2>2. /\ n \in Nat /\ dataLen \in Nat /\ size \in Nat /\ last \in Nat
        /\ IF n = 0 THEN dataLen = 0 ELSE size * (n - 1) + last = dataLen
        /\ Segments(stored, n, size, last)
    BY <2>1, WrittenSegments
  <2>3. dataLen # 0
    BY <2>1, <2>2 DEF ByteRanges
  <2>4. size \in Nat \ {0}
    BY <2>1, <2>3, PlanOfBytes
  <2> HIDE DEF n, size, last
  <2>5. n \in Nat \ {0} /\ size * (n - 1) + last = dataLen
    BY <2>2, <2>3
  <2>6. Fetched(SegmentMap(r, size)) = {Place(b) : b \in r[1]..r[2]} <=> r[2] < n * size
    BY <2>1, <2>2, <2>4, <2>5, SegmentMapPlaces
  <2> QED BY <2>1, <2>6 DEF n, size
<1> QED BY <1>1, SegmentsInvariance, RecipesInvariance, PTL
=============================================================================
