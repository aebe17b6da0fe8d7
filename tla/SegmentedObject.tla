-------------------------- MODULE SegmentedObject --------------------------
(***************************************************************************)
(* An object that is stored and read in segments, the way get_segment_info *)
(* and get_segment_info_byterange are meant to be used: the writer asks    *)
(* for a plan and gives encode() one segment after another; later a reader *)
(* who knows the object's length and segment size asks for the recipes of  *)
(* its byte ranges and fetches those parts of the stored segments.         *)
(*                                                                         *)
(* The plan is the C function pyeclib_c_get_segment_info, computed in ints *)
(* of the width given by MaxInt; the recipe is ECDriver's                  *)
(* get_segment_info_byterange.  What happens to a plan asked for while the *)
(* driver is being closed is the subject of module DriverLifecycle.        *)
(***************************************************************************)
EXTENDS Integers, Sequences

CONSTANTS
  DataLens,        \* lengths of the objects that are stored
  SegmentSizes,    \* segment sizes their writers ask for
  K, WordBytes,    \* data fragments, and bytes of the backend's word
  Header,          \* sizeof(fragment_header_t)
  MaxInt           \* INT_MAX

ASSUME SizesAssumption ==
  /\ MaxInt \in Nat \ {0}
  /\ DataLens \subseteq 0..MaxInt
  /\ SegmentSizes \subseteq 1..MaxInt
  /\ K \in Nat \ {0} /\ WordBytes \in Nat \ {0} /\ Header \in Nat
  /\ 2 * (K * WordBytes) <= MaxInt  \* a plan for no bytes may name so many

VARIABLES
  pc,              \* "new", "writing" or "written"
  dataLen, segmentSize,   \* what the writer asked with
  info,            \* the plan last returned
  stored,          \* lengths of the segments encoded so far
  recipe           \* the reader's recipes: range -> segment -> part of it

vars == <<pc, dataLen, segmentSize, info, stored, recipe>>

-----------------------------------------------------------------------------
\* liberasurecode pads a segment to a whole number of words per fragment.

CeilDiv(a, b) == (a + b - 1) \div b

\* liberasurecode_get_minimum_encode_size: one word in every data fragment.
MinSegment == K * WordBytes

\* liberasurecode_get_fragment_size
FragmentBytes(n) == WordBytes * CeilDiv(n, MinSegment)

\* What encode() returns for a segment of n bytes: fragments of this length.
EncodedLength(n) == FragmentBytes(n) + Header

-----------------------------------------------------------------------------
\* pyeclib_c_get_segment_info

Plan(size, last, n) ==
  [segment_size |-> size, last_segment_size |-> last, num_segments |-> n,
   fragment_size |-> FragmentBytes(size) + Header,
   last_fragment_size |-> FragmentBytes(last) + Header]

OneSegment(d) == Plan(d, d, 1)

\* mutant: the short tail is dropped from the count but not added
ManySegmentsLosingTail(d, s, n) ==
  LET last == d - s * (n - 1) IN
  IF last < MinSegment THEN Plan(s, s, n - 1) ELSE Plan(s, last, n)

\* mutant: the tail is never merged
ManySegmentsUnmerged(d, s, n) == Plan(s, d - s * (n - 1), n)

\* mutant: the fragment size of the merged tail is computed before the merge
ManySegmentsStaleFragment(d, s, n) ==
  LET last == d - s * (n - 1) IN
  IF last < MinSegment
  THEN [Plan(s, last + s, n - 1) EXCEPT !.last_fragment_size = FragmentBytes(last) + Header]
  ELSE Plan(s, last, n)

\* mutant: the merged length is reported for every segment
ManySegmentsOfOneSize(d, s, n) ==
  LET last == d - s * (n - 1) IN
  IF last < MinSegment THEN Plan(s + last, s + last, n - 1) ELSE Plan(s, last, n)

\* mutant: the tail starts one segment too late
ManySegmentsPastTheEnd(d, s, n) == Plan(s, d - s * n, n)

\* A last segment too short to encode is merged into the one before it.
ManySegments(d, s, n) ==
  LET last == d - s * (n - 1) IN
  IF last < MinSegment THEN Plan(s, last + s, n - 1) ELSE Plan(s, last, n)

\* data_len < segment_size + min_segment_size in ints: past MaxInt the sum
\* overflows and the comparison may come out either way.
FitsInOne(d, s) ==
  {fits \in BOOLEAN : (fits <=> d < s + MinSegment) \/ s + MinSegment > MaxInt}

\* The plans the call may return.
SegmentInfos(d, s) ==
  LET n == CeilDiv(d, s) IN
  {IF n = 1 \/ (n = 2 /\ fits) THEN OneSegment(d) ELSE ManySegments(d, s, n)
     : fits \in FitsInOne(d, s)}

-----------------------------------------------------------------------------
\* ECDriver.get_segment_info_byterange

\* mutant: a range that crosses segments reads one byte too many of the first
SegmentMapOffByOne(r, s) ==
  LET first == r[1] \div s
      final == r[2] \div s
  IN [g \in first..final |->
        <<IF g = first THEN r[1] % s ELSE 0,
          IF g = final THEN r[2] % s ELSE s>>]

\* The part <<begin, end>> of each segment that the range r covers.
SegmentMap(r, s) ==
  LET first == r[1] \div s
      final == r[2] \div s
  IN [g \in first..final |->
        <<IF g = first THEN r[1] % s ELSE 0,
          IF g = final THEN r[2] % s ELSE s - 1>>]

\* The ranges a client may ask of an object of d bytes.
ByteRanges(d) == {r \in (0..d - 1) \X (0..d - 1) : r[1] <= r[2]}

-----------------------------------------------------------------------------
NoPlan == Plan(0, 0, 0)
NoRecipe == [r \in {} |-> <<>>]

Init ==
  /\ pc = "new"
  /\ dataLen \in DataLens
  /\ segmentSize \in SegmentSizes
  /\ info = NoPlan
  /\ stored = <<>>
  /\ recipe = NoRecipe

\* The writer asks how to cut the object up.
GetSegmentInfo ==
  /\ pc = "new"
  /\ info' \in SegmentInfos(dataLen, segmentSize)
  /\ pc' = "writing"
  /\ UNCHANGED <<dataLen, segmentSize, stored, recipe>>

\* The writer gives encode() the next segment, of the size the plan names.
EncodeSegment ==
  /\ pc = "writing"
  /\ Len(stored) < info.num_segments
  /\ stored' = Append(stored, IF Len(stored) + 1 = info.num_segments
                              THEN info.last_segment_size ELSE info.segment_size)
  /\ UNCHANGED <<pc, dataLen, segmentSize, info, recipe>>

Written ==
  /\ pc = "writing"
  /\ Len(stored) >= info.num_segments
  /\ pc' = "written"
  /\ UNCHANGED <<dataLen, segmentSize, info, stored, recipe>>

\* A reader asks for recipes, with the segment size the object was planned
\* with or the one its plan returned; the call makes a plan of its own.
GetByteRange ==
  /\ pc = "written"
  /\ \E s \in {segmentSize, info.segment_size} \ {0} :
       info' \in SegmentInfos(dataLen, s)
  /\ recipe' = [r \in ByteRanges(dataLen) |-> SegmentMap(r, info'.segment_size)]
  /\ UNCHANGED <<pc, dataLen, segmentSize, stored>>

Next == GetSegmentInfo \/ EncodeSegment \/ Written \/ GetByteRange

Spec == Init /\ [][Next]_vars

-----------------------------------------------------------------------------
\* The places of the object's bytes.

\* Where the segments of lengths s end, one after another; 0 is the beginning.
Ends(s) ==
  LET end[i \in 0..Len(s)] == IF i = 0 THEN 0 ELSE end[i - 1] + s[i]
  IN  end

\* Segment and offset at which byte b of the object is stored.
Place(b) ==
  LET g == CHOOSE i \in 1..Len(stored) : Ends(stored)[i - 1] <= b /\ b < Ends(stored)[i]
  IN <<g - 1, b - Ends(stored)[g - 1]>>

\* The places a segment map names.
Fetched(m) == UNION {{<<g, i>> : i \in m[g][1]..m[g][2]} : g \in DOMAIN m}

-----------------------------------------------------------------------------
\* Type invariant: a plan's sizes are lengths in bytes and the recipes are
\* asked for ranges of the object.
TypeOK ==
  /\ pc \in {"new", "writing", "written"}
  /\ dataLen \in DataLens /\ segmentSize \in SegmentSizes
  /\ info \in [segment_size: 0..MaxInt, last_segment_size: 0..MaxInt,
               num_segments: Int, fragment_size: Nat, last_fragment_size: Nat]
  /\ stored \in Seq(0..MaxInt)
  /\ DOMAIN recipe \subseteq ByteRanges(dataLen)

\* The sizes of a plan add up to the object, whichever way the short tail was
\* merged and even when the test for two segments overflowed.
SizesAddUp ==
  pc # "new" =>
    info.segment_size * (info.num_segments - 1) + info.last_segment_size = dataLen

\* get_segment_info exists because encode() has a smallest length: a writer
\* who asks for at least that never gets a shorter segment unless the whole
\* object is shorter, nor one that merging made longer than it had to be.
SegmentsEncodable ==
  \A i \in 1..Len(stored) :
    (segmentSize >= MinSegment /\ dataLen >= MinSegment) =>
      stored[i] >= MinSegment /\ stored[i] < segmentSize + MinSegment

\* The fragments encode() returns have the lengths the plan announced, so
\* the requests a caller prepared with them fit.
FragmentsAsAnnounced ==
  \A i \in 1..Len(stored) :
    EncodedLength(stored[i]) =
      IF i = info.num_segments THEN info.last_fragment_size ELSE info.fragment_size

\* A plan asked for again, with the segment size asked for or with the one
\* returned, describes the segments that were stored.
PlanIsStable ==
  pc = "written" => (Len(stored) >= 1 => Len(stored) = info.num_segments)

RecipeIsExact(r) == Fetched(recipe[r]) = {Place(b) : b \in r[1]..r[2]}

\* The recipe of a range names exactly the stored places of its bytes, unless
\* the range goes on past as many segments of the plan's size as were stored,
\* which only a tail that was merged into the last one does; then it never is.
\* Of the range (1, s + 1) in segments of s, byte s + 1 is the second one of
\* segment 1, so its part is (0, 1), as test_pyeclib_api.py:673-676 has it; the
\* docstring of get_segment_info_byterange (ec_iface.py:418) has (0, 0).
RecipesExactUpToMerge ==
  \A r \in DOMAIN recipe :
    RecipeIsExact(r) <=> r[2] < Len(stored) * info.segment_size

\* The docstring of get_segment_info_byterange: the recipe describes "the
\* segments and ranges within each segment needed to satisfy a range
\* request".  It fails for an object whose tail was merged into the segment
\* before: the recipe names a segment that does not exist.
RecipesExact == \A r \in DOMAIN recipe : RecipeIsExact(r)
=============================================================================
