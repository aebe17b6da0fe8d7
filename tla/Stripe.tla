------------------------------- MODULE Stripe -------------------------------
(***************************************************************************)
(* One stripe in the hands of a client of ECDriver: it makes a driver,     *)
(* encodes an object, keeps the fragments where they may be lost or        *)
(* damaged, and decodes, verifies and rebuilds from what is left.          *)
(*                                                                         *)
(* The driver's part are the checks and the loop of core.py and the range  *)
(* arithmetic and stripe check of the C extension; what a backend makes of *)
(* a set of fragments is module Codec.  The client keeps each fragment in  *)
(* the place its own list of indexes says, and drops what is reported bad. *)
(* Threads and closed drivers are the subject of module DriverLifecycle.   *)
(***************************************************************************)
EXTENDS Codec, SequencesExt

CONSTANTS
  Arguments,   \* arguments clients may try ECDriver() with
  Loaded,      \* backends liberasurecode can load
  MaxFaults,   \* bound on the fragments lost or damaged
  MaxIndexes,  \* bound on the indexes one reconstruct() is asked for
  ObjLen,      \* length of the object in bytes
  RangeLists,  \* lists of ranges given to decode()
  Word,        \* 2^64, the modulus of the C extension's uint64_t
  Lost         \* the place of a fragment that is not there

\* Numbers are numbers, NoNumber or None, names are names or None.
ASSUME ArgumentsAssumption ==
  Arguments \subseteq
    [ec_type: STRING \cup {NoType}, lib: Classes,
     k: Int \cup {NoNumber}, m: Int \cup {NoNumber},
     chksum_type: STRING, local_parity: Int \cup {NoNumber, NoType}]

\* An object is shorter than 2^63 bytes, and the ends of a range are C longs.
ASSUME RangesAssumption ==
  /\ Word \in Nat \ {0, 1} /\ ObjLen \in Nat /\ 2 * ObjLen <= Word
  /\ \A ranges \in RangeLists :
       /\ DOMAIN ranges = 1..Len(ranges)
       /\ \A j \in 1..Len(ranges) :
            /\ ranges[j][1] \in Int /\ ranges[j][2] \in Int
            /\ \A i \in {1, 2} : -Word <= 2 * ranges[j][i] /\ 2 * ranges[j][i] < Word

ASSUME FaultsAssumption == MaxFaults \in Nat

VARIABLES
  pc,      \* where client and call are
  args,    \* what ECDriver() was given
  driver,  \* the driver it made, or the error it raised
  store,   \* the client's fragments by index
  faults,  \* how many were lost or damaged so far
  list,    \* the client's indexes_to_reconstruct
  todo,    \* _indexes_to_reconstruct
  have,    \* _fragment_payloads of the call, as a set
  size,    \* fragment_len
  built,   \* reconstructed_data
  out      \* how the last call ended

frame == <<list, todo, have, size, built>>
vars  == <<pc, args, driver, store, faults, frame, out>>

-----------------------------------------------------------------------------
Whole == 2   \* length of an undamaged fragment; 1 is cut short behind its
             \* header, 0 empty

\* right: the contents are what encode() made of the object;
\* sum: they agree with the checksum in the header.
Fragment(i) == [idx |-> i, size |-> Whole, right |-> TRUE, sum |-> TRUE]

Damaged(i) ==
  {[Fragment(i) EXCEPT !.size = n] : n \in {0, 1}}
    \cup {[Fragment(i) EXCEPT !.right = FALSE, !.sum = FALSE]}

Held   == {i \in DOMAIN store : store[i] # Lost}
Idx(F) == {f.idx : f \in F}

\* The fragments S in a list, f the first of them; of fragments of one size
\* it may as well be the one with the least index.
Listed(f, S)  == <<store[f]>> \o SetToSeq({store[i] : i \in S \ {f}})
Leading(f, S) == \A i \in S : store[i].size = store[f].size => f <= i

NoOut == [call |-> "none", error |-> "none", value |-> <<>>, asked |-> <<>>]

Answer(call, error, value, asked) ==
  /\ pc' = "returned"
  /\ out' = [call |-> call, error |-> error, value |-> value, asked |-> asked]

\* The call and its frame are gone.
Forget ==
  /\ out' = NoOut
  /\ list' = <<>> /\ todo' = <<>> /\ have' = {} /\ size' = 0 /\ built' = <<>>

Init ==
  /\ pc = "new"
  /\ args \in Arguments
  /\ driver = "none"
  /\ store = <<>>
  /\ faults = 0
  /\ list = <<>> /\ todo = <<>> /\ have = {} /\ size = 0 /\ built = <<>>
  /\ out = NoOut

-----------------------------------------------------------------------------
(* ECDriver() and encode().                                                *)

Construct ==
  /\ pc = "new"
  /\ IF Verdict(args) = "ok"
       THEN \/ driver' = Driver(args) /\ pc' = "made"
               /\ (args.lib = "ECPyECLibDriver" => Driver(args).ec_type \in Loaded)
            \/ driver' \in InitErrors(Driver(args), Loaded) /\ pc' = "refused"
       ELSE driver' = Verdict(args) /\ pc' = "refused"
  /\ UNCHANGED <<args, store, faults, frame, out>>

\* The null driver answers every call with None; ECDriver gives its
\* fragments_needed() one argument more than it takes.
ECNullDriver ==
  /\ pc = "made" /\ driver.lib = "ECNullDriver"
  /\ \E call \in {"encode", "decode", "reconstruct", "fragments_needed", "verify",
                  "get_metadata", "min_parity_fragments_needed", "get_segment_info"} :
       Answer(call, IF call = "fragments_needed" THEN "TypeError" ELSE "none", <<>>, <<>>)
  /\ UNCHANGED <<args, driver, store, faults, frame>>

Encode ==
  /\ pc = "made" /\ driver.lib = "ECPyECLibDriver"
  /\ store' = [i \in Indexes(driver) |-> Fragment(i)]
  /\ pc' = "idle"
  /\ UNCHANGED <<args, driver, faults, frame, out>>

\* Between calls fragments are lost or damaged.
Fault ==
  /\ pc = "idle" /\ faults < MaxFaults
  /\ \E i \in Held : \E f \in Damaged(i) \cup {Lost} : store' = [store EXCEPT ![i] = f]
  /\ faults' = faults + 1
  /\ UNCHANGED <<pc, args, driver, frame, out>>

-----------------------------------------------------------------------------
(* The lists of fragments that decode() and reconstruct() accept.          *)

\* Mutant: the last fragment of the list is not looked at.
FragmentSizeErrorButLast(fragments) ==
  IF fragments = <<>> THEN "ECDriverError"
  ELSE IF \/ fragments[1].size = 0
          \/ \E i \in 2 .. Len(fragments) - 1 : fragments[i].size # fragments[1].size
    THEN "ECDriverErrorWithPosition"
  ELSE "none"

\* Mutant: an empty first fragment passes.
FragmentSizeErrorFirstEmpty(fragments) ==
  IF fragments = <<>> THEN "ECDriverError"
  ELSE IF \E i \in 2 .. Len(fragments) : fragments[i].size # fragments[1].size
    THEN "ECDriverErrorWithPosition"
  ELSE "none"

\* _validate_and_return_fragment_size
FragmentSizeError(fragments) ==
  IF fragments = <<>> THEN "ECDriverError"
  ELSE IF \/ fragments[1].size = 0
          \/ \E i \in 2 .. Len(fragments) : fragments[i].size # fragments[1].size
    THEN "ECDriverErrorWithPosition"
  ELSE "none"

\* What the client may pass: nothing, or some of what it holds, once over.
FragmentLists ==
  {<<>>} \cup UNION {{Listed(f, S) : f \in {g \in S : Leading(g, S)}} : S \in SUBSET Held}

-----------------------------------------------------------------------------
(* decode()                                                                *)

\* Mutant: a range that ends with the object is refused.
InObjectStrictly(r) ==
  ((r[1] % Word) + ((r[2] - r[1] + 1) % Word)) % Word < ObjLen

\* Offset and length of a range <<begin, end>> in uint64_t, and its check.
Slice(r)    == <<r[1] % Word, (r[2] - r[1] + 1) % Word>>
InObject(r) == (Slice(r)[1] + Slice(r)[2]) % Word <= ObjLen

\* One bad range fails the call; the answer is the offsets and lengths given to
\* Py_BuildValue, which takes a length that is negative as a Py_ssize_t to mean
\* the bytes up to the next zero.
DecodeAnswer(ranges) ==
  IF \A j \in 1..Len(ranges) : InObject(ranges[j])
    THEN Answer("decode", "none", [j \in 1..Len(ranges) |-> Slice(ranges[j])], ranges)
    ELSE Answer("decode", "ECInvalidParameter", <<>>, ranges)

\* The count is of the list, which may name a fragment twice; ranges are only
\* asked of a stripe with no fragment lost (a bound).
Decode ==
  /\ pc = "idle"
  /\ \E given \in FragmentLists, twice \in BOOLEAN, ranges \in RangeLists :
       LET fragments == IF twice /\ given # <<>> THEN Append(given, given[1]) ELSE given
           error     == FragmentSizeError(fragments)
           F         == ToSet(fragments)
       IN /\ ranges # <<>> => Idx(F) = DOMAIN store /\ ~twice
          /\ IF error # "none" \/ Len(fragments) < driver.k
               THEN /\ Answer("decode", IF error # "none" THEN error
                                        ELSE "ECInsufficientFragments", <<>>, ranges)
                    /\ UNCHANGED <<have, size>>
               ELSE /\ have' = F
                    /\ size' = fragments[1].size
                    /\ \/ /\ MayRecover(driver, Idx(F)) /\ size' = Whole
                          /\ DecodeAnswer(ranges)
                       \/ /\ ~(Recovers(driver, Idx(F)) /\ size' = Whole)
                          /\ Answer("decode", "ECInsufficientFragments", <<>>, ranges)
  /\ UNCHANGED <<args, driver, store, faults, list, todo, built>>

-----------------------------------------------------------------------------
(* reconstruct()                                                           *)

\* The indexes a client may ask for; a list names each once, in any order.
IndexSets == {S \in SUBSET DOMAIN store : Cardinality(S) \in 1..MaxIndexes}

Ascending(s) == \A i, j \in DOMAIN s : i < j => s[i] < s[j]

\* Mutant: a copy is sorted, and the client's list keeps its order.
ReconstructSortingACopy ==
  /\ pc = "idle"
  /\ \E fragments \in FragmentLists, S \in IndexSets : \E indexes, sorted \in SetToSeqs(S) :
       /\ Ascending(sorted)
       /\ list' = indexes
       /\ IF FragmentSizeError(fragments) # "none"
            THEN /\ Answer("reconstruct", FragmentSizeError(fragments), <<>>, <<>>)
                 /\ UNCHANGED <<todo, have, size, built>>
            ELSE /\ todo' = sorted /\ built' = <<>>
                 /\ have' = ToSet(fragments) /\ size' = fragments[1].size
                 /\ pc' = "loop" /\ UNCHANGED out
  /\ UNCHANGED <<args, driver, store, faults>>

\* The client's own list is sorted, and copied for the loop.
Reconstruct ==
  /\ pc = "idle"
  /\ \E fragments \in FragmentLists, S \in IndexSets : \E indexes, sorted \in SetToSeqs(S) :
       /\ Ascending(sorted)
       /\ IF FragmentSizeError(fragments) # "none"
            THEN /\ list' = indexes
                 /\ Answer("reconstruct", FragmentSizeError(fragments), <<>>, <<>>)
                 /\ UNCHANGED <<todo, have, size, built>>
            ELSE /\ list' = sorted /\ todo' = sorted /\ built' = <<>>
                 /\ have' = ToSet(fragments) /\ size' = fragments[1].size
                 /\ pc' = "loop" /\ UNCHANGED out
  /\ UNCHANGED <<args, driver, store, faults>>

\* The library returns a fragment that was given; a new one is computed from
\* the others, whatever their contents, with a checksum of its own.
Rebuilt(i) ==
  IF i \in Idx(have) THEN CHOOSE f \in have : f.idx = i
  ELSE [idx |-> i, size |-> size, right |-> \A f \in have : f.right, sum |-> TRUE]

\* Mutant: what was rebuilt is not used for the next ones.
RebuildNextAlone ==
  /\ pc = "loop" /\ todo # <<>>
  /\ \E ok \in IF size = Whole THEN Rebuilds(driver, Idx(have), Head(todo)) ELSE {FALSE} :
       \/ /\ ok
          /\ built' = Append(built, Rebuilt(Head(todo)))
          /\ have'  = have
          /\ todo'  = Tail(todo)
          /\ UNCHANGED <<pc, out>>
       \/ /\ ~ok
          /\ Answer("reconstruct", "ECInsufficientFragments", <<>>, <<>>)
          /\ built' = <<>>
          /\ UNCHANGED <<have, todo>>
  /\ UNCHANGED <<args, driver, store, faults, list, size>>

\* One round of the loop: the first index is rebuilt, and its fragment joins
\* the others; or the call fails and what was rebuilt before is gone.
RebuildNext ==
  /\ pc = "loop" /\ todo # <<>>
  /\ \E ok \in IF size = Whole THEN Rebuilds(driver, Idx(have), Head(todo)) ELSE {FALSE} :
       \/ /\ ok
          /\ built' = Append(built, Rebuilt(Head(todo)))
          /\ have'  = have \cup {Rebuilt(Head(todo))}
          /\ todo'  = Tail(todo)
          /\ UNCHANGED <<pc, out>>
       \/ /\ ~ok
          /\ Answer("reconstruct", "ECInsufficientFragments", <<>>, <<>>)
          /\ built' = <<>>
          /\ UNCHANGED <<have, todo>>
  /\ UNCHANGED <<args, driver, store, faults, list, size>>

ReconstructReturn ==
  /\ pc = "loop" /\ todo = <<>>
  /\ Answer("reconstruct", "none", <<>>, <<>>)
  /\ UNCHANGED <<args, driver, store, faults, frame>>

\* The client stores the fragments by its list of indexes.
PutBack ==
  /\ pc = "returned" /\ out.call = "reconstruct" /\ out.error = "none"
  /\ driver.lib = "ECPyECLibDriver"
  /\ store' = [i \in DOMAIN store |->
                 IF \E j \in 1..Len(list) : list[j] = i
                   THEN built[CHOOSE j \in 1..Len(list) : list[j] = i] ELSE store[i]]
  /\ UNCHANGED <<args, driver, faults>>
  /\ pc' = "idle" /\ Forget

-----------------------------------------------------------------------------
(* verify_stripe_metadata() and fragments_needed()                          *)

\* Mutant: places in the list for the indexes of the fragments.
BadFragmentsByPlace(metadata) ==
  {j - 1 : j \in {i \in 1..Len(metadata) : driver.inline_chksum /\ ~metadata[i].sum}}

\* Indexes in the metadata whose checksum does not match; without an inline
\* checksum none is found out.
BadFragments(metadata) ==
  {f.idx : f \in {g \in ToSet(metadata) : driver.inline_chksum /\ ~g.sum}}

\* The fragments cut short; get_metadata() is told no length and makes their
\* checksums of bytes that are not theirs.
CutShort == {i \in Held : store[i].size # Whole}

\* get_metadata(): index and checksum verdict, of those cut short by luck.
Metadata(i, lucky) ==
  [idx |-> store[i].idx, sum |-> IF i \in CutShort THEN i \in lucky ELSE store[i].sum]

\* The client asks for the metadata of all fragments it holds, in any order,
\* and has them checked.  The bytes of a fragment cut short may be refused, an
\* empty one has no header; the C function wants exactly k + m of them.
VerifyStripeMetadata ==
  /\ pc = "idle"
  /\ \/ /\ CutShort # {}
        /\ Answer("get_metadata", "ECInvalidFragmentMetadata", <<>>, <<>>)
     \/ /\ \A i \in Held : store[i].size # 0
        /\ \E order \in IF Held = DOMAIN store THEN SetToSeqs(Held) ELSE {SetToSeq(Held)},
              lucky \in SUBSET CutShort :
             LET metadata == [j \in 1..Len(order) |-> Metadata(order[j], lucky)] IN
             IF Len(metadata) # driver.k + driver.m
               THEN Answer("verify", "ECInvalidParameter", <<>>, <<>>)
               ELSE Answer("verify", "none", SetToSeq(BadFragments(metadata)), <<>>)
  /\ UNCHANGED <<args, driver, store, faults, frame>>

\* The client drops what it was told is bad.
DropBad ==
  /\ pc = "returned" /\ out.call = "verify" /\ out.error = "none"
  /\ driver.lib = "ECPyECLibDriver"
  /\ store' = [i \in DOMAIN store |-> IF i \in ToSet(out.value) THEN Lost ELSE store[i]]
  /\ pc' = "idle" /\ out' = NoOut
  /\ UNCHANGED <<args, driver, faults, frame>>

\* The library names fragments that suffice, or says that there are none.
FragmentsNeeded ==
  /\ pc = "idle"
  /\ LET Enough == {S \in SUBSET Held : Recovers(driver, S)} IN
       \/ \E S \in Enough :
            /\ \A i \in S : S \ {i} \notin Enough
            /\ Answer("fragments_needed", "none", SetToSeq(S), <<>>)
       \/ /\ Enough = {}
          /\ Answer("fragments_needed", "ECInsufficientFragments", <<>>, <<>>)
  /\ UNCHANGED <<args, driver, store, faults, frame>>

\* The client looks at any other answer and goes on.
GoOn ==
  /\ pc = "returned"
  /\ out.error # "none" \/ out.call \in {"decode", "fragments_needed"}
                        \/ driver.lib = "ECNullDriver"
  /\ pc' = IF driver.lib = "ECNullDriver" THEN "made" ELSE "idle"
  /\ Forget
  /\ UNCHANGED <<args, driver, store, faults>>

\* A client whose arguments were refused gives up.
Refused == pc = "refused" /\ UNCHANGED vars

Next ==
  \/ Construct \/ ECNullDriver \/ Encode \/ Fault \/ Decode
  \/ Reconstruct \/ RebuildNext \/ ReconstructReturn \/ PutBack
  \/ VerifyStripeMetadata \/ DropBad \/ FragmentsNeeded \/ GoOn \/ Refused

Spec == Init /\ [][Next]_vars

-----------------------------------------------------------------------------
(* Properties.                                                             *)

\* The state is well formed.
TypeOK ==
  /\ pc \in {"new", "refused", "made", "idle", "loop", "returned"}
  /\ args \in Arguments
  /\ pc \in {"made", "idle", "loop", "returned"} =>
       driver = Driver(args) /\ driver.lib \in {"ECPyECLibDriver", "ECNullDriver"}
  /\ \A i \in DOMAIN store : store[i] = Lost \/ store[i].size \in 0..Whole
  /\ faults \in 0..MaxFaults
  /\ have # {} => size \in 1..Whole
  /\ Len(built) + Len(todo) <= Len(list)

\* What a client stores under an index is that fragment of the stripe:
\* reconstruct() answers in the order of the client's own list, which it
\* sorts in place (core.py:165).
KeptInPlace ==
  \A i \in DOMAIN store : store[i] # Lost => store[i].idx = i

\* A request that names all lost data succeeds whenever the fragments that
\* are given determine the data, whatever the order of the request and
\* whichever parities it names besides: data goes first and helps with the
\* parity (core.py:162-164).
WholeRequestSucceeds ==
  (/\ out.call = "reconstruct" /\ out.error = "ECInsufficientFragments"
   /\ size = Whole
   /\ DataIndexes(driver) \ Idx(have) \subseteq ToSet(list)) =>
     ~Recovers(driver, Idx(have))

\* decode() and reconstruct() of the C extension read fragment_len bytes of
\* every fragment they are given, and never past the end of one, in no round
\* of the loop (core.py:102-124); get_metadata() has no such check.
ReadWithinFragments == \A f \in have : f.size = size

\* After a stripe check the client has dropped, of the fragments of full
\* length, those whose contents changed since their checksum was made, and no
\* other, if the driver has inline checksums; otherwise nothing at all.  What
\* is cut short may stay or go: its verdict is one on the bytes behind it
\* (pyeclib_c.c:1085).
ScrubDropsOnlyBad ==
  [][out.call = "verify" /\ out.error = "none" /\ out'.call = "none" =>
       \A i \in DOMAIN store :
         /\ store'[i] = Lost => args.chksum_type = "inline_crc32"
         /\ store[i].size = Whole =>
              (store'[i] = Lost <=> args.chksum_type = "inline_crc32" /\ ~store[i].sum)]_vars

\* For any two longs decode() looks only at the end of a range: it answers
\* just if every range ends in the object, or right before it.  A range that
\* begins in the object and not more than one byte after its end is then
\* answered by exactly its bytes; of any other, one with a negative begin or
\* an end further before its begin, the offset or the length it is made with
\* is none of the object's (pyeclib_c.c:855-856 and 902-907, where 901 says
\* "within the original buffer").
RangesExact ==
  out.call = "decode" /\ out.error \in {"none", "ECInvalidParameter"} =>
    /\ out.error = "none" <=>
         \A j \in 1..Len(out.asked) : out.asked[j][2] \in -1 .. ObjLen - 1
    /\ out.error = "none" =>
         \A j \in 1..Len(out.asked) :
           LET b == out.asked[j][1]
               e == out.asked[j][2]
           IN IF 0 <= b /\ b <= e + 1 THEN out.value[j] = <<b, e - b + 1>>
              ELSE out.value[j][1] >= ObjLen \/ out.value[j][2] > ObjLen

\* The repr of a driver that has a code is a call of ECDriver() that succeeds
\* and makes the same driver but for what it does not show: the library class,
\* the checksums, and the local parities, without which an LRC is another code.
ReprRebuilds ==
  (pc \notin {"new", "refused"} /\ driver.ec_type # NoType) =>
    /\ Verdict(WithDefaults(Repr(driver))) = "ok"
    /\ Driver(WithDefaults(Repr(driver))) =
         [ec_type |-> driver.ec_type, k |-> driver.k, m |-> driver.m, hd |-> driver.hd,
          lib |-> "ECPyECLibDriver", inline_chksum |-> FALSE, local_parity |-> 0]
=============================================================================
