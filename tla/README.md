# A TLA+ model of PyECLib

PyECLib is a Python interface to liberasurecode: a C extension
(`src/pyeclib_c/pyeclib_c.c`), a driver class around it (`src/pyeclib/core.py`)
and the public class `ECDriver` (`src/pyeclib/ec_iface.py`). Paths and line
numbers below are relative to the repository.

The erasure codes themselves are liberasurecode's. PyECLib's own logic is the
ownership of instances and memory between Python objects, C structures and the
library, under threads with and without the GIL; the cutting of objects into
segments; the lists of fragments it passes on; and a layer of argument checks
and conversions. Around it stand the programs of the repository:
`pyeclib-backend`, `tools/pyeclib_conf_tool.py` and `pack_wheel.py`.

## Inventory

| Component | State | Operations | Correct when |
|---|---|---|---|
| Driver handle: `ECPyECLibDriver`, the capsule, `pyeclib_t`, the library's instance | `_handle`, references to the capsule, `pyeclib_t.ec_desc`, the library's registry | construct, every method, `close()`, dropping the object | no call uses freed memory; instance and memory are given back, once; drivers do not disturb each other; a closed driver says so |
| `init(validate=True)` | the process's stderr, static `stderr_fd` and `stderr_fpos` | redirect, create, restore | stderr and the descriptor table are as before |
| Segmentation | none; the client stores the segments | `get_segment_info`, `get_segment_info_byterange` | sizes add up, segments can be encoded, fragment sizes are true, recipes name the right bytes |
| Encode, decode, reconstruct | result buffers of the library; the list of indexes, the fragments collected so far | the three calls | no fragment is read past its end; what comes back is stored in its place; a request that can succeed does |
| Byte ranges of `decode()` | none | `decode(ranges=...)` | what ends outside the payload is refused; what begins in it is the named slice (a range that begins before it is not refused, see below) |
| Fragment metadata | none | `get_metadata`, `verify_stripe_metadata` | bad fragments are named, and no others |
| Fragments needed | none | `fragments_needed` | decided by the library |
| Memory of the C extension | buffers of one call | every allocation may fail | nothing leaks on an error path |
| `ECDriver` construction | `k, m, hd, ec_type, chksum_type` | `__init__`, `__repr__` | bad arguments are refused; the repr makes a driver of the same code, numbers and distance (but without local parities, checksums or another library class) |
| `ECNullDriver`, `ECStripingDriver` | `k, m, hd` | the driver interface | striping: decode inverts encode |
| Backend availability | `VALID_EC_TYPES`, set at import | `check_backend_available` | no property: it is the library's answer, kept |
| Exceptions | none | `pyeclib_c_seterr` | each library error has its class |
| `pyeclib-backend` | the codes still to be tried, what failed so far | `check`, `list`, `verify`, `bench`, `version` | the exit status is true; `bench` does not die of its own choice of samples |
| `pyeclib_conf_tool.py` | the schemes to be tried | one script | the schemes meet the request, and none is missing |
| `pack_wheel.py` | two temporary directories, the unpacked wheel, the output file | one script | a wheel that comes out stands on its own; nothing is left behind |
| Other tools, `setup.py` | none | reports, file I/O | - |

How they interact: `ECDriver` holds one driver object and passes every call on
to it. The driver reads its `handle` property for every call into the C
extension and passes the capsule; the C function takes the `pyeclib_t` out of
it and calls the library with the descriptor. `close()` destroys the instance
and drops the capsule from the attribute; the capsule's destructor runs when
the last reference goes, which may be that of a call under way. The C functions
run with the GIL unless Python is free-threaded and liberasurecode is 1.8.0 or
later (`pyeclib_c.c:1245-1251`). Raising one of PyECLib's exceptions from C
(`pyeclib_c_seterr`) imports a module and, as from Python 3.12 on, runs the
exception's Python `__init__` (`exceptions.py:32`), where the GIL may pass to
another thread.

What is hard here: a `close()` in one thread against calls in another (the
handle is read twice, the instance is looked up anew by every call into the
library); the double destroy by `close()` and destructor; a destroy that is
refused; the static variable of the stderr redirection; the boundaries of
segmentation; the order in which lost fragments are rebuilt; walks over many
codes that end in one number; a long script of which any step may fail. There
are no messages, timeouts or retries, so no hazard of those kinds is listed in
`PROJECT.json`.

## Modules

**InstanceLifecycle** is the abstract specification of what a driver promises
about its resources: an instance is opened, may be asked to close, is destroyed
only then or together with its memory, and its memory is freed once.

**DriverLifecycle** is the code. Its variables are `handle` (the attribute
`_handle`), `desc` and `mem` (the `pyeclib_t`), `active` and `issued` (the
library's registry), and for every thread its place in a call (`pc`, `op`,
`drv`), the reference in its frame (`ref`), what is left of `reconstruct()`'s
loop (`left`) and how the call ended (`out`); `closing` and `leaked` are
history. The correspondence:

| Code | Actions |
|---|---|
| `pyeclib_c_init` and `__init__` | `Create` |
| the object is dropped; capsule destructor | `Drop`; `Unreference`, a part of each action in which a reference goes |
| `handle` property, `core.py:91-97` | `HandleCheck`, `HandleLoad`: two reads of the attribute |
| `PyCapsule_GetPointer` on `None`; any failure on the arguments | `NoCapsule`; `Fail` |
| `pyeclib_c_encode`, `pyeclib_c_decode` | `Encode`, `Decode`, then `Cleanup` |
| `reconstruct()` and its loop | `Reconstruct`, `ReconstructDone` |
| `check_metadata`, `get_required_fragments`, `get_metadata` | one action each |
| `get_segment_info`, up to three library calls | `GetSegmentInfo`, `FragmentSize`, `LastFragmentSize` |
| `close()`, `core.py:86-89` | `CloseCheck`, `CloseLoad`, `CloseStore` |
| `pyeclib_c_destroy` | `DestroyNoCapsule`, `DestroyUnknown`, `DestroyRefused`, `Destroy` |

A step is a read or write of the attribute, or one call into the library with
the C code up to the next. `CanRun` is the GIL: without it steps interleave
freely, with it no other thread moves while one is in the middle of a C
function, except at `"seterr"`, the error path of `decode()` that raises before
it releases the payload. Other error paths raise last, so that nothing they do
afterwards depends on who ran meanwhile.

External, modelled from their use: the library hands out no descriptor twice
(it counts up and wraps after 2^31), finds an instance or reports that there is
none, frees result buffers only for an instance it finds, and may refuse a
destroy for want of its lock (`LockMayFail`).

**DriverLifecycleProofs** and **DriverRefinementProofs** hold the proofs about
it, **MCDriverLifecycle** the symmetry for TLC.

**ValidateStderr** (with **MCValidateStderr**) is the redirection of stderr in
`init(validate=True)`: `Save` and `Redirect` are `redirect_stderr()`, `Create`
and `SetErr` the body, `Restore` and `CloseSaved` are `restore_stderr()`. Other
threads open and close files (`OpenFile`, `CloseFile`), even under the GIL.
The system's `dup()` may pick any free descriptor; `freopen()` is taken to act
in one step on stderr's own descriptor. The proofs are in
**ValidateStderrProofs**.

**SegmentedObject** (with **MCSegmentedObject**, **SegmentedObjectProofs**) is a
writer that asks `get_segment_info` how to cut an object up and encodes the
segments, and a reader that asks `get_segment_info_byterange` for recipes, with
the segment size the writer used or with the one the plan returned.
`SegmentInfos` is the C function's result as a set: one plan, or two where
`segment_size + min_segment_size` overflows an int and the comparison is
undefined. `CeilDiv` is exact integer division although the
code divides doubles: a quotient of ints that is not whole is at least
1/segment_size away from a whole number, and data_len is far below 2^53, so it
cannot round to one.
Arithmetic inside liberasurecode's size
functions is not given a width. Segment size 0, a division by zero, is not an
input; an object of 0 bytes is, and yields a plan of 0 segments (or -1, if the
segment size is below the minimum), which stores nothing.

**DriverConfig** has no state: the names of codes (`enums.py`, `ec_iface.py`),
`check_backend_available`, the checks of `ECDriver.__init__` in their order
(`Checks`, `Verdict`), the attributes of the driver that comes out (`Driver`),
the exceptions of the C extension (`ExceptionOf` is the table of
`pyeclib_c_seterr`, `InitErrors` what `init()` raises for what the library may
answer, `ECDriverErrors` the classes that callers catch), the arguments a repr
shows (`Repr`) and the call they make with the defaults of the others
(`WithDefaults`). An argument is a record; what is no number is `NoNumber`,
`None` is `NoType`.

**Codec** (external) says from which fragments a code brings the data back:
any k for the Reed-Solomon codes, fewer than `hd` losses for the XOR codes, and
for the LRC as many global parities as there are losses that the groups do not
mend. `Recovers` is what surely works,
`MayRecover` and `Rebuilds` add what works for some patterns only; `Makeable`
says that the library makes no XOR code with fewer parities than its distance
takes. It is the
one place where the library's codes are described, from what `core.py`,
`cli/verify.py` and `cli/bench.py` take for granted.

**Stripe** (with **MCStripe**, **StripeProofs**) extends both. A client makes a driver
(`Construct`; the null driver answers in `ECNullDriver`), encodes an object,
loses or damages fragments (`Fault`), and uses the rest:

| Code | Actions |
|---|---|
| `_validate_and_return_fragment_size`, `core.py:102-124` | `FragmentSizeError` |
| `decode()`, the stripe's count, the ranges, `pyeclib_c.c:821-905` | `Decode`, `Slice`, `InObject` |
| `reconstruct()`: sort, then one call of the library for each index | `Reconstruct`, `RebuildNext`, `ReconstructReturn` |
| `get_metadata` for every fragment, `verify_stripe_metadata`, `check_metadata` | `VerifyStripeMetadata`, `Metadata`, `BadFragments` |
| `fragments_needed` | `FragmentsNeeded` |
| the client: stores what was rebuilt, drops what is bad | `PutBack`, `DropBad`, `GoOn` |

A fragment is its index, its length (whole, cut short, empty), and whether its
contents and its checksum are right. In `reconstruct()` the list the client
passed is sorted in place and the client stores the answer by that list.
`decode()` and `reconstruct()` check lengths (`ReadWithinFragments`);
`get_metadata()` has no such check, so that a fragment cut short (`CutShort`)
has either verdict, whatever bytes lie behind it, or is refused; an empty one
is taken to be always refused, as no header lies behind it. `Slice` is the offset and the length that are handed to
`Py_BuildValue`.

**StripingDriver** is `ECStripingDriver`: `Fragments` is the loop of `encode()`
with Python's slices, `Decode` and `Reconstruct` the other methods. Bytes are
told apart by their place. It stands alone as `ECDriver` cannot make one.

**Backend** (with **BackendProofs**) is `pyeclib-backend`. `NoCommand`, `Version`, `List` and `Check`
end at once; `verify` and `bench` expand the names they are given
(`ExpandTypes`), pass over codes that are unknown, not available or refuse
their arguments (`SkipType`), try the others (`VerifyType`, `BenchType`) and
exit (`VerifyExit`, `BenchExit`). `Trials` are the sets of fragments
`check_instance()` goes through, `Samples` those that `bench` draws. `sorted()`
has one order, here that of a `CHOOSE`; of what is drawn at random one sample
stands for several, as only whether one failed is kept.

**ConfTool** is `pyeclib_conf_tool.py`: `get_viable_schemes` computes the list,
`NotDefined`, `EncodeStr` and `SortResults` are the script that tries it. Rates
are pairs of integers; `MinKs` has two values where the product of floats may
land on either side of a whole number.

**PackWheel** (with **PackWheelProofs**) is `pack_wheel.py`, one action for
each step that can fail by itself. The contents of a library are the names it
is linked to and whether it has an rpath. `Raise` is an exception at any step,
`Cleanup` the `finally` that it reaches, `Kill` the end of the process. What
`auditwheel`, the linker's tools and the file system do is taken from their
use.

**MCPrograms** puts these three programs in one run: one of them runs in each
behaviour, the others are off. **ProgramsProofs** has the proofs about ConfTool
and those about the three together.

## Runs

| Run | Instance | Shows |
|---|---|---|
| `lifecycle_gil` | 2 threads, 1 driver, free-threaded Python with liberasurecode 1.7.1 (so the GIL stays on), fairness | calls return, a closed driver is reclaimed, `encode()` never leaks, `get_segment_info` is sound |
| `lifecycle_nogil` | 3 threads, 1 driver, versions 1.6.4 (GIL, too old to destroy) and 1.8.0 (no GIL), destroys may be refused | memory and instances under every interleaving |
| `lifecycle_refine` | 2 threads, 2 drivers, 1.8.0 | drivers are independent, the inductive invariant, the refinement of InstanceLifecycle |
| `lifecycle_refusal` | 2 threads, 1 driver | violated: a call that races with `close()` raises another exception than documented |
| `lifecycle_segment` | 2 threads, 1 driver | violated: `get_segment_info` returns a size built from an error code |
| `stderr_gil` | 3 validators, 2 openers, 4 descriptors, fairness | validation leaves stderr and descriptors alone under a GIL that is not given up |
| `stderr_nogil` | 2 validators, 1 opener | violated: stderr stays at `/dev/null` |
| `segments` | every object of 0 to 18 bytes, every segment size 1 to 18, minimum 4, ints up to 18 | plans, the overflow included; which recipes are exact |
| `segments_merged` | 20 bytes; segments of 4, 6 and 8 | violated: a recipe names a segment that does not exist |
| `stripes` | RS 2+2 with checksums, XOR 2+3, LRC 2+3 with two local parities, every argument wrong in turn; 2 faults, 2 indexes, 3 bytes | fragments stay in their places, whole requests succeed, `decode()` and `reconstruct()` read no fragment past its end, which ranges are exact, what a scrub drops, what a repr keeps |
| `striping` | 2 to 4 fragments; objects of 1, 2, 5, 6 and 13 bytes | violated: `decode()` does not return the object |
| `programs` | see `MCPrograms` | exit status of `verify`, samples of `bench`, schemes, wheels and temporary directories |

Bounds. `MaxIndexes` bounds the list given to `reconstruct()`: 2 indexes have
the loop go round, 1 suffices where only interleavings matter. Three threads
are a caller, a closer and a second closer or caller, the most any of the
races takes; two drivers are what it takes for one to disturb another. Each
driver is constructed once, so a descriptor per driver is enough; a library that
reused one would show in `lifecycle_refine`, where a second driver can take the
descriptor of a closed one (the mutant `CreateReusing`).
In `segments` a minimum of 4 and lengths to 18 give up to five segments of the
minimum, every remainder, segment sizes below, at and above the minimum, and
sums beyond `MaxInt`. In `stderr_gil` there is always a free descriptor; with
none `dup()` fails and stderr is not restored, a limit of the code that the
hazard list records.

In `stripes` two faults reach the distance of either code and, with a list of
two indexes, data and parity are asked for in both orders. `RangeLists` has all
pairs of ends from one before the object to one past its last address, alone
and after a good one; `Word` stands for 2^64 and 64 is far enough beyond an
object of three bytes for a negative begin to wrap as it does there. Ranges are
asked only of a stripe with no fragment lost (cut short or altered ones there
may be), as what they name does not depend on the choice.

In `programs` the XOR codes have five data and five parity fragments, which
both distances allow, and the LRC three and three with none, one and two local
parities; the number of missing fragments goes from -1 to one more than there
are. Requests of the configuration tool lie around the first XOR codes, with
rates whose product is whole and rates whose product is not, one that is
negative and one above 1. The wheel has one extension or two on each platform.
Deadlock is not checked in `programs` and `striping`, where behaviours end.

Fairness. Every step of a call in progress is strongly fair: a thread that can
take its step again and again takes it. The GIL makes a running thread yield to
a waiting one after its switch interval and the system schedules every thread,
so no thread is left out for ever. No fairness is put on the start of calls, on
constructing or on dropping drivers: `ClosedIsReclaimed` follows without the
program ever dropping the driver. `Ended` is the program that has used up its
drivers.

## What was found

- `core.py:93-97` (run `lifecycle_refusal`): the handle is tested and read
  again. A call that overlaps a `close()` raises `ECInvalidParameter`, a second
  `close()` raises `ECDriverError`; `test_use_after_close` and the property
  itself say `ECBackendInstanceNotAvailable`.
- `pyeclib_c.c:478` (run `lifecycle_segment`): the second test is of
  `fragment_size` where `last_fragment_size` is meant.
- `pyeclib_c.c:185` (run `stderr_nogil`): the saved descriptor is shared by all
  threads. A validation that starts between the `dup2()` and the `close()` of
  another (lines 202-203) has its saved descriptor closed by that one, and
  cannot put stderr back. The same invariant also fails with the GIL and
  `ErrorsRunPython = TRUE` (Python 3.12 and later): two validations of unknown
  backends are enough.
- `ec_iface.py:438-460` (run `segments_merged`): the recipe ignores that the
  tail was merged into the segment before it.
- `core.py:317` (run `striping`): `encode()` moves the start of the slice and
  leaves its end, and takes what line 312 computes as a size for the end of the
  last one (line 320), counted from the start of the data: the fragments after
  the first are empty or short.

Noticed and not a run, as no document promises otherwise, the property would
only repeat the line, or a passing run already says what does hold:

- `decode()` accepts ranges that are not in the object: `pyeclib_c.c:902` looks
  at offset + length only, which is 1 for both (-1, 0) and (2, 0), although the
  comment before it says "Check that range is within the original buffer".
  (-1, 0) is answered with two bytes of which the first lies before the payload;
  (2, 0) has length -1, which `Py_BuildValue` takes for "up to the next zero
  byte". `RangesExact` says for which pairs of longs the answer is right, for
  which it is refused, and that for all others it is one of these.
- `get_metadata()` never uses the fragment's length (`pyeclib_c.c:1075-1085`):
  of a fragment cut short it reads past the end, and the checksum verdict is on
  what lies there. `ScrubDropsOnlyBad` is about fragments of full length.
- A driver's repr has no `local_parity`, `chksum_type` or library class
  (`ec_iface.py:224-227`); with local parities, that of an `isa_l_rs_lrc` driver
  makes a different code.
- The docstring of `get_segment_info_byterange` (`ec_iface.py:418`) gives the
  recipe of (1, 3073) in segments of 3072 bytes as `1: (0,0)`. The code and
  `test_pyeclib_api.py:673-676` give `1: (0, 1)`, and `RecipesExactUpToMerge`
  says that they are right.
- When `init()` cannot allocate the `pyeclib_t` and `validate` is set,
  `pyeclib_c.c:240-242` lead to `restore_stderr()` with nothing saved: with
  `stderr_fd` still 0, stderr becomes stdin and stdin is closed.
- No library error becomes `ECBackendInitializationError`, although
  `exceptions.py:66` has it for the "liberasurecode backend init error":
  `pyeclib_c_seterr` has no case for it, so it is an `ECDriverError`
  (`ExceptionOf`).
- `pyeclib_conf_tool.py` cannot finish on Python 3: the first driver it makes
  is given a `str` (`ECInvalidParameter`), and `results.sort(lambda ...)` is a
  `TypeError` (`EncodeStr`, `SortResults`; its three ways to end are errors).
- `verify` exits with 0 when it tried nothing: no code available, or a negative
  `--unavailable` with all combinations, of which there are none. An exception
  that nobody catches has the same status, 1, as failures.
- `check flat_xor_hd` says unknown, although `ECDriver` takes the name.
- `bench` of an LRC without local parities dies for all samples
  (`BenchSampleSuffices` excludes it).
- `check_metadata` wants k + m entries (`pyeclib_c.c:1143`) where
  `ec_iface.py:341-347` speaks of a subset.
- `ECNullDriver.fragments_needed` takes one argument and is given two; no
  arguments of `ECDriver` make an `ECStripingDriver`, whose `__init__` has no
  `local_parity` and wants m = 0 where `ECDriver` wants m > 0 (`Checks`).
  `setUp()` of `TestStripeDriver` (`test_pyeclib_api.py:64-69`) tries, but the
  class has no tests, so it is never called.

The comment at `pyeclib_c.c:317-321` says that an
instance that could not be destroyed is collected; with `LockMayFail` the
destructor frees the `pyeclib_t` and the instance stays (`InstanceReclaimed`
fails). `init(validate=...)` is documented at line 217 to close the handle
immediately and does not.

## Proofs

`tlapm` checks them for every value of the constants that satisfies the named
assumptions of the module:

- `BoundsAssumption`, `NoDescAssumption` (DriverLifecycle), `StderrAssumption`
  (ValidateStderr), `FaultsAssumption` (Stripe): flags and bounds have their
  types, and "no descriptor" and the process's own files are told from others;
- `ExtsAssumption` (PackWheel): no extension has the name of a library;
- `SizesAssumption` (SegmentedObject): lengths are ints, and a segment of twice
  the minimum is one;
- `NotGiven` (DriverConfig): what is no number and what is `None` are told from
  numbers and names;
- `ArgumentsAssumption`, `RangesAssumption` (Stripe): the fields of the
  arguments have their types, ends of ranges are C longs and the object has at
  most half as many bytes as the word has values;
- `CommandLinesAssumption` (Backend): the numbers of a command line are
  integers, as `argparse` makes them;
- `RequestsAssumption` (ConfTool): numbers of fragments and faults are integers,
  of any sign, and a rate is a rational.

`DriverLifecycleProofs`: `Spec => []IInv` (`Invariance`), and from it type
correctness, `NoUseAfterFree`, `RefusedOnlyAfterClose`, `NoneMeansDestroyed`,
`LeakedOnlyByClose` and, if no destroy is refused, `InstanceReclaimed`.

None of these is inductive. `NoUseAfterFree` says that who holds the capsule
finds the memory allocated; to keep it, a step that loads the handle needs that
an attribute holding the capsule means allocated memory, and a step that drops
a reference needs that no other frame holds one, which is what `Unreference`
asks. `RefusedOnlyAfterClose` needs that an open driver that nobody has asked
to close has its instance in the registry, which needs that no other driver has
its descriptor (`DriversOK`), which needs that descriptors are not reused
(`active \subseteq issued`); and that a thread inside `close()` past its check
has left its mark (`ThreadsOK`). `NoneMeansDestroyed` needs that a thread about
to store `None` has seen the instance go. The proof has a lemma for each action
that changes more than one thread's place (`CreateInv`, `DropInv`,
`CloseStoreInv`, ...), and `FinishInv` for all the ways a call ends.

`DriverRefinementProofs` builds on `IInv`. Each step of a thread is of one of a
few kinds (`RefinedStep`): it leaves references and instances alone (`Keep`),
lets one reference go (`Release`), passes the check of `close()`, destroys an
instance, creates or drops a driver. `ImplementsLifecycle` maps each kind to a
step of `InstanceLifecycle` or to none; it assumes that every library can
destroy instances (`v >= 67077`, version 1.6.5) and refuses none, without which the abstract
promise does not hold. `MemoryIsReachable` and `OldInstancesStay` have no such
assumption. `GilInvariance` is the invariant under the GIL (`GilStays`: no
version lets a free-threaded build drop it): a thread in the middle of a C
function still has its instance, since nobody else moves, and from it follow
`EncodeKeepsBuffers` and `SegmentSizesAreReal`, which fail without the GIL.

`ValidateStderrProofs`: the stderr properties under `GilHeld` (no GIL given up,
not even by an error) and `DescriptorsLeft` (a free descriptor is never
lacking), for any number of threads and descriptors. `SInv` says that at most
one thread is between saving and closing, that stderr is at `/dev/null` just
then, and that the number in `stderr_fd` refers to the saved file.

`SegmentedObjectProofs`: `PlansCoverObjects`, that `SizesAddUp` always holds.
Each branch of the C function adds up by itself, so the branch taken does not
matter, overflow included; `PlanInv` carries that to the state. About the
stored segments, `SegmentsInv`: whatever plan was returned last is one for the
writer's own arguments, even if it was asked for with the size another plan had
returned (`AskedAgain`), and what is stored are the segments of that plan.
Where the comparison overflows two plans for the same arguments may differ, but
only in the size of segments there are none of (`PlansAgree`: the tail is then
shorter than the minimum in any case). From these follow `SegmentTypes`,
`NoSegmentTooShort`, `AnnouncedSizesAreTrue` and `PlansAreStable`; the products
of segment size and number are dealt with once, in `PlanKinds`.

Where the segments lie is a sum over the list of their lengths (`Ends`, a
recursive function). That a recursive function has the values one expects is
shown by induction: it exists on the first n arguments for every n. Induction
as a rule takes a predicate for a parameter, so it is stated for a set of
numbers (`SetInduction`), from the library's theorem that every set of numbers
has a least one. `EndsOfSegments` then says that the first segments end at
multiples of the segment size and the last one with the object. For the recipes, byte b of the object lies in segment
`b \div size` at `b % size` as long as b is below as many segments of that size
as were stored (`StoredPlaces`), and `SegmentMap` names just the quotients and
remainders of its range (`SegmentMapFetches`, by the uniqueness of division).
`RecipesAreExact` says for which ranges the two are the same: all that end
below that length, and no other, since every byte is in a segment that exists
(`PlacedInSegment`). What `segments_merged` shows of one object is thus the
whole extent of that defect.

`StripeProofs`: for any arguments, object, lists, ranges and damage, types,
`KeptInPlace`, `ReadWithinFragments`, `WholeRequestSucceeds`, `RangesExact`,
`ReprRebuilds` and `ScrubDropsOnlyBad`. None but the last two says enough about
a call under way, so `StripeInv` adds that the fragments in hand have the one
size the check let pass, that what `reconstruct()` has built is the beginning
of the sorted list and what is left its rest (`LoopOK`), and that the answer of
a stripe check is about what the client still holds (`VerifyOK`). Of the codes
`WholeRequestSucceeds` uses only two rules, that data is rebuilt from fragments
that recover it and a parity from all the data: indexes are sorted, so data
comes before parity, and whichever index is next is either data or has all data
before it. `RangesExact` is about all pairs of C longs: offset plus length is
the end plus one, whatever the begin (`SliceAnswers`), and as the object has at
most half as many bytes as the word has values, no negative number wraps to
within it (`InObjectByEnd`). `VerifyInv` has fragments cut short in either verdict.

`BackendProofs`: types, `VerifyExitTruthful` for any codes, arguments and faulty
backends, by `TallyOK`, that the totals so far are those of the drivers verified
so far.
`BenchSamplesSuffice` counts. A sample has k - u of the data and the parities
that `bench` adds to them (`SampleSizes`). For Reed-Solomon these are k
together. For an XOR code they are all but u fragments, few enough if u is less
than the distance, and with `Makeable` at least k. For the LRC, of the
u + l - 1 parities those that are local and mend nothing are at most l - 1, as
some group has lost data, so that at least u are of use (`LrcSampleSuffices`).

`PackWheelProofs`: for any set of extensions and platforms and any failures,
types, `WheelComplete` and `TempLeftOnlyIfInterrupted`. `WInv` says what is in
the tree before each step (`Before`), that a reference to a library is renamed
in the step that moves it (`Linked`), which wheel the later steps hold, and why
a directory may be there (`Excused`).

`ProgramsProofs`: the list that `get_viable_schemes` returns is flattened from
one of lists, by a recursive function of the community modules, so
`FlattenedElements` says by induction what is in it. `ViableSchemes` lists its
elements as a set, `LeastK` says that the least k, however the product of the
floats comes out, has the rate and leaves out no k with a better one, and
`SchemesAreViable` follows. `ToolTypes` is that the script always tries the
last ones of the list. The composition keeps `ProgramsInv`: each program is off
or keeps its own invariant, and one that is off takes no step (`OffStaysOff`).
From it follow `ProgramsAreTyped` and `ProgramsKeepTheirPromises`, the
invariants of the run `programs` for the specification it checks.

So all invariants of the passing runs are theorems, with the hypotheses named
(`GilHeld`, `DescriptorsLeft`, destroys that are not refused) where they need
them. Only model-checked are the liveness properties `CallsReturn`,
`ClosedIsReclaimed` and `RedirectionEnds`, which are about fairness, out of the
prover's reach. The runs that end in a violation are counterexamples and have
nothing to prove.

## Not modelled

- Allocation failures in the C extension: each is a jump to a label of one
  call; a model would restate the code line by line. The hazard list names the
  lines where the jump forgets something or, for validation (240-242), undoes
  what was not done.
- Segment sizes of 0 (a division by zero, then a conversion that is undefined)
  and below.
- The formatted dictionary of `get_metadata`, the texts of exceptions, what
  `Py_BuildValue` makes of bytes outside the payload; which fragments `fragments_needed` picks.
- What `pyeclib-backend` prints, `argparse`'s own errors, its timings.
- `pyeclib_encode.py`, `pyeclib_decode.py`, `pyeclib_fragments_needed.py`: one
  call between reading and writing files. `setup.py`, `doc/`, the playbooks.
- liberasurecode itself, but for what the external definitions say of it.
