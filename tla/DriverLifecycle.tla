-------------------------- MODULE DriverLifecycle --------------------------
(***************************************************************************)
(* The life of an ECPyECLibDriver, its capsule and its liberasurecode      *)
(* instance while several Python threads share the driver.                 *)
(*                                                                         *)
(* A driver holds a PyCapsule in its _handle attribute, the capsule points *)
(* to a pyeclib_t that pyeclib_c_init allocates, and the pyeclib_t names a *)
(* liberasurecode instance by descriptor.  close() destroys the instance   *)
(* and drops the capsule from the attribute; the capsule's destructor      *)
(* frees the pyeclib_t when the last reference to it goes, be it the       *)
(* attribute or the frame of a call under way in another thread.           *)
(*                                                                         *)
(* A step is a read or a write of the attribute, or one call into          *)
(* liberasurecode with the C code up to the next one.  With the GIL the    *)
(* steps of one C function run together, except where an error path runs   *)
(* Python code; without it they interleave freely.                         *)
(***************************************************************************)
EXTENDS Naturals, FiniteSets

CONSTANTS
  Threads,       \* Python threads
  Drivers,       \* ECPyECLibDriver objects the program will construct
  Descs,         \* descriptors liberasurecode hands out, none of them twice
  MaxIndexes,    \* bound on the list given to reconstruct()
  LibVersions,   \* versions of liberasurecode the process may run with
  FreeThreaded,  \* the interpreter was built with Py_GIL_DISABLED
  LockMayFail,   \* liberasurecode's rwlock may refuse a destroy
  NoDesc         \* the ec_desc of a driver that is not constructed yet

ASSUME BoundsAssumption ==
  /\ MaxIndexes \in Nat
  /\ LibVersions \subseteq Nat
  /\ FreeThreaded \in BOOLEAN
  /\ LockMayFail \in BOOLEAN

ASSUME NoDescAssumption == NoDesc \notin Descs

VARIABLES
  version,  \* what liberasurecode_get_version() returns in this process
  handle,   \* [Drivers -> ...] the _handle attribute, or whether there is one
  desc,     \* [Drivers -> ...] the ec_desc field of the driver's pyeclib_t
  mem,      \* [Drivers -> ...] that pyeclib_t
  active,   \* descriptors in liberasurecode's registry
  issued,   \* descriptors liberasurecode has handed out so far
  closing,  \* [Drivers -> BOOLEAN] a close() went past its check (history)
  leaked,   \* <<driver, operation>> whose result buffer nobody can free now
  pc,       \* [Threads -> ...] the step the thread takes next
  drv,      \* [Threads -> Drivers] the driver of its current or last call
  op,       \* [Threads -> Operations] that call
  ref,      \* [Threads -> ...] what its frame holds of the handle
  left,     \* [Threads -> Nat] indexes reconstruct() has still to pop
  out       \* [Threads -> ...] the outcome of its current or last call

shared == <<version, handle, desc, mem, active, issued, closing, leaked>>
vars   == <<version, handle, desc, mem, active, issued, closing, leaked,
            pc, drv, op, ref, left, out>>

Calls      == {"encode", "decode", "reconstruct", "fragments_needed",
               "get_metadata", "check_metadata", "get_segment_info"}
Operations == Calls \cup {"close"}

\* "closed" is ECBackendInstanceNotAvailable, "invalid" ECInvalidParameter and
\* "driver_error" ECDriverError on account of the handle; "failed" is an error
\* on account of the arguments; "garbage" is a result built from an error code.
Refusals == {"closed", "invalid", "driver_error"}
Outcomes == Refusals \cup {"none", "ok", "failed", "garbage"}

-----------------------------------------------------------------------------
(* Who may run, and what becomes of the capsule.                           *)

\* Instances are destroyed from 1.6.5 on; a free-threaded interpreter does
\* without the GIL from 1.8.0 on.
SafeDestroy == version >= 67077                   \* 0x010605
GilDisabledTooEarly == FreeThreaded /\ version >= 67329    \* mutant: >= for >
GilDisabled == FreeThreaded /\ version > 67329    \* 0x010701

\* Mutant: the release of the buffers gives up the GIL.
InCExceptCleanup(t) == pc[t] \in {"size", "last"}

\* In the middle of a C function that does not run Python code here.
InC(t) == pc[t] \in {"cleanup", "size", "last"}

CanRun(t) == GilDisabled \/ \A u \in Threads \ {t} : ~InC(u)

\* liberasurecode_instance_destroy: the registries it may leave behind.
InstanceDestroy(A, n) ==
  {A \ {n}} \cup (IF LockMayFail THEN {A} ELSE {})

\* Mutant: _destroy() without the version gate.
DestroyUngated(A, n) == InstanceDestroy(A, n)

\* _destroy(): the version gate around it.
DestroyOutcomes(A, n) == IF SafeDestroy THEN InstanceDestroy(A, n) ELSE {A}

Holders(d) == {t \in Threads : drv[t] = d /\ ref[t] = "capsule"}

\* Mutant: the destructor gives up when the instance is gone already.
UnreferenceIfLive(d, rest, attr, A) ==
  IF attr = "capsule" \/ rest # {} \/ mem[d] # "allocated" \/ desc[d] \notin A
    THEN mem' = mem /\ active' = A
    ELSE /\ mem' = [mem EXCEPT ![d] = "freed"]
         /\ active' \in DestroyOutcomes(A, desc[d])

\* Mutant: the destructor frees and does not destroy.
UnreferenceFreeOnly(d, rest, attr, A) ==
  /\ active' = A
  /\ mem' = IF attr = "capsule" \/ rest # {} \/ mem[d] # "allocated"
              THEN mem ELSE [mem EXCEPT ![d] = "freed"]

\* A reference to the capsule of d goes; `rest' are the frames that still hold
\* it, attr is what the attribute holds now and A the registry so far.  With no
\* reference left the destructor runs: it destroys the instance (once more),
\* ignores how that went, and frees the pyeclib_t.
Unreference(d, rest, attr, A) ==
  IF attr = "capsule" \/ rest # {} \/ mem[d] # "allocated"
    THEN mem' = mem /\ active' = A
    ELSE /\ mem' = [mem EXCEPT ![d] = "freed"]
         /\ active' \in DestroyOutcomes(A, desc[d])

\* The frame of t ends its call with outcome r and lets go of the handle.
Return(t, r, attr, A) ==
  /\ pc'   = [pc   EXCEPT ![t] = "idle"]
  /\ ref'  = [ref  EXCEPT ![t] = "unset"]
  /\ left' = [left EXCEPT ![t] = 0]
  /\ out'  = [out  EXCEPT ![t] = r]
  /\ Unreference(drv[t], Holders(drv[t]) \ {t}, attr, A)
  /\ UNCHANGED <<version, drv, op>>

\* Most calls end without touching the attribute or the registry.
Finish(t, r) ==
  /\ Return(t, r, handle[drv[t]], active)
  /\ UNCHANGED <<handle, desc, issued, closing>>

\* t goes on to another step of its call and changes nothing else.
GoTo(t, step) ==
  /\ pc' = [pc EXCEPT ![t] = step]
  /\ UNCHANGED <<shared, drv, op, ref, left, out>>

At(t, step) == pc[t] = step /\ CanRun(t)

\* t is about to enter the C function of o with a capsule.
Calling(t, o) == At(t, "call") /\ op[t] = o /\ ref[t] = "capsule"

\* liberasurecode finds the instance of the driver t is calling.
Live(t) == desc[drv[t]] \in active

-----------------------------------------------------------------------------
Init ==
  /\ version \in LibVersions
  /\ handle  = [d \in Drivers |-> "unborn"]
  /\ desc    = [d \in Drivers |-> NoDesc]
  /\ mem     = [d \in Drivers |-> "none"]
  /\ active  = {}
  /\ issued  = {}
  /\ closing = [d \in Drivers |-> FALSE]
  /\ leaked  = {}
  /\ pc      = [t \in Threads |-> "idle"]
  /\ drv     \in [Threads -> Drivers]   \* no call yet: any driver stands there
  /\ op      = [t \in Threads |-> "close"]
  /\ ref     = [t \in Threads |-> "unset"]
  /\ left    = [t \in Threads |-> 0]
  /\ out     = [t \in Threads |-> "none"]

(***************************************************************************)
(* Constructing and dropping a driver.                                     *)
(***************************************************************************)

\* Mutant: the library hands out the descriptor of a destroyed instance again.
CreateReusing(t, d) ==
  /\ At(t, "idle")
  /\ handle[d] = "unborn"
  /\ \E n \in Descs \ active :
       /\ desc'   = [desc EXCEPT ![d] = n]
       /\ active' = active \cup {n}
       /\ issued' = issued \cup {n}
  /\ mem'    = [mem EXCEPT ![d] = "allocated"]
  /\ handle' = [handle EXCEPT ![d] = "capsule"]
  /\ UNCHANGED <<version, closing, leaked, pc, drv, op, ref, left, out>>

\* ECPyECLibDriver(...): pyeclib_c_init allocates the pyeclib_t, creates the
\* instance and wraps both.  (A failed init leaves nothing of this state.)
Create(t, d) ==
  /\ At(t, "idle")
  /\ handle[d] = "unborn"
  /\ \E n \in Descs \ issued :
       /\ desc'   = [desc EXCEPT ![d] = n]
       /\ active' = active \cup {n}
       /\ issued' = issued \cup {n}
  /\ mem'    = [mem EXCEPT ![d] = "allocated"]
  /\ handle' = [handle EXCEPT ![d] = "capsule"]
  /\ UNCHANGED <<version, closing, leaked, pc, drv, op, ref, left, out>>

\* The program drops its last reference to the driver object, in thread t; a
\* call under way holds one (self), so there is none.
Drop(t, d) ==
  /\ At(t, "idle")
  /\ handle[d] \in {"capsule", "None"}
  /\ \A u \in Threads : drv[u] = d => pc[u] = "idle"
  /\ handle' = [handle EXCEPT ![d] = "dropped"]
  /\ Unreference(d, {}, "dropped", active)
  /\ UNCHANGED <<version, desc, issued, closing, leaked, pc, drv, op, ref, left, out>>

(***************************************************************************)
(* The Python side of a call.                                              *)
(***************************************************************************)

\* t calls method o of driver d; n is the length of reconstruct()'s list.  (The
\* fragments decode() and reconstruct() refuse in Python, before they ask for
\* the handle, change nothing here.)
Begin(t, d, o, n) ==
  /\ At(t, "idle")
  /\ handle[d] \in {"capsule", "None"}
  /\ o = "reconstruct" \/ n = 0
  /\ pc'   = [pc   EXCEPT ![t] = IF o = "close" THEN "close_check" ELSE "check"]
  /\ drv'  = [drv  EXCEPT ![t] = d]
  /\ op'   = [op   EXCEPT ![t] = o]
  /\ left' = [left EXCEPT ![t] = n]
  /\ out'  = [out  EXCEPT ![t] = "none"]
  /\ UNCHANGED <<shared, ref>>

\* reconstruct()'s loop ends, or has nothing to do at all.
ReconstructDone(t) ==
  /\ At(t, "check") /\ op[t] = "reconstruct" /\ left[t] = 0
  /\ Finish(t, "ok") /\ UNCHANGED leaked

\* Mutant: reconstruct() goes round its loop once too often.
HandleCheckOnceMore(t) ==
  /\ At(t, "check")
  /\ \/ /\ handle[drv[t]] = "None"
        /\ Finish(t, "closed") /\ UNCHANGED leaked
     \/ /\ handle[drv[t]] # "None"
        /\ GoTo(t, "load")

\* The handle property looks at the attribute ...
HandleCheck(t) ==
  /\ At(t, "check") /\ (op[t] = "reconstruct" => left[t] > 0)
  /\ \/ /\ handle[drv[t]] = "None"
        /\ Finish(t, "closed") /\ UNCHANGED leaked
     \/ /\ handle[drv[t]] # "None"
        /\ GoTo(t, "load")

\* ... and reads it again to return it.
HandleLoad(t) ==
  /\ At(t, "load")
  /\ ref' = [ref EXCEPT ![t] = handle[drv[t]]]
  /\ pc'  = [pc EXCEPT ![t] = "call"]
  /\ UNCHANGED <<shared, drv, op, left, out>>

(***************************************************************************)
(* The C functions, one action per call into liberasurecode.               *)
(***************************************************************************)

\* PyCapsule_GetPointer(None) fails in every one of them.
NoCapsule(t) ==
  /\ At(t, "call") /\ ref[t] = "None"
  /\ Finish(t, "invalid") /\ UNCHANGED leaked

\* Each of them may fail on its arguments, before liberasurecode is called or
\* because it refuses them.
Fail(t) ==
  /\ At(t, "call") /\ ref[t] = "capsule" /\ op[t] \in Calls
  /\ Finish(t, "failed") /\ UNCHANGED leaked

Encode(t) ==
  /\ Calling(t, "encode")
  /\ \/ Live(t)  /\ GoTo(t, "cleanup")
     \/ ~Live(t) /\ Finish(t, "closed") /\ UNCHANGED leaked

\* A payload or list of ranges on success; a range outside the data raises,
\* which runs the exception's __init__, before the payload is released.
Decode(t) ==
  /\ Calling(t, "decode")
  /\ \/ Live(t)  /\ (GoTo(t, "cleanup") \/ GoTo(t, "seterr"))
     \/ ~Live(t) /\ Finish(t, "closed") /\ UNCHANGED leaked

\* Mutant: the error path of decode() leaves without releasing the payload.
CleanupSkipped(t) ==
  \E step \in {"cleanup", "seterr"} :
    /\ At(t, step)
    /\ Finish(t, IF step = "seterr" THEN "failed" ELSE "ok")
    /\ leaked' = IF Live(t) /\ step = "cleanup"
                   THEN leaked ELSE leaked \cup {<<drv[t], op[t]>>}

\* liberasurecode_encode_cleanup and liberasurecode_decode_cleanup free the
\* buffers of a live instance only.
Cleanup(t) ==
  \E step \in {"cleanup", "seterr"} :
    /\ At(t, step)
    /\ Finish(t, IF step = "seterr" THEN "failed" ELSE "ok")
    /\ leaked' = IF Live(t) THEN leaked ELSE leaked \cup {<<drv[t], op[t]>>}

\* Mutant: reconstruct() looks at the next index and does not pop it.
ReconstructWithoutPop(t) ==
  /\ Calling(t, "reconstruct")
  /\ \/ Live(t)  /\ GoTo(t, "check")
     \/ ~Live(t) /\ Finish(t, "closed") /\ UNCHANGED leaked

\* reconstruct() appends the fragment and goes round its loop.
Reconstruct(t) ==
  /\ Calling(t, "reconstruct")
  /\ \/ /\ Live(t)
        /\ pc'   = [pc   EXCEPT ![t] = "check"]
        /\ ref'  = [ref  EXCEPT ![t] = "unset"]
        /\ left' = [left EXCEPT ![t] = @ - 1]
        /\ Unreference(drv[t], Holders(drv[t]) \ {t}, handle[drv[t]], active)
        /\ UNCHANGED <<version, handle, desc, issued, closing, drv, op, out>>
     \/ ~Live(t) /\ Finish(t, "closed")
  /\ UNCHANGED leaked

\* check_metadata() and get_required_fragments() call liberasurecode once.
CheckMetadata(t) ==
  /\ Calling(t, "check_metadata")
  /\ Finish(t, IF Live(t) THEN "ok" ELSE "closed") /\ UNCHANGED leaked

FragmentsNeeded(t) ==
  /\ Calling(t, "fragments_needed")
  /\ Finish(t, IF Live(t) THEN "ok" ELSE "closed") /\ UNCHANGED leaked

\* get_metadata() reads the fragment and never looks at the instance.
GetMetadata(t) ==
  /\ Calling(t, "get_metadata")
  /\ Finish(t, "ok") /\ UNCHANGED leaked

\* get_segment_info(): the minimum segment size, ...
GetSegmentInfo(t) ==
  /\ Calling(t, "get_segment_info")
  /\ \/ Live(t)  /\ GoTo(t, "size")
     \/ ~Live(t) /\ Finish(t, "invalid") /\ UNCHANGED leaked

\* ... the fragment size, which is also the last one if there is one segment, ...
FragmentSize(t) ==
  /\ At(t, "size")
  /\ \/ Live(t)  /\ GoTo(t, "last")
     \/ /\ Finish(t, IF Live(t) THEN "ok" ELSE "invalid")
        /\ UNCHANGED leaked

\* ... and the last fragment size, after which fragment_size is tested again
\* and a failure goes unnoticed into the result.
LastFragmentSize(t) ==
  /\ At(t, "last")
  /\ Finish(t, IF Live(t) THEN "ok" ELSE "garbage") /\ UNCHANGED leaked

(***************************************************************************)
(* close().                                                                *)
(***************************************************************************)

CloseCheck(t) ==
  /\ At(t, "close_check")
  /\ LET open == handle[drv[t]] # "None" IN
       /\ pc' = [pc EXCEPT ![t] = IF open THEN "close_load" ELSE "close_store"]
       /\ closing' = [closing EXCEPT ![drv[t]] = @ \/ open]
  /\ UNCHANGED <<version, handle, desc, mem, active, issued, leaked,
                 drv, op, ref, left, out>>

CloseLoad(t) ==
  /\ At(t, "close_load")
  /\ ref' = [ref EXCEPT ![t] = handle[drv[t]]]
  /\ pc'  = [pc EXCEPT ![t] = "destroy"]
  /\ UNCHANGED <<shared, drv, op, left, out>>

\* pyeclib_c_destroy refuses what is not a capsule, ...
DestroyNoCapsule(t) ==
  /\ At(t, "destroy") /\ ref[t] = "None"
  /\ Finish(t, "driver_error") /\ UNCHANGED leaked

\* ... raises when liberasurecode does not know the descriptor, ...
DestroyUnknown(t) ==
  /\ At(t, "destroy") /\ ref[t] = "capsule"
  /\ SafeDestroy /\ ~Live(t)
  /\ Finish(t, "closed") /\ UNCHANGED leaked

\* Mutant: close() ignores that the instance could not be destroyed.
DestroyRefusalIgnored(t) ==
  /\ At(t, "destroy") /\ ref[t] = "capsule"
  /\ SafeDestroy /\ LockMayFail /\ Live(t)
  /\ GoTo(t, "close_store")

\* ... raises when it could not take its lock, ...
DestroyRefused(t) ==
  /\ At(t, "destroy") /\ ref[t] = "capsule"
  /\ SafeDestroy /\ LockMayFail /\ Live(t)
  /\ Finish(t, "driver_error") /\ UNCHANGED leaked

\* Mutant: destroy() frees the pyeclib_t at once.
DestroyAndFree(t) ==
  /\ At(t, "destroy") /\ ref[t] = "capsule"
  /\ SafeDestroy => Live(t)
  /\ pc'  = [pc  EXCEPT ![t] = "close_store"]
  /\ ref' = [ref EXCEPT ![t] = "unset"]
  /\ mem' = [mem EXCEPT ![drv[t]] = "freed"]
  /\ active' = IF SafeDestroy THEN active \ {desc[drv[t]]} ELSE active
  /\ UNCHANGED <<version, handle, desc, issued, closing, leaked, drv, op,
                 left, out>>

\* ... and destroys the instance otherwise, or does nothing if the library is
\* too old.  The pyeclib_t stays: other frames may hold the capsule.
Destroy(t) ==
  /\ At(t, "destroy") /\ ref[t] = "capsule"
  /\ SafeDestroy => Live(t)
  /\ pc'  = [pc  EXCEPT ![t] = "close_store"]
  /\ ref' = [ref EXCEPT ![t] = "unset"]
  /\ Unreference(drv[t], Holders(drv[t]) \ {t}, handle[drv[t]],
                 IF SafeDestroy THEN active \ {desc[drv[t]]} ELSE active)
  /\ UNCHANGED <<version, handle, desc, issued, closing, leaked, drv, op,
                 left, out>>

\* self._handle = None, also when it was None already.
CloseStore(t) ==
  /\ At(t, "close_store")
  /\ handle' = [handle EXCEPT ![drv[t]] = "None"]
  /\ Return(t, "ok", "None", active)
  /\ UNCHANGED <<desc, issued, closing, leaked>>

-----------------------------------------------------------------------------
\* The step the thread takes next within its call.
Step(t) ==
  \/ ReconstructDone(t) \/ HandleCheck(t) \/ HandleLoad(t) \/ NoCapsule(t)
  \/ Fail(t)
  \/ Encode(t) \/ Decode(t) \/ Cleanup(t) \/ Reconstruct(t)
  \/ CheckMetadata(t) \/ FragmentsNeeded(t) \/ GetMetadata(t)
  \/ GetSegmentInfo(t) \/ FragmentSize(t) \/ LastFragmentSize(t)
  \/ CloseCheck(t) \/ CloseLoad(t)
  \/ DestroyNoCapsule(t) \/ DestroyUnknown(t) \/ DestroyRefused(t) \/ Destroy(t)
  \/ CloseStore(t)

\* The program has used up its drivers and may end.
Ended == (\A d \in Drivers : handle[d] = "dropped") /\ UNCHANGED vars

Next ==
  \/ \E t \in Threads :
       \/ Step(t)
       \/ \E d \in Drivers :
            \/ Create(t, d)
            \/ Drop(t, d)
            \/ \E o \in Operations, n \in 0..MaxIndexes : Begin(t, d, o, n)
  \/ Ended

Spec == Init /\ [][Next]_vars

\* Python and the operating system let every runnable thread run again and
\* again: the GIL forces a switch to a thread that waits for it.
Fairness == \A t \in Threads : SF_vars(Step(t))

FairSpec == Spec /\ Fairness

-----------------------------------------------------------------------------
(* Properties.                                                             *)

\* The state is well formed.
TypeOK ==
  /\ version \in LibVersions
  /\ handle  \in [Drivers -> {"unborn", "capsule", "None", "dropped"}]
  /\ desc    \in [Drivers -> Descs \cup {NoDesc}]
  /\ mem     \in [Drivers -> {"none", "allocated", "freed"}]
  /\ active  \subseteq Descs
  /\ issued  \subseteq Descs
  /\ closing \in [Drivers -> BOOLEAN]
  /\ leaked  \subseteq Drivers \X {"encode", "decode"}
  /\ pc   \in [Threads -> {"idle", "check", "load", "call", "cleanup", "seterr",
                           "size", "last", "close_check", "close_load",
                           "destroy", "close_store"}]
  /\ drv  \in [Threads -> Drivers]
  /\ op   \in [Threads -> Operations]
  /\ ref  \in [Threads -> {"unset", "capsule", "None"}]
  /\ left \in [Threads -> 0..MaxIndexes]
  /\ out  \in [Threads -> Outcomes]

\* A call that holds the capsule reads a pyeclib_t that is still allocated,
\* however many threads close and drop the driver meanwhile: destroy() leaves
\* the memory to the destructor (pyeclib_c.c:289-355).
NoUseAfterFree ==
  \A t \in Threads : ref[t] = "capsule" => mem[drv[t]] = "allocated"

\* A call fails on account of its handle only after a close() of that very
\* driver: destroying one driver leaves the others usable
\* (test_pyeclib_c.py:573-593), in every interleaving.
RefusedOnlyAfterClose ==
  \A t \in Threads : out[t] \in Refusals => closing[drv[t]]

\* A driver whose handle is None has no instance left in the library: close()
\* gives up the only name it has for the instance after it was destroyed, and
\* keeps it when destroying failed (core.py:86-89).
NoneMeansDestroyed ==
  SafeDestroy => \A d \in Drivers : handle[d] = "None" => desc[d] \notin active

\* The instance goes before or with the pyeclib_t that names it, so that
\* making many drivers does not leak instances (pyeclib_c.c:317-321,
\* ChangeLog 1.6.2).
InstanceReclaimed ==
  SafeDestroy => \A d \in Drivers : mem[d] = "freed" => desc[d] \notin active

\* The pyeclib_t goes as soon as nothing can reach it: neither the attribute
\* nor the frame of a call.
NothingUnreachable ==
  \A d \in Drivers :
    mem[d] = "allocated" => handle[d] = "capsule" \/ Holders(d) # {}

\* A result buffer is lost only when the driver was closed between the call
\* into liberasurecode and the release of the buffer.
LeakedOnlyByClose == \A x \in leaked : closing[x[1]]

\* With the GIL, encode() releases its buffers whatever happens: only the
\* error path of a bad range lets another thread in before the release.
EncodeNeverLeaks == \A x \in leaked : x[2] # "encode"

\* get_segment_info() never builds its result from an error code
\* (ChangeLog 1.3.0, "Properly return an error code if liberasurecode returns
\* an invalid fragment size").
SegmentInfoSound == \A t \in Threads : out[t] # "garbage"

\* Whatever call meets a closed driver raises ECBackendInstanceNotAvailable
\* (core.py:93-96; test_use_after_close, test_pyeclib_api.py:386-409).
ClosedIsTheOnlyRefusal ==
  \A t \in Threads : out[t] \notin Refusals \ {"closed"}

\* With a library before 1.6.5 no instance is ever destroyed: its registry
\* could not bear it (pyeclib_c.c:310-316, ChangeLog 1.6.3).
OldLibraryKeepsInstances == [][~SafeDestroy => active \subseteq active']_vars

\* Every call returns: no lock of this layer, and no loop of it, keeps a thread.
CallsReturn == \A t \in Threads : pc[t] # "idle" ~> pc[t] = "idle"

\* A driver that was closed gives its memory and its instance back, after the
\* calls that still use them.
ClosedIsReclaimed ==
  \A d \in Drivers :
    handle[d] = "None" ~> (mem[d] = "freed" /\ desc[d] \notin active)

-----------------------------------------------------------------------------
(* The inductive invariant behind the safety properties above.              *)

\* A constructed driver has memory and a descriptor of its own.
DriversOK ==
  \A d \in Drivers :
    /\ handle[d] = "unborn" => mem[d] = "none" /\ desc[d] = NoDesc /\ ~closing[d]
    /\ handle[d] # "unborn" => mem[d] # "none" /\ desc[d] \in issued
    /\ handle[d] = "capsule" => mem[d] = "allocated"
    /\ handle[d] = "None" => closing[d]
    /\ handle[d] = "capsule" /\ ~closing[d] => desc[d] \in active
    /\ \A e \in Drivers \ {d} : desc[d] = desc[e] => handle[d] = "unborn"

\* Where a thread is tells what it holds and what was asked of its driver.
ThreadsOK ==
  \A t \in Threads :
    /\ pc[t] # "idle" => handle[drv[t]] \in {"capsule", "None"}
    /\ pc[t] \notin {"call", "cleanup", "seterr", "size", "last", "destroy"} =>
         ref[t] = "unset"
    /\ pc[t] \in {"close_load", "destroy", "close_store"} => closing[drv[t]]
    /\ pc[t] \in {"cleanup", "seterr"} => op[t] \in {"encode", "decode"}
    /\ pc[t] \in {"load", "call"} /\ op[t] = "reconstruct" => left[t] > 0
    /\ ref[t] = "None" => closing[drv[t]]
    /\ SafeDestroy /\ pc[t] = "close_store" => desc[drv[t]] \notin active

IInv ==
  /\ TypeOK
  /\ active \subseteq issued
  /\ DriversOK
  /\ ThreadsOK
  /\ NoUseAfterFree
  /\ RefusedOnlyAfterClose
  /\ NoneMeansDestroyed
  /\ LeakedOnlyByClose
  /\ ~LockMayFail => InstanceReclaimed

-----------------------------------------------------------------------------
\* The refinement of InstanceLifecycle, for a library that destroys instances.
Phase(d) ==
  IF mem[d] # "allocated"
    THEN IF mem[d] = "none" THEN "unborn" ELSE "freed"
    ELSE IF desc[d] \in active THEN "live" ELSE "destroyed"

Lifecycle == INSTANCE InstanceLifecycle
               WITH phase <- [d \in Drivers |-> Phase(d)], closed <- closing

\* Every driver's instance and memory live and go as InstanceLifecycle says.
LifecycleSpec == Lifecycle!Spec
=============================================================================
