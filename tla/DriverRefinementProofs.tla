----------------------- MODULE DriverRefinementProofs -----------------------
(***************************************************************************)
(* That DriverLifecycle implements InstanceLifecycle, and what else is     *)
(* true of it beyond IInv: memory is given back as soon as nothing reaches *)
(* it, an old library keeps its instances, and what the GIL is good for.   *)
(*                                                                         *)
(* All of this looks at few kinds of steps: one lets go of a capsule       *)
(* (Release), the others leave drivers alone, or are CloseCheck, Create or *)
(* Drop.                                                                   *)
(***************************************************************************)
EXTENDS DriverLifecycleProofs

\* t lets go of the capsule of its driver, and has destroyed the instance
\* before if A says so.
Release(t) ==
  /\ pc[t] # "idle"
  /\ UNCHANGED <<version, desc, closing, drv>>
  /\ ref' = [ref EXCEPT ![t] = "unset"]
  /\ \/ handle' = handle
     \/ handle' = [handle EXCEPT ![drv[t]] = "None"]
  /\ \E A \in {active, active \ {desc[drv[t]]}} :
       /\ A # active => pc[t] = "destroy" /\ SafeDestroy
       /\ Unreference(drv[t], Holders(drv[t]) \ {t}, handle'[drv[t]], A)

\* t loads a capsule or goes on without one.
Keep(t) ==
  /\ UNCHANGED <<version, handle, desc, mem, active, closing, drv>>
  /\ \A u \in Threads : ref[u] = "capsule" => ref'[u] = "capsule"

LEMMA FinishReleases ==
  ASSUME NEW t, NEW r, pc[t] # "idle", Finish(t, r)
  PROVE  Release(t)
BY DEF Finish, Return, Release

\* What a step of a call does to drivers.
LEMMA StepKinds ==
  ASSUME IInv, NEW t \in Threads, Step(t)
  PROVE  Release(t) \/ Keep(t) \/ CloseCheck(t)
<1>1. \A r : pc[t] # "idle" /\ Finish(t, r) => Release(t)
  BY FinishReleases
<1>2. \A step : GoTo(t, step) => Keep(t)
  BY DEF GoTo, shared, Keep
<1>3. CASE HandleLoad(t) \/ CloseLoad(t)
  BY <1>3 DEF HandleLoad, CloseLoad, shared, At, Keep, IInv, TypeOK, ThreadsOK
<1>4. CASE Reconstruct(t)
  <2>1. CASE Live(t)
    BY <1>4, <2>1 DEF Reconstruct, Calling, At, Release
  <2> QED BY <1>1, <1>4, <2>1 DEF Reconstruct, Calling, At
<1>5. CASE Destroy(t)
  <2>1. /\ pc[t] = "destroy"
        /\ ref' = [ref EXCEPT ![t] = "unset"]
        /\ UNCHANGED <<version, handle, desc, closing, drv>>
        /\ Unreference(drv[t], Holders(drv[t]) \ {t}, handle[drv[t]],
                 IF SafeDestroy THEN active \ {desc[drv[t]]} ELSE active)
    BY <1>5 DEF Destroy, At
  <2>2. CASE SafeDestroy
    BY <2>1, <2>2 DEF Release
  <2>3. CASE ~SafeDestroy
    BY <2>1, <2>3 DEF Release
  <2> QED BY <2>2, <2>3
<1>6. CASE CloseStore(t)
  <2>1. handle'[drv[t]] = "None"
    BY <1>6 DEF CloseStore, IInv, TypeOK
  <2> QED BY <1>6, <2>1 DEF CloseStore, Return, At, Release
<1>7. CASE CloseCheck(t)
  BY <1>7
<1>8. CASE \/ ReconstructDone(t) \/ NoCapsule(t) \/ Fail(t)
           \/ CheckMetadata(t) \/ FragmentsNeeded(t) \/ GetMetadata(t)
           \/ LastFragmentSize(t)
           \/ DestroyNoCapsule(t) \/ DestroyUnknown(t) \/ DestroyRefused(t)
  BY <1>1, <1>8 DEF ReconstructDone, NoCapsule, Fail, CheckMetadata,
     FragmentsNeeded, GetMetadata, LastFragmentSize, DestroyNoCapsule,
     DestroyUnknown, DestroyRefused, Calling, At
<1>9. CASE HandleCheck(t) \/ Encode(t) \/ Decode(t) \/ GetSegmentInfo(t) \/ FragmentSize(t)
  BY <1>1, <1>2, <1>9 DEF HandleCheck, Encode, Decode, GetSegmentInfo, FragmentSize,
     Calling, At
<1>10. CASE Cleanup(t)
  BY <1>1, <1>10 DEF Cleanup, At
<1> QED BY <1>3, <1>4, <1>5, <1>6, <1>7, <1>8, <1>9, <1>10 DEF Step

\* And any step of the program.
LEMMA NextKinds ==
  ASSUME Next
  PROVE  \/ UNCHANGED vars
         \/ \E t \in Threads :
              \/ Step(t)
              \/ \E d \in Drivers :
                   \/ Create(t, d)
                   \/ Drop(t, d)
                   \/ \E o \in Operations, n \in 0..MaxIndexes : Begin(t, d, o, n)
BY DEF Next, Ended

-----------------------------------------------------------------------------
(* The refinement.                                                         *)

Phases == [d \in Drivers |-> Phase(d)]

RefinedStep == [Lifecycle!Next]_<<Phases, closing>>

\* Only d changes its phase if the registry changes by d's descriptor only.
LEMMA OtherPhases ==
  ASSUME IInv, NEW d \in Drivers, handle[d] # "unborn",
         UNCHANGED desc,
         \A e \in Drivers \ {d} : mem'[e] = mem[e],
         active' \cup {desc[d]} = active \cup {desc[d]}
  PROVE  \A e \in Drivers \ {d} : Phase(e)' = Phase(e)
<1> SUFFICES ASSUME NEW e \in Drivers \ {d} PROVE Phase(e)' = Phase(e)
  OBVIOUS
<1>1. CASE handle[e] = "unborn"
  BY <1>1 DEF IInv, DriversOK, Phase
<1>2. CASE handle[e] # "unborn"
  <2>1. desc[e] # desc[d]
    BY <1>2 DEF IInv, DriversOK
  <2> QED BY <2>1 DEF Phase
<1> QED BY <1>1, <1>2

LEMMA ReleaseRefines ==
  ASSUME IInv, SafeDestroy, ~LockMayFail,
         NEW d \in Drivers, handle[d] \in {"capsule", "None"},
         NEW A \in {active, active \ {desc[d]}}, A # active => closing[d],
         NEW rest, NEW attr, Unreference(d, rest, attr, A),
         UNCHANGED <<desc, closing>>
  PROVE  RefinedStep
<1>1. mem \in [Drivers -> {"none", "allocated", "freed"}] /\ mem[d] # "none"
  BY DEF IInv, TypeOK, DriversOK
<1>2. \/ mem' = mem /\ active' = A
      \/ /\ mem[d] = "allocated"
         /\ mem' = [mem EXCEPT ![d] = "freed"]
         /\ active' = active \ {desc[d]}
  BY DEF Unreference, DestroyOutcomes, InstanceDestroy
<1>3. \A e \in Drivers \ {d} : Phase(e)' = Phase(e)
  <2>1. \A e \in Drivers \ {d} : mem'[e] = mem[e]
    BY <1>1, <1>2
  <2>2. active' \cup {desc[d]} = active \cup {desc[d]}
    BY <1>2
  <2> QED BY <2>1, <2>2, OtherPhases
<1>4. CASE mem' = mem /\ active' = active
  <2>1. Phases' = Phases
    BY <1>4 DEF Phases, Phase
  <2> QED BY <2>1 DEF RefinedStep
<1>5. CASE mem' = mem /\ active' = A /\ A # active
  <2>1. CASE mem[d] = "freed"
    <3>1. Phase(d)' = Phase(d)
      BY <1>5, <2>1 DEF Phase
    <3>2. Phases' = Phases
      BY <1>3, <3>1 DEF Phases
    <3> QED BY <3>2 DEF RefinedStep
  <2>2. CASE mem[d] = "allocated"
    <3>1. Phase(d) = "live" /\ Phase(d)' = "destroyed"
      BY <1>5, <2>2 DEF Phase
    <3>2. Phases[d] = "live" /\ Phases' = [Phases EXCEPT ![d] = "destroyed"]
      BY <1>3, <3>1 DEF Phases
    <3>3. Lifecycle!Destroy(d)
      BY <1>5, <3>2 DEF Lifecycle!Destroy, Phases
    <3> QED BY <3>3 DEF RefinedStep, Lifecycle!Next
  <2> QED BY <1>1, <2>1, <2>2
<1>6. CASE /\ mem[d] = "allocated"
           /\ mem' = [mem EXCEPT ![d] = "freed"]
           /\ active' = active \ {desc[d]}
  <2>1. Phase(d) \in {"live", "destroyed"} /\ Phase(d)' = "freed"
    BY <1>1, <1>6 DEF Phase
  <2>2. Phases[d] \in {"live", "destroyed"} /\ Phases' = [Phases EXCEPT ![d] = "freed"]
    BY <1>3, <2>1 DEF Phases
  <2>3. Lifecycle!Free(d) \/ Lifecycle!Collect(d)
    BY <2>2 DEF Lifecycle!Free, Lifecycle!Collect, Phases
  <2> QED BY <2>3 DEF RefinedStep, Lifecycle!Next
<1> QED BY <1>2, <1>4, <1>5, <1>6

LEMMA CreateRefines ==
  ASSUME IInv, NEW t \in Threads, NEW d \in Drivers, Create(t, d)
  PROVE  RefinedStep
<1>1. PICK n \in Descs \ issued :
        /\ desc'   = [desc EXCEPT ![d] = n]
        /\ active' = active \cup {n}
  BY DEF Create
<1>2. /\ mem \in [Drivers -> {"none", "allocated", "freed"}]
      /\ desc \in [Drivers -> Descs \cup {NoDesc}]
      /\ mem[d] = "none"
      /\ mem' = [mem EXCEPT ![d] = "allocated"]
      /\ UNCHANGED closing
  BY DEF IInv, TypeOK, DriversOK, Create
<1>3. Phase(d) = "unborn" /\ Phase(d)' = "live"
  BY <1>1, <1>2 DEF Phase
<1>4. ASSUME NEW e \in Drivers \ {d} PROVE Phase(e)' = Phase(e)
  <2>1. mem[e] = "none" \/ desc[e] \in issued
    BY DEF IInv, DriversOK
  <2> QED BY <1>1, <1>2, <2>1 DEF Phase
<1>5. Phases[d] = "unborn" /\ Phases' = [Phases EXCEPT ![d] = "live"]
  BY <1>3, <1>4 DEF Phases
<1>6. Lifecycle!Open(d)
  BY <1>2, <1>5 DEF Lifecycle!Open, Phases
<1> QED BY <1>6 DEF RefinedStep, Lifecycle!Next

LEMMA CloseCheckRefines ==
  ASSUME IInv, NEW t \in Threads, CloseCheck(t)
  PROVE  RefinedStep
<1>1. /\ pc[t] = "close_check" /\ drv[t] \in Drivers
      /\ closing \in [Drivers -> BOOLEAN]
      /\ UNCHANGED <<desc, mem, active>>
      /\ \/ closing' = closing
         \/ closing' = [closing EXCEPT ![drv[t]] = TRUE]
  BY DEF CloseCheck, At, IInv, TypeOK
<1>2. Phases' = Phases
  BY <1>1 DEF Phases, Phase
<1>3. Phases[drv[t]] # "unborn"
  BY <1>1 DEF IInv, ThreadsOK, DriversOK, Phases, Phase
<1>4. CASE closing' = closing
  BY <1>2, <1>4 DEF RefinedStep
<1>5. CASE closing' = [closing EXCEPT ![drv[t]] = TRUE]
  <2>1. Lifecycle!AskClose(drv[t])
    BY <1>2, <1>3, <1>5 DEF Lifecycle!AskClose, Phases
  <2> QED BY <1>1, <2>1 DEF RefinedStep, Lifecycle!Next
<1> QED BY <1>1, <1>4, <1>5

LEMMA StepRefines ==
  ASSUME IInv, SafeDestroy, ~LockMayFail, [Next]_vars
  PROVE  RefinedStep
<1>1. ASSUME UNCHANGED <<desc, mem, active, closing>> PROVE RefinedStep
  BY <1>1 DEF RefinedStep, Phases, Phase
<1>2. ASSUME NEW t \in Threads, Step(t) PROVE RefinedStep
  <2>1. CASE Release(t)
    <3>1. PICK A \in {active, active \ {desc[drv[t]]}} :
            /\ A # active => pc[t] = "destroy"
            /\ Unreference(drv[t], Holders(drv[t]) \ {t}, handle'[drv[t]], A)
      BY <2>1 DEF Release
    <3>2. /\ drv[t] \in Drivers /\ handle[drv[t]] \in {"capsule", "None"}
          /\ pc[t] = "destroy" => closing[drv[t]]
          /\ UNCHANGED <<desc, closing>>
      BY <2>1 DEF Release, IInv, TypeOK, ThreadsOK
    <3> QED BY <3>1, <3>2, ReleaseRefines
  <2>2. CASE Keep(t)
    BY <1>1, <2>2 DEF Keep
  <2> QED BY <1>2, <2>1, <2>2, StepKinds, CloseCheckRefines
<1>3. ASSUME NEW t \in Threads, NEW d \in Drivers, Drop(t, d) PROVE RefinedStep
  BY <1>3, ReleaseRefines DEF Drop
<1>4. ASSUME NEW t \in Threads, NEW d \in Drivers, NEW o \in Operations,
             NEW n \in 0..MaxIndexes, Begin(t, d, o, n)
      PROVE  RefinedStep
  BY <1>1, <1>4 DEF Begin, shared
<1>5. CASE UNCHANGED vars
  BY <1>1, <1>5 DEF vars
<1> QED BY <1>2, <1>3, <1>4, <1>5, NextKinds, CreateRefines

\* With a library that can destroy instances, and does when it is asked, every
\* driver's instance and memory live and go as InstanceLifecycle says.
THEOREM ImplementsLifecycle ==
  (\A v \in LibVersions : v >= 67077) /\ ~LockMayFail => (Spec => LifecycleSpec)
<1> SUFFICES ASSUME \A v \in LibVersions : v >= 67077, ~LockMayFail
             PROVE  Spec => LifecycleSpec
  OBVIOUS
<1>1. Init => Lifecycle!Init
  BY DEF Init, Lifecycle!Init, Phase
<1>2. IInv /\ [Next]_vars => [Lifecycle!Next]_<<[d \in Drivers |-> Phase(d)], closing>>
  <2>1. IInv => SafeDestroy
    BY DEF IInv, TypeOK, SafeDestroy
  <2> QED BY <2>1, StepRefines DEF RefinedStep, Phases
<1> QED BY <1>1, <1>2, Invariance, PTL DEF Spec, LifecycleSpec, Lifecycle!Spec

-----------------------------------------------------------------------------
(* Memory nobody can reach.                                                *)

LEMMA ReleaseReachable ==
  ASSUME IInv, NothingUnreachable, NEW t \in Threads, Release(t)
  PROVE  NothingUnreachable'
<1>1. /\ UNCHANGED <<desc, drv>> /\ drv[t] \in Drivers
      /\ ref' = [ref EXCEPT ![t] = "unset"]
      /\ \A e \in Drivers \ {drv[t]} : handle'[e] = handle[e]
  BY DEF Release, IInv, TypeOK
<1>2. PICK A : Unreference(drv[t], Holders(drv[t]) \ {t}, handle'[drv[t]], A)
  BY DEF Release
<1>3. Holders(drv[t])' = Holders(drv[t]) \ {t}
  BY <1>1 DEF Holders, IInv, TypeOK
<1>4. \A e \in Drivers \ {drv[t]} : mem'[e] = mem[e] /\ Holders(e)' = Holders(e)
  BY <1>1, <1>2 DEF Unreference, Holders, IInv, TypeOK
<1>5. mem'[drv[t]] = "allocated" => handle'[drv[t]] = "capsule" \/ Holders(drv[t])' # {}
  BY <1>1, <1>2, <1>3 DEF Unreference, IInv, TypeOK
<1> QED BY <1>1, <1>4, <1>5 DEF NothingUnreachable

LEMMA DropReachable ==
  ASSUME IInv, NothingUnreachable, NEW t \in Threads, NEW d \in Drivers, Drop(t, d)
  PROVE  NothingUnreachable'
<1>1. /\ handle' = [handle EXCEPT ![d] = "dropped"]
      /\ Unreference(d, {}, "dropped", active)
      /\ UNCHANGED <<drv, ref>>
  BY DEF Drop
<1>2. mem'[d] # "allocated"
  BY <1>1 DEF Unreference, IInv, TypeOK
<1>3. \A e \in Drivers \ {d} : mem'[e] = mem[e] /\ handle'[e] = handle[e]
  BY <1>1 DEF Unreference, IInv, TypeOK
<1>4. \A e \in Drivers : Holders(e)' = Holders(e)
  BY <1>1 DEF Holders
<1> QED BY <1>2, <1>3, <1>4 DEF NothingUnreachable

LEMMA StepReachable ==
  ASSUME IInv, NothingUnreachable, [Next]_vars
  PROVE  NothingUnreachable'
<1>1. ASSUME NEW t \in Threads, Keep(t) PROVE NothingUnreachable'
  <2>1. \A e \in Drivers : Holders(e) \subseteq Holders(e)'
    BY <1>1 DEF Keep, Holders
  <2> QED BY <1>1, <2>1 DEF Keep, NothingUnreachable
<1>2. ASSUME NEW t \in Threads, CloseCheck(t) PROVE NothingUnreachable'
  BY <1>2 DEF CloseCheck, NothingUnreachable, Holders
<1>3. ASSUME NEW t \in Threads, NEW d \in Drivers, Create(t, d)
      PROVE  NothingUnreachable'
  BY <1>3 DEF Create, NothingUnreachable, Holders, IInv, TypeOK
<1>4. ASSUME NEW t \in Threads, NEW d \in Drivers, NEW o \in Operations,
             NEW n \in 0..MaxIndexes, Begin(t, d, o, n)
      PROVE  NothingUnreachable'
  <2>1. /\ ref[t] = "unset" /\ UNCHANGED <<handle, mem, ref>>
        /\ \A u \in Threads \ {t} : drv'[u] = drv[u]
    BY <1>4 DEF Begin, At, shared, IInv, TypeOK, ThreadsOK
  <2>2. \A e \in Drivers : Holders(e) \subseteq Holders(e)'
    BY <2>1 DEF Holders
  <2> QED BY <2>1, <2>2 DEF NothingUnreachable
<1>5. CASE UNCHANGED vars
  BY <1>5 DEF vars, NothingUnreachable, Holders
<1> QED BY <1>1, <1>2, <1>3, <1>4, <1>5, NextKinds, StepKinds, ReleaseReachable,
           DropReachable

\* The pyeclib_t of a driver goes with the last reference to its capsule, in
\* whatever order threads close, drop and return.
THEOREM MemoryIsReachable == Spec => []NothingUnreachable
<1>1. Init => NothingUnreachable
  BY DEF Init, NothingUnreachable
<1> QED BY <1>1, StepReachable, Invariance, PTL DEF Spec

-----------------------------------------------------------------------------
(* Old libraries.                                                          *)

LEMMA OldStepKeeps ==
  ASSUME IInv, ~SafeDestroy, [Next]_vars
  PROVE  active \subseteq active'
<1>1. ASSUME NEW t \in Threads, Release(t) PROVE active' = active
  BY <1>1 DEF Release, Unreference, DestroyOutcomes
<1>2. ASSUME NEW t \in Threads, Keep(t) \/ CloseCheck(t) PROVE active' = active
  BY <1>2 DEF Keep, CloseCheck
<1>3. ASSUME NEW t \in Threads, NEW d \in Drivers, Create(t, d)
      PROVE  active \subseteq active'
  BY <1>3 DEF Create
<1>4. ASSUME NEW t \in Threads, NEW d \in Drivers, Drop(t, d) PROVE active' = active
  BY <1>4 DEF Drop, Unreference, DestroyOutcomes
<1>5. ASSUME NEW t \in Threads, NEW d \in Drivers, NEW o \in Operations,
             NEW n \in 0..MaxIndexes, Begin(t, d, o, n)
      PROVE  active' = active
  BY <1>5 DEF Begin, shared
<1> QED BY <1>1, <1>2, <1>3, <1>4, <1>5, NextKinds, StepKinds DEF vars

\* No step of any thread takes an instance from a library that is too old for it.
THEOREM OldInstancesStay == Spec => OldLibraryKeepsInstances
<1>1. IInv /\ [Next]_vars => [~SafeDestroy => active \subseteq active']_vars
  BY OldStepKeeps
<1> QED BY <1>1, Invariance, PTL DEF Spec, OldLibraryKeepsInstances

-----------------------------------------------------------------------------
(* What the GIL is good for.                                               *)

\* No process runs with a library that lets the module give up the GIL.
GilStays == \A v \in LibVersions : ~(FreeThreaded /\ v > 67329)

\* A thread in the middle of a C function has its instance, as nobody else
\* moves; only decode() releases its buffers after an error was raised.
GilInv ==
  /\ \A t \in Threads :
       /\ InC(t) => Live(t)
       /\ pc[t] = "seterr" => op[t] = "decode"
  /\ EncodeNeverLeaks
  /\ SegmentInfoSound

LEMMA GilFinish ==
  ASSUME TypeOK, GilStays, GilInv, NEW t \in Threads, CanRun(t),
         NEW r, r # "garbage", Finish(t, r),
         \A x \in leaked' : x[2] # "encode"
  PROVE  GilInv'
<1>1. /\ pc' = [pc EXCEPT ![t] = "idle"]
      /\ out' = [out EXCEPT ![t] = r]
      /\ op' = op
  BY DEF Finish, Return
<1>2. \A u \in Threads \ {t} : ~InC(u)
  BY DEF CanRun, GilDisabled, GilStays, TypeOK
<1>3. \A u \in Threads : ~InC(u)'
  BY <1>1, <1>2 DEF InC, TypeOK
<1> QED BY <1>1, <1>3 DEF GilInv, EncodeNeverLeaks, SegmentInfoSound, TypeOK

LEMMA GilGoTo ==
  ASSUME TypeOK, GilStays, GilInv, NEW t \in Threads, CanRun(t),
         NEW step, GoTo(t, step),
         step \in {"cleanup", "size", "last"} => Live(t),
         step = "seterr" => op[t] = "decode"
  PROVE  GilInv'
<1>1. /\ pc' = [pc EXCEPT ![t] = step]
      /\ UNCHANGED <<desc, active, leaked, drv, op, out>>
  BY DEF GoTo, shared
<1> QED BY <1>1 DEF GilInv, InC, Live, EncodeNeverLeaks, SegmentInfoSound, TypeOK

\* Steps outside C functions.
LEMMA GilOther ==
  ASSUME TypeOK, GilStays, GilInv, NEW t \in Threads, CanRun(t),
         \A u \in Threads \ {t} : pc'[u] = pc[u] /\ op'[u] = op[u],
         pc'[t] \notin {"cleanup", "size", "last", "seterr"},
         \A u \in Threads : out'[u] \in {out[u], "none", "ok"},
         leaked' = leaked
  PROVE  GilInv'
<1>1. \A u \in Threads \ {t} : ~InC(u)
  BY DEF CanRun, GilDisabled, GilStays, TypeOK
<1>2. \A u \in Threads : ~InC(u)'
  BY <1>1 DEF InC
<1> QED BY <1>2 DEF GilInv, EncodeNeverLeaks, SegmentInfoSound

LEMMA GilStep ==
  ASSUME IInv, GilStays, GilInv, NEW t \in Threads, Step(t)
  PROVE  GilInv'
<1> USE DEF IInv
<1>1. ASSUME NEW r, r # "garbage", CanRun(t), Finish(t, r), UNCHANGED leaked
      PROVE  GilInv'
  BY <1>1, GilFinish DEF GilInv, EncodeNeverLeaks
<1>2. CASE \/ ReconstructDone(t) \/ NoCapsule(t) \/ Fail(t)
           \/ CheckMetadata(t) \/ FragmentsNeeded(t) \/ GetMetadata(t)
           \/ DestroyNoCapsule(t) \/ DestroyUnknown(t) \/ DestroyRefused(t)
  BY <1>1, <1>2 DEF ReconstructDone, NoCapsule, Fail, CheckMetadata,
     FragmentsNeeded, GetMetadata, DestroyNoCapsule, DestroyUnknown,
     DestroyRefused, Calling, At
<1>3. CASE HandleCheck(t)
  BY <1>1, <1>3, GilGoTo DEF HandleCheck, At
<1>4. CASE Encode(t)
  BY <1>1, <1>4, GilGoTo DEF Encode, Calling, At
<1>5. CASE Decode(t)
  BY <1>1, <1>5, GilGoTo DEF Decode, Calling, At
<1>6. CASE GetSegmentInfo(t)
  BY <1>1, <1>6, GilGoTo DEF GetSegmentInfo, Calling, At
<1>7. CASE FragmentSize(t)
  BY <1>1, <1>7, GilGoTo DEF FragmentSize, At
<1>8. CASE LastFragmentSize(t)
  <2>1. Live(t)
    BY <1>8 DEF LastFragmentSize, At, GilInv, InC
  <2> QED BY <1>1, <1>8, <2>1 DEF LastFragmentSize, At
<1>9. CASE Cleanup(t)
  <2>1. PICK step \in {"cleanup", "seterr"} :
          /\ pc[t] = step /\ CanRun(t)
          /\ Finish(t, IF step = "seterr" THEN "failed" ELSE "ok")
          /\ leaked' = IF Live(t) THEN leaked ELSE leaked \cup {<<drv[t], op[t]>>}
    BY <1>9 DEF Cleanup, At
  <2>2. step = "cleanup" => Live(t)
    BY <2>1 DEF GilInv, InC
  <2>3. step = "seterr" => op[t] = "decode"
    BY <2>1 DEF GilInv
  <2>4. \A x \in leaked' : x[2] # "encode"
    BY <2>1, <2>2, <2>3 DEF GilInv, EncodeNeverLeaks
  <2>5. PICK r \in {"failed", "ok"} : Finish(t, r)
    BY <2>1
  <2> QED BY <2>1, <2>4, <2>5, GilFinish
<1>10. CASE Reconstruct(t)
  <2>1. CASE Live(t)
    <3>1. /\ CanRun(t)
          /\ pc' = [pc EXCEPT ![t] = "check"]
          /\ UNCHANGED <<op, out, leaked>>
      BY <1>10, <2>1 DEF Reconstruct, Calling, At
    <3> QED BY <3>1, GilOther DEF TypeOK
  <2> QED BY <1>1, <1>10, <2>1 DEF Reconstruct, Calling, At
<1>11. CASE HandleLoad(t) \/ CloseLoad(t) \/ CloseCheck(t)
  <2>1. /\ CanRun(t)
        /\ \E step \in {"call", "destroy", "close_load", "close_store"} :
             pc' = [pc EXCEPT ![t] = step]
        /\ UNCHANGED <<op, out, leaked>>
    BY <1>11 DEF HandleLoad, CloseLoad, CloseCheck, shared, At
  <2> QED BY <2>1, GilOther DEF TypeOK
<1>12. CASE Destroy(t)
  <2>1. /\ CanRun(t)
        /\ pc' = [pc EXCEPT ![t] = "close_store"]
        /\ UNCHANGED <<op, out, leaked>>
    BY <1>12 DEF Destroy, At
  <2> QED BY <2>1, GilOther DEF TypeOK
<1>13. CASE CloseStore(t)
  <2>1. /\ CanRun(t)
        /\ pc' = [pc EXCEPT ![t] = "idle"]
        /\ out' = [out EXCEPT ![t] = "ok"]
        /\ UNCHANGED <<op, leaked>>
    BY <1>13 DEF CloseStore, Return, At
  <2> QED BY <2>1, GilOther DEF TypeOK
<1> QED BY <1>2, <1>3, <1>4, <1>5, <1>6, <1>7, <1>8, <1>9, <1>10, <1>11, <1>12, <1>13
        DEF Step

LEMMA GilNext ==
  ASSUME IInv, GilStays, GilInv, [Next]_vars
  PROVE  GilInv'
<1> USE DEF IInv
<1>1. ASSUME NEW t \in Threads, NEW d \in Drivers, Create(t, d) \/ Drop(t, d)
      PROVE  GilInv'
  <2>1. /\ CanRun(t) /\ pc[t] = "idle"
        /\ UNCHANGED <<pc, op, out, leaked>>
    BY <1>1 DEF Create, Drop, At
  <2> QED BY <2>1, GilOther
<1>2. ASSUME NEW t \in Threads, NEW d \in Drivers, NEW o \in Operations,
             NEW n \in 0..MaxIndexes, Begin(t, d, o, n)
      PROVE  GilInv'
  <2>1. /\ CanRun(t)
        /\ \E step \in {"check", "close_check"} : pc' = [pc EXCEPT ![t] = step]
        /\ op' = [op EXCEPT ![t] = o]
        /\ out' = [out EXCEPT ![t] = "none"]
        /\ UNCHANGED leaked
    BY <1>2 DEF Begin, shared, At
  <2> QED BY <2>1, GilOther DEF TypeOK
<1>3. CASE UNCHANGED vars
  BY <1>3 DEF vars, GilInv, InC, Live, EncodeNeverLeaks, SegmentInfoSound
<1> QED BY <1>1, <1>2, <1>3, NextKinds, GilStep

\* What the GIL keeps in every reachable state: of the threads in the middle of
\* a C function none is overtaken by a close(), which the next two rest on.
THEOREM GilInvariance == GilStays => (Spec => []GilInv)
<1> SUFFICES ASSUME GilStays PROVE Spec => []GilInv
  OBVIOUS
<1>1. Init => GilInv
  BY DEF Init, GilInv, InC, EncodeNeverLeaks, SegmentInfoSound
<1>2. IInv /\ GilInv /\ [Next]_vars => GilInv'
  BY GilNext
<1> QED BY <1>1, <1>2, Invariance, PTL DEF Spec

\* With the GIL encode() never loses its buffers.
THEOREM EncodeKeepsBuffers == GilStays => (Spec => []EncodeNeverLeaks)
<1> SUFFICES ASSUME GilStays PROVE Spec => []EncodeNeverLeaks
  OBVIOUS
<1>1. GilInv => EncodeNeverLeaks
  BY DEF GilInv
<1> QED BY <1>1, GilInvariance, PTL

\* With the GIL get_segment_info() never makes a size of an error code: it
\* takes a close() between its calls into the library.
THEOREM SegmentSizesAreReal == GilStays => (Spec => []SegmentInfoSound)
<1> SUFFICES ASSUME GilStays PROVE Spec => []SegmentInfoSound
  OBVIOUS
<1>1. GilInv => SegmentInfoSound
  BY DEF GilInv
<1> QED BY <1>1, GilInvariance, PTL
=============================================================================
