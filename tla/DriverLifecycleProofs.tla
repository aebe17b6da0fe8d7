----------------------- MODULE DriverLifecycleProofs -----------------------
(***************************************************************************)
(* The safety properties of DriverLifecycle for any number of threads,     *)
(* drivers and descriptors, any library version, with and without the GIL. *)
(*                                                                         *)
(* Nearly every action ends a call (Finish) or moves to another step       *)
(* (GoTo), and a lemma says that IInv survives it.  ReleaseInv is the part *)
(* of that for the actions that let go of the capsule.                     *)
(***************************************************************************)
EXTENDS DriverLifecycle, TLAPS

\* What letting go of the capsule of d may do to memory and registry: the
\* memory goes at most when nothing refers to it any more, and the instance
\* has gone then, unless the library could not take its lock.
Effect(d) ==
  /\ mem' \in [Drivers -> {"none", "allocated", "freed"}]
  /\ active' \subseteq active
  /\ active \ {desc[d]} \subseteq active'
  /\ \A e \in Drivers : mem'[e] # mem[e] =>
       /\ e = d /\ mem[e] = "allocated" /\ mem'[e] = "freed"
       /\ handle'[d] # "capsule"
       /\ \A u \in Threads : drv[u] = d => ref'[u] # "capsule"
       /\ SafeDestroy /\ ~LockMayFail => desc[d] \notin active'

\* The part of IInv that speaks of drivers survives a step that lets go of the
\* capsule of d: the attribute may stay or be dropped, frames may give up their
\* references, and the instance may be destroyed if somebody closes d.
LEMMA ReleaseInv ==
  ASSUME IInv,
         NEW d \in Drivers,
         handle[d] \in {"capsule", "None"},
         handle' \in [Drivers -> {"unborn", "capsule", "None", "dropped"}],
         \A e \in Drivers \ {d} : handle'[e] = handle[e],
         handle'[d] # "unborn",
         handle'[d] = "capsule" => handle[d] = "capsule",
         handle'[d] = "capsule" /\ ~closing[d] => active' = active,
         handle'[d] = "None" => closing[d] /\ (SafeDestroy => desc[d] \notin active'),
         Effect(d),
         \A u \in Threads : ref'[u] \in {ref[u], "unset"},
         UNCHANGED <<version, desc, issued, closing, drv>>
  PROVE  /\ DriversOK'
         /\ NoUseAfterFree'
         /\ NoneMeansDestroyed'
         /\ ~LockMayFail => InstanceReclaimed'
<1> USE DEF IInv, TypeOK, Effect
<1>1. \A e \in Drivers \ {d} : handle[e] # "unborn" => desc[e] # desc[d]
  BY DEF DriversOK
<1>2. DriversOK'
  <2> SUFFICES ASSUME NEW e \in Drivers
               PROVE  /\ handle'[e] = "unborn" => mem'[e] = "none" /\ desc[e] = NoDesc /\ ~closing[e]
                      /\ handle'[e] # "unborn" => mem'[e] # "none" /\ desc[e] \in issued
                      /\ handle'[e] = "capsule" => mem'[e] = "allocated"
                      /\ handle'[e] = "None" => closing[e]
                      /\ handle'[e] = "capsule" /\ ~closing[e] => desc[e] \in active'
                      /\ \A f \in Drivers \ {e} : desc[e] = desc[f] => handle'[e] = "unborn"
    BY DEF DriversOK
  <2>1. CASE e = d
    BY <2>1 DEF DriversOK
  <2>2. CASE e # d
    <3>1. handle'[e] = handle[e] /\ mem'[e] = mem[e]
      BY <2>2
    <3>2. handle[e] # "unborn" /\ desc[e] \in active => desc[e] \in active'
      BY <1>1, <2>2
    <3> QED BY <3>1, <3>2 DEF DriversOK
  <2> QED BY <2>1, <2>2
<1>3. NoUseAfterFree'
  BY DEF NoUseAfterFree
<1>4. NoneMeansDestroyed'
  BY DEF NoneMeansDestroyed, SafeDestroy
<1>5. ~LockMayFail => InstanceReclaimed'
  BY DEF InstanceReclaimed, SafeDestroy
<1> QED BY <1>2, <1>3, <1>4, <1>5

\* Ending a call preserves IInv if its outcome is a refusal only for a driver
\* that somebody closes, and if a buffer is lost only then.
LEMMA FinishInv ==
  ASSUME IInv,
         NEW t \in Threads, pc[t] # "idle",
         NEW r \in Outcomes, r \in Refusals => closing[drv[t]],
         Finish(t, r),
         leaked' \subseteq Drivers \X {"encode", "decode"},
         \A x \in leaked' : closing[x[1]]
  PROVE  IInv'
<1>1. /\ pc'   = [pc   EXCEPT ![t] = "idle"]
      /\ ref'  = [ref  EXCEPT ![t] = "unset"]
      /\ left' = [left EXCEPT ![t] = 0]
      /\ out'  = [out  EXCEPT ![t] = r]
      /\ Unreference(drv[t], Holders(drv[t]) \ {t}, handle[drv[t]], active)
      /\ UNCHANGED <<version, drv, op, handle, desc, issued, closing>>
  BY DEF Finish, Return
<1>2. /\ drv[t] \in Drivers /\ handle[drv[t]] \in {"capsule", "None"}
      /\ handle[drv[t]] = "None" => closing[drv[t]]
      /\ handle[drv[t]] = "None" /\ SafeDestroy => desc[drv[t]] \notin active
  BY DEF IInv, TypeOK, ThreadsOK, DriversOK, NoneMeansDestroyed
<1>3. \/ mem' = mem /\ active' = active
      \/ /\ handle[drv[t]] # "capsule" /\ mem[drv[t]] = "allocated"
         /\ \A u \in Threads : drv[u] = drv[t] => ref'[u] # "capsule"
         /\ mem' = [mem EXCEPT ![drv[t]] = "freed"]
         /\ active' \subseteq active
         /\ active \ {desc[drv[t]]} \subseteq active'
         /\ SafeDestroy /\ ~LockMayFail => desc[drv[t]] \notin active'
  BY <1>1 DEF IInv, TypeOK, Unreference, Holders, DestroyOutcomes, InstanceDestroy
<1>4. Effect(drv[t])
  BY <1>1, <1>3 DEF IInv, TypeOK, Effect
<1>5. /\ DriversOK' /\ NoUseAfterFree' /\ NoneMeansDestroyed'
      /\ ~LockMayFail => InstanceReclaimed'
  <2>1. /\ handle' \in [Drivers -> {"unborn", "capsule", "None", "dropped"}]
        /\ \A e \in Drivers \ {drv[t]} : handle'[e] = handle[e]
        /\ \A u \in Threads : ref'[u] \in {ref[u], "unset"}
    BY <1>1 DEF IInv, TypeOK
  <2>2. handle'[drv[t]] = "capsule" => active' = active
    BY <1>1, <1>3
  <2> QED BY <1>1, <1>2, <1>4, <2>1, <2>2, ReleaseInv DEF Effect
<1>6. TypeOK'
  BY <1>1, <1>4, BoundsAssumption DEF IInv, TypeOK, Effect
<1>7. ThreadsOK'
  BY <1>1, <1>2, <1>4 DEF IInv, TypeOK, ThreadsOK, SafeDestroy, Effect
<1>8. RefusedOnlyAfterClose'
  BY <1>1 DEF IInv, TypeOK, RefusedOnlyAfterClose
<1>9. LeakedOnlyByClose'
  BY <1>1 DEF LeakedOnlyByClose
<1> QED BY <1>1, <1>4, <1>5, <1>6, <1>7, <1>8, <1>9 DEF IInv, Effect

\* So does going on to another step of a C function or of the handle property.
LEMMA GoToInv ==
  ASSUME IInv,
         NEW t \in Threads, pc[t] # "idle",
         NEW step \in {"load", "cleanup", "seterr", "size", "last"},
         GoTo(t, step),
         step = "load" => ref[t] = "unset" /\ (op[t] = "reconstruct" => left[t] > 0),
         step \in {"cleanup", "seterr"} => op[t] \in {"encode", "decode"}
  PROVE  IInv'
<1> USE DEF IInv, TypeOK
<1>1. /\ pc' = [pc EXCEPT ![t] = step]
      /\ UNCHANGED <<version, handle, desc, mem, active, issued, closing, leaked,
                     drv, op, ref, left, out>>
  BY DEF GoTo, shared
<1>2. TypeOK'
  BY <1>1
<1>3. ThreadsOK'
  BY <1>1 DEF ThreadsOK, SafeDestroy
<1>4. /\ DriversOK' /\ NoUseAfterFree' /\ RefusedOnlyAfterClose'
      /\ NoneMeansDestroyed' /\ LeakedOnlyByClose'
      /\ ~LockMayFail => InstanceReclaimed'
  BY <1>1 DEF DriversOK, NoUseAfterFree, RefusedOnlyAfterClose,
              NoneMeansDestroyed, LeakedOnlyByClose, InstanceReclaimed, SafeDestroy
<1> QED BY <1>1, <1>2, <1>3, <1>4

\* While a call holds the capsule, the instance is there unless somebody
\* closes the driver.
LEMMA DeadMeansClosing ==
  ASSUME IInv, NEW t \in Threads, pc[t] # "idle", ~Live(t)
  PROVE  closing[drv[t]]
BY DEF IInv, TypeOK, ThreadsOK, DriversOK, Live

LEMMA InitInv == Init => IInv
BY BoundsAssumption DEF Init, IInv, TypeOK, DriversOK, ThreadsOK, NoUseAfterFree,
   RefusedOnlyAfterClose, NoneMeansDestroyed, LeakedOnlyByClose, InstanceReclaimed,
   Operations, Outcomes, Refusals

\* The actions that are neither of the two, one lemma each.
LEMMA CreateInv ==
  ASSUME IInv, NEW t \in Threads, NEW d \in Drivers, Create(t, d)
  PROVE  IInv'
<1> USE DEF IInv, TypeOK, Create
<1>1. PICK n \in Descs \ issued :
        /\ desc'   = [desc EXCEPT ![d] = n]
        /\ active' = active \cup {n}
        /\ issued' = issued \cup {n}
  OBVIOUS
<1>2. TypeOK'
  BY <1>1
<1>3. DriversOK'
  BY <1>1, NoDescAssumption DEF DriversOK
<1>4. ThreadsOK'
  BY <1>1 DEF ThreadsOK, SafeDestroy, DriversOK
<1>5. NoUseAfterFree' /\ RefusedOnlyAfterClose' /\ LeakedOnlyByClose'
  BY DEF NoUseAfterFree, RefusedOnlyAfterClose, LeakedOnlyByClose
<1>6. NoneMeansDestroyed'
  BY <1>1 DEF NoneMeansDestroyed, SafeDestroy, DriversOK
<1>7. ~LockMayFail => InstanceReclaimed'
  BY <1>1 DEF InstanceReclaimed, SafeDestroy, DriversOK
<1> QED BY <1>1, <1>2, <1>3, <1>4, <1>5, <1>6, <1>7

LEMMA DropInv ==
  ASSUME IInv, NEW t \in Threads, NEW d \in Drivers, Drop(t, d)
  PROVE  IInv'
<1>1. /\ handle[d] \in {"capsule", "None"}
      /\ handle' = [handle EXCEPT ![d] = "dropped"]
      /\ \A u \in Threads : drv[u] = d => pc[u] = "idle" /\ ref[u] = "unset"
      /\ UNCHANGED <<version, desc, issued, closing, leaked, pc, drv, op, ref, left, out>>
  BY DEF Drop, IInv, ThreadsOK
<1>2. \/ mem' = mem /\ active' = active
      \/ /\ mem[d] = "allocated"
         /\ mem' = [mem EXCEPT ![d] = "freed"]
         /\ active' \subseteq active
         /\ active \ {desc[d]} \subseteq active'
         /\ SafeDestroy /\ ~LockMayFail => desc[d] \notin active'
  BY DEF Drop, IInv, TypeOK, Unreference, DestroyOutcomes, InstanceDestroy
<1>3. Effect(d)
  BY <1>1, <1>2 DEF IInv, TypeOK, Effect
<1>4. /\ DriversOK' /\ NoUseAfterFree' /\ NoneMeansDestroyed'
      /\ ~LockMayFail => InstanceReclaimed'
  <2>1. /\ handle' \in [Drivers -> {"unborn", "capsule", "None", "dropped"}]
        /\ \A e \in Drivers \ {d} : handle'[e] = handle[e]
        /\ handle'[d] = "dropped"
        /\ \A u \in Threads : ref'[u] \in {ref[u], "unset"}
    BY <1>1 DEF IInv, TypeOK
  <2> QED BY <1>1, <1>3, <2>1, ReleaseInv DEF Effect
<1>5. TypeOK'
  BY <1>1, <1>3 DEF IInv, TypeOK, Effect
<1>6. ThreadsOK'
  BY <1>1, <1>3 DEF IInv, TypeOK, ThreadsOK, SafeDestroy, Effect
<1>7. RefusedOnlyAfterClose' /\ LeakedOnlyByClose'
  BY <1>1 DEF IInv, RefusedOnlyAfterClose, LeakedOnlyByClose
<1> QED BY <1>1, <1>3, <1>4, <1>5, <1>6, <1>7 DEF IInv, Effect

LEMMA BeginInv ==
  ASSUME IInv, NEW t \in Threads, NEW d \in Drivers, NEW o \in Operations,
         NEW n \in 0..MaxIndexes, Begin(t, d, o, n)
  PROVE  IInv'
<1> USE DEF IInv, TypeOK, Begin, shared, At
<1>1. TypeOK'
  BY DEF Outcomes
<1>2. ref[t] = "unset"
  BY DEF ThreadsOK
<1>3. ThreadsOK'
  BY <1>2 DEF ThreadsOK, SafeDestroy
<1>4. NoUseAfterFree' /\ RefusedOnlyAfterClose'
  BY <1>2 DEF NoUseAfterFree, RefusedOnlyAfterClose, Refusals
<1>5. /\ DriversOK' /\ NoneMeansDestroyed' /\ LeakedOnlyByClose'
      /\ ~LockMayFail => InstanceReclaimed'
  BY DEF DriversOK, NoneMeansDestroyed, LeakedOnlyByClose, InstanceReclaimed, SafeDestroy
<1> QED BY <1>1, <1>3, <1>4, <1>5

\* Both reads of the attribute that a thread keeps.
LEMMA LoadInv ==
  ASSUME IInv, NEW t \in Threads, HandleLoad(t) \/ CloseLoad(t)
  PROVE  IInv'
<1> USE DEF IInv, TypeOK, HandleLoad, CloseLoad, shared, At
<1>1. handle[drv[t]] \in {"capsule", "None"}
  BY DEF ThreadsOK
<1>2. TypeOK'
  BY <1>1
<1>3. ThreadsOK'
  BY <1>1 DEF ThreadsOK, SafeDestroy, DriversOK
<1>4. NoUseAfterFree'
  BY DEF NoUseAfterFree, DriversOK
<1>5. /\ DriversOK' /\ RefusedOnlyAfterClose' /\ NoneMeansDestroyed'
      /\ LeakedOnlyByClose' /\ (~LockMayFail => InstanceReclaimed')
  BY DEF DriversOK, RefusedOnlyAfterClose, NoneMeansDestroyed,
         LeakedOnlyByClose, InstanceReclaimed, SafeDestroy
<1> QED BY <1>2, <1>3, <1>4, <1>5

LEMMA CloseCheckInv ==
  ASSUME IInv, NEW t \in Threads, CloseCheck(t)
  PROVE  IInv'
<1> USE DEF IInv, TypeOK, CloseCheck, At
<1>1. TypeOK'
  OBVIOUS
<1>2. handle[drv[t]] \in {"capsule", "None"} /\ ref[t] = "unset"
  BY DEF ThreadsOK
<1>3. ThreadsOK'
  <2>1. CASE handle[drv[t]] = "None"
    <3>1. /\ pc' = [pc EXCEPT ![t] = "close_store"]
          /\ closing[drv[t]]
          /\ SafeDestroy => desc[drv[t]] \notin active
      BY <2>1 DEF DriversOK, NoneMeansDestroyed
    <3>2. \A d \in Drivers : closing[d] => closing'[d]
      OBVIOUS
    <3> QED BY <1>2, <3>1, <3>2 DEF ThreadsOK, SafeDestroy
  <2>2. CASE handle[drv[t]] # "None"
    <3>1. /\ pc' = [pc EXCEPT ![t] = "close_load"]
          /\ closing'[drv[t]]
      BY <2>2
    <3>2. \A d \in Drivers : closing[d] => closing'[d]
      OBVIOUS
    <3> QED BY <1>2, <3>1, <3>2 DEF ThreadsOK, SafeDestroy
  <2> QED BY <2>1, <2>2
<1>4. DriversOK'
  BY <1>2 DEF DriversOK
<1>5. /\ NoUseAfterFree' /\ RefusedOnlyAfterClose' /\ NoneMeansDestroyed'
      /\ LeakedOnlyByClose' /\ (~LockMayFail => InstanceReclaimed')
  BY DEF NoUseAfterFree, RefusedOnlyAfterClose, NoneMeansDestroyed,
         LeakedOnlyByClose, InstanceReclaimed, SafeDestroy
<1> QED BY <1>1, <1>3, <1>4, <1>5

\* The actions that let go of the capsule and do more than end a call.
LEMMA ReconstructInv ==
  ASSUME IInv, NEW t \in Threads, Reconstruct(t), Live(t)
  PROVE  IInv'
<1>1. /\ pc[t] = "call" /\ op[t] = "reconstruct"
      /\ pc'   = [pc   EXCEPT ![t] = "check"]
      /\ ref'  = [ref  EXCEPT ![t] = "unset"]
      /\ left' = [left EXCEPT ![t] = @ - 1]
      /\ Unreference(drv[t], Holders(drv[t]) \ {t}, handle[drv[t]], active)
      /\ UNCHANGED <<version, handle, desc, issued, closing, leaked, drv, op, out>>
  BY DEF Reconstruct, Calling, At
<1>2. /\ drv[t] \in Drivers /\ handle[drv[t]] \in {"capsule", "None"}
      /\ handle[drv[t]] = "None" => closing[drv[t]]
      /\ handle[drv[t]] = "None" /\ SafeDestroy => desc[drv[t]] \notin active
  BY <1>1 DEF IInv, TypeOK, ThreadsOK, DriversOK, NoneMeansDestroyed
<1>3. \/ mem' = mem /\ active' = active
      \/ /\ handle[drv[t]] # "capsule" /\ mem[drv[t]] = "allocated"
         /\ \A u \in Threads : drv[u] = drv[t] => ref'[u] # "capsule"
         /\ mem' = [mem EXCEPT ![drv[t]] = "freed"]
         /\ active' \subseteq active
         /\ active \ {desc[drv[t]]} \subseteq active'
         /\ SafeDestroy /\ ~LockMayFail => desc[drv[t]] \notin active'
  BY <1>1 DEF IInv, TypeOK, Unreference, Holders, DestroyOutcomes, InstanceDestroy
<1>4. Effect(drv[t])
  BY <1>1, <1>3 DEF IInv, TypeOK, Effect
<1>5. /\ DriversOK' /\ NoUseAfterFree' /\ NoneMeansDestroyed'
      /\ ~LockMayFail => InstanceReclaimed'
  <2>1. /\ handle' \in [Drivers -> {"unborn", "capsule", "None", "dropped"}]
        /\ \A e \in Drivers \ {drv[t]} : handle'[e] = handle[e]
        /\ \A u \in Threads : ref'[u] \in {ref[u], "unset"}
    BY <1>1 DEF IInv, TypeOK
  <2>2. handle'[drv[t]] = "capsule" => active' = active
    BY <1>1, <1>3
  <2> QED BY <1>1, <1>2, <1>4, <2>1, <2>2, ReleaseInv DEF Effect
<1>6. TypeOK'
  <2>1. left[t] > 0
    BY <1>1 DEF IInv, ThreadsOK
  <2> QED BY <1>1, <1>4, <2>1, BoundsAssumption DEF IInv, TypeOK, Effect
<1>7. ThreadsOK'
  BY <1>1, <1>2, <1>4 DEF IInv, TypeOK, ThreadsOK, SafeDestroy, Effect
<1>8. RefusedOnlyAfterClose' /\ LeakedOnlyByClose'
  BY <1>1 DEF IInv, RefusedOnlyAfterClose, LeakedOnlyByClose
<1> QED BY <1>1, <1>4, <1>5, <1>6, <1>7, <1>8 DEF IInv, Effect

LEMMA DestroyInv ==
  ASSUME IInv, NEW t \in Threads, Destroy(t)
  PROVE  IInv'
<1> DEFINE A == IF SafeDestroy THEN active \ {desc[drv[t]]} ELSE active
<1>1. /\ pc[t] = "destroy" /\ ref[t] = "capsule"
      /\ pc'  = [pc  EXCEPT ![t] = "close_store"]
      /\ ref' = [ref EXCEPT ![t] = "unset"]
      /\ Unreference(drv[t], Holders(drv[t]) \ {t}, handle[drv[t]], A)
      /\ UNCHANGED <<version, handle, desc, issued, closing, leaked, drv, op,
                 left, out>>
  BY DEF Destroy, At
<1>2. /\ drv[t] \in Drivers /\ handle[drv[t]] \in {"capsule", "None"}
      /\ closing[drv[t]]
  BY <1>1 DEF IInv, TypeOK, ThreadsOK
<1>3. \/ mem' = mem /\ active' = A
      \/ /\ handle[drv[t]] # "capsule" /\ mem[drv[t]] = "allocated"
         /\ \A u \in Threads : drv[u] = drv[t] => ref'[u] # "capsule"
         /\ mem' = [mem EXCEPT ![drv[t]] = "freed"]
         /\ active' \in {A, A \ {desc[drv[t]]}}
  BY <1>1 DEF IInv, TypeOK, Unreference, Holders, DestroyOutcomes, InstanceDestroy
<1>4. SafeDestroy => desc[drv[t]] \notin active'
  BY <1>3
<1>5. active' \subseteq active /\ active \ {desc[drv[t]]} \subseteq active'
  BY <1>3
<1>6. Effect(drv[t])
  BY <1>1, <1>3, <1>4, <1>5 DEF IInv, TypeOK, Effect
<1>7. /\ DriversOK' /\ NoUseAfterFree' /\ NoneMeansDestroyed'
      /\ ~LockMayFail => InstanceReclaimed'
  <2>1. /\ handle' \in [Drivers -> {"unborn", "capsule", "None", "dropped"}]
        /\ \A e \in Drivers \ {drv[t]} : handle'[e] = handle[e]
        /\ \A u \in Threads : ref'[u] \in {ref[u], "unset"}
    BY <1>1 DEF IInv, TypeOK
  <2> HIDE DEF A
  <2> QED BY <1>1, <1>2, <1>4, <1>6, <2>1, ReleaseInv DEF Effect
<1>8. TypeOK'
  BY <1>1, <1>6 DEF IInv, TypeOK, Effect
<1>9. ThreadsOK'
  <2> HIDE DEF A
  <2> QED BY <1>1, <1>2, <1>4, <1>5 DEF IInv, TypeOK, ThreadsOK, SafeDestroy
<1>10. RefusedOnlyAfterClose' /\ LeakedOnlyByClose'
  BY <1>1 DEF IInv, RefusedOnlyAfterClose, LeakedOnlyByClose
<1> QED BY <1>1, <1>5, <1>7, <1>8, <1>9, <1>10 DEF IInv

LEMMA CloseStoreInv ==
  ASSUME IInv, NEW t \in Threads, CloseStore(t)
  PROVE  IInv'
<1>1. /\ pc[t] = "close_store"
      /\ handle' = [handle EXCEPT ![drv[t]] = "None"]
      /\ pc'   = [pc   EXCEPT ![t] = "idle"]
      /\ ref'  = [ref  EXCEPT ![t] = "unset"]
      /\ left' = [left EXCEPT ![t] = 0]
      /\ out'  = [out  EXCEPT ![t] = "ok"]
      /\ Unreference(drv[t], Holders(drv[t]) \ {t}, "None", active)
      /\ UNCHANGED <<version, drv, op, desc, issued, closing, leaked>>
  BY DEF CloseStore, Return, At
<1>2. /\ drv[t] \in Drivers /\ handle[drv[t]] \in {"capsule", "None"}
      /\ closing[drv[t]]
      /\ SafeDestroy => desc[drv[t]] \notin active
  BY <1>1 DEF IInv, TypeOK, ThreadsOK
<1>3. \/ mem' = mem /\ active' = active
      \/ /\ mem[drv[t]] = "allocated"
         /\ \A u \in Threads : drv[u] = drv[t] => ref'[u] # "capsule"
         /\ mem' = [mem EXCEPT ![drv[t]] = "freed"]
         /\ active' \in {active, active \ {desc[drv[t]]}}
  BY <1>1 DEF IInv, TypeOK, Unreference, Holders, DestroyOutcomes, InstanceDestroy
<1>4. /\ active' \subseteq active /\ active \ {desc[drv[t]]} \subseteq active'
      /\ SafeDestroy => desc[drv[t]] \notin active'
  BY <1>2, <1>3
<1>5. /\ handle' \in [Drivers -> {"unborn", "capsule", "None", "dropped"}]
      /\ handle'[drv[t]] = "None"
      /\ \A e \in Drivers \ {drv[t]} : handle'[e] = handle[e]
      /\ \A u \in Threads : ref'[u] \in {ref[u], "unset"}
  BY <1>1, <1>2 DEF IInv, TypeOK
<1>6. Effect(drv[t])
  BY <1>1, <1>3, <1>4, <1>5 DEF IInv, TypeOK, Effect
<1>7. /\ DriversOK' /\ NoUseAfterFree' /\ NoneMeansDestroyed'
      /\ ~LockMayFail => InstanceReclaimed'
  BY <1>1, <1>2, <1>4, <1>5, <1>6, ReleaseInv DEF Effect
<1>8. TypeOK'
  BY <1>1, <1>5, <1>6, BoundsAssumption DEF IInv, TypeOK, Effect, Outcomes
<1>9. ThreadsOK'
  BY <1>1, <1>2, <1>4, <1>5 DEF IInv, TypeOK, ThreadsOK, SafeDestroy
<1>10. RefusedOnlyAfterClose' /\ LeakedOnlyByClose'
  BY <1>1 DEF IInv, TypeOK, RefusedOnlyAfterClose, LeakedOnlyByClose, Refusals
<1> QED BY <1>1, <1>4, <1>7, <1>8, <1>9, <1>10 DEF IInv

-----------------------------------------------------------------------------
\* A step of a call preserves IInv.
LEMMA StepInv ==
  ASSUME IInv, NEW t \in Threads, Step(t)
  PROVE  IInv'
<1>1. ASSUME NEW r \in Outcomes, pc[t] # "idle",
             r \in Refusals => closing[drv[t]], Finish(t, r), UNCHANGED leaked
      PROVE  IInv'
  <2>1. leaked' \subseteq Drivers \X {"encode", "decode"}
    BY <1>1 DEF IInv, TypeOK
  <2>2. \A x \in leaked' : closing[x[1]]
    BY <1>1 DEF IInv, LeakedOnlyByClose
  <2> QED BY <1>1, <2>1, <2>2, FinishInv
<1>2. {"ok", "closed", "invalid", "driver_error", "failed", "garbage"}
        \subseteq Outcomes
  BY DEF Outcomes, Refusals
<1>3. \A r \in {"ok", "failed", "garbage"} : r \notin Refusals
  BY DEF Refusals
<1>4. /\ ref[t] = "None" => closing[drv[t]]
      /\ ~Live(t) /\ pc[t] # "idle" => closing[drv[t]]
  BY DeadMeansClosing DEF IInv, ThreadsOK
<1>5. CASE ReconstructDone(t)
  BY <1>1, <1>2, <1>3, <1>5 DEF ReconstructDone, At
<1>6. CASE HandleCheck(t)
  <2>1. handle[drv[t]] = "None" => closing[drv[t]]
    BY DEF IInv, TypeOK, DriversOK
  <2>2. ref[t] = "unset"
    BY <1>6 DEF IInv, ThreadsOK, HandleCheck, At
  <2>3. CASE GoTo(t, "load")
    BY <1>6, <2>2, <2>3, GoToInv DEF HandleCheck, At
  <2> QED BY <1>1, <1>2, <1>6, <2>1, <2>3 DEF HandleCheck, At
<1>7. CASE HandleLoad(t) \/ CloseLoad(t)
  BY <1>7, LoadInv
<1>8. CASE NoCapsule(t)
  BY <1>1, <1>2, <1>4, <1>8 DEF NoCapsule, At
<1>9. CASE Encode(t)
  <2>1. CASE GoTo(t, "cleanup")
    BY <1>9, <2>1, GoToInv DEF Encode, Calling, At
  <2> QED BY <1>1, <1>2, <1>4, <1>9, <2>1 DEF Encode, Calling, At
<1>10. CASE Decode(t)
  <2>1. CASE GoTo(t, "cleanup")
    BY <1>10, <2>1, GoToInv DEF Decode, Calling, At
  <2>2. CASE GoTo(t, "seterr")
    BY <1>10, <2>2, GoToInv DEF Decode, Calling, At
  <2> QED BY <1>1, <1>2, <1>4, <1>10, <2>1, <2>2 DEF Decode, Calling, At
<1>11. CASE Cleanup(t)
  <2>1. PICK step \in {"cleanup", "seterr"} :
          /\ pc[t] = step
          /\ Finish(t, IF step = "seterr" THEN "failed" ELSE "ok")
    BY <1>11 DEF Cleanup, At
  <2> DEFINE r == IF step = "seterr" THEN "failed" ELSE "ok"
  <2>2. /\ drv[t] \in Drivers /\ op[t] \in {"encode", "decode"}
        /\ pc[t] # "idle"
    BY <2>1 DEF IInv, TypeOK, ThreadsOK
  <2>3. \/ leaked' = leaked
        \/ ~Live(t) /\ leaked' = leaked \cup {<<drv[t], op[t]>>}
    BY <1>11 DEF Cleanup
  <2>4. /\ leaked' \subseteq Drivers \X {"encode", "decode"}
        /\ \A x \in leaked' : closing[x[1]]
    BY <1>4, <2>1, <2>2, <2>3 DEF IInv, TypeOK, LeakedOnlyByClose
  <2>5. r \in Outcomes /\ r \notin Refusals /\ Finish(t, r) /\ pc[t] # "idle"
    BY <1>2, <1>3, <2>1
  <2> HIDE DEF r
  <2> QED BY <2>4, <2>5, FinishInv
<1>12. CASE Reconstruct(t)
  <2>1. CASE Live(t)
    BY <1>12, <2>1, ReconstructInv
  <2>2. CASE ~Live(t)
    BY <1>1, <1>2, <1>4, <1>12, <2>2 DEF Reconstruct, Calling, At
  <2> QED BY <2>1, <2>2
<1>13. CASE CheckMetadata(t) \/ FragmentsNeeded(t)
  BY <1>1, <1>2, <1>3, <1>4, <1>13
     DEF CheckMetadata, FragmentsNeeded, Calling, At
<1>14. CASE GetMetadata(t)
  BY <1>1, <1>2, <1>3, <1>14 DEF GetMetadata, Calling, At
<1>15. CASE GetSegmentInfo(t)
  <2>1. CASE GoTo(t, "size")
    BY <1>15, <2>1, GoToInv DEF GetSegmentInfo, Calling, At
  <2> QED BY <1>1, <1>2, <1>4, <1>15, <2>1 DEF GetSegmentInfo, Calling, At
<1>16. CASE FragmentSize(t)
  <2>1. CASE GoTo(t, "last")
    BY <1>16, <2>1, GoToInv DEF FragmentSize, At
  <2> QED BY <1>1, <1>2, <1>3, <1>4, <1>16, <2>1 DEF FragmentSize, At
<1>17. CASE LastFragmentSize(t)
  BY <1>1, <1>2, <1>3, <1>17 DEF LastFragmentSize, At
<1>18. CASE CloseCheck(t)
  BY <1>18, CloseCheckInv
<1>19. CASE DestroyNoCapsule(t)
  BY <1>1, <1>2, <1>4, <1>19 DEF DestroyNoCapsule, At
<1>20. CASE DestroyUnknown(t)
  BY <1>1, <1>2, <1>4, <1>20 DEF DestroyUnknown, At
<1>21. CASE DestroyRefused(t)
  <2>1. closing[drv[t]]
    BY <1>21 DEF IInv, ThreadsOK, DestroyRefused, At
  <2> QED BY <1>1, <1>2, <1>21, <2>1 DEF DestroyRefused, At
<1>22. CASE Destroy(t)
  BY <1>22, DestroyInv
<1>23. CASE CloseStore(t)
  BY <1>23, CloseStoreInv
<1>24. CASE Fail(t)
  BY <1>1, <1>2, <1>3, <1>24 DEF Fail, At
<1> QED BY <1>5, <1>6, <1>7, <1>8, <1>9, <1>10, <1>11, <1>12, <1>13, <1>14, <1>15,
           <1>16, <1>17, <1>18, <1>19, <1>20, <1>21, <1>22, <1>23, <1>24 DEF Step

\* IInv is an invariant.
THEOREM Invariance == Spec => []IInv
<1>1. Init => IInv
  BY InitInv
<1>2. IInv /\ [Next]_vars => IInv'
  <2> SUFFICES ASSUME IInv, [Next]_vars PROVE IInv'
    OBVIOUS
  <2>1. CASE Next /\ ~UNCHANGED vars
    <3>1. PICK t \in Threads :
            \/ Step(t)
            \/ \E d \in Drivers :
                 \/ Create(t, d)
                 \/ Drop(t, d)
                 \/ \E o \in Operations, n \in 0..MaxIndexes : Begin(t, d, o, n)
      BY <2>1 DEF Next, Ended
    <3> QED BY <3>1, StepInv, CreateInv, DropInv, BeginInv
  <2>2. CASE UNCHANGED vars
    <3>1. TypeOK'
      BY <2>2 DEF vars, IInv, TypeOK
    <3> QED BY <2>2, <3>1 DEF vars, IInv, DriversOK, ThreadsOK, NoUseAfterFree,
               RefusedOnlyAfterClose, NoneMeansDestroyed, LeakedOnlyByClose,
               InstanceReclaimed, SafeDestroy
  <2> QED BY <2>1, <2>2
<1> QED BY <1>1, <1>2, PTL DEF Spec

\* The state is always well formed.
THEOREM TypeCorrect == Spec => []TypeOK
BY Invariance, PTL DEF IInv

\* However many threads use, close and drop a driver, no call ever works with
\* a pyeclib_t that was freed.
THEOREM NoCallUsesFreedMemory == Spec => []NoUseAfterFree
BY Invariance, PTL DEF IInv

\* A driver nobody closes refuses no call because of its handle, whatever
\* happens to the other drivers.
THEOREM OpenDriversServe == Spec => []RefusedOnlyAfterClose
BY Invariance, PTL DEF IInv

\* The handle becomes None only when the instance is gone, even if the library
\* sometimes refuses to destroy it.
THEOREM ClosedDriversKeepNoInstance == Spec => []NoneMeansDestroyed
BY Invariance, PTL DEF IInv

\* Buffers of liberasurecode are lost only to a close() in the middle of a call.
THEOREM BuffersLostOnlyByClose == Spec => []LeakedOnlyByClose
BY Invariance, PTL DEF IInv

\* Unless the library's lock fails, no instance outlives its pyeclib_t.
THEOREM InstancesReclaimed == ~LockMayFail => (Spec => []InstanceReclaimed)
<1> SUFFICES ASSUME ~LockMayFail PROVE Spec => []InstanceReclaimed
  OBVIOUS
<1>1. IInv => InstanceReclaimed
  BY DEF IInv
<1> QED BY <1>1, Invariance, PTL
=============================================================================
