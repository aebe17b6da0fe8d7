------------------------ MODULE ValidateStderrProofs ------------------------
(***************************************************************************)
(* Proofs about ValidateStderr: its state is always well formed; and where *)
(* the GIL is held through init() and a descriptor is free to save stderr  *)
(* in, stderr comes back, nothing stays open and nobody else's file is     *)
(* touched, for any number of threads and descriptors.                     *)
(***************************************************************************)
EXTENDS ValidateStderr, TLAPS

\* The GIL is held from one end of init() to the other.
GilHeld == ~GilDisabled /\ ~ErrorsRunPython

\* The other threads do not hold all descriptors.
DescriptorsLeft ==
  \A held \in [Openers -> Fds \cup {None}] : \E f \in Fds : \A o \in Openers : held[o] # f

\* At most one thread is in init().
OneInside == \A v, w \in Validators : pc[v] # "idle" /\ pc[w] # "idle" => v = w

\* Openers have what they opened.
OpenersHave == \A o \in Openers : mine[o] # None => table[mine[o]] = o

\* Nothing is open but the openers' files and the descriptor that saves stderr.
NothingElseOpen ==
  \A f \in Fds : table[f] # "closed" =>
    \/ \E o \in Openers : mine[o] = f
    \/ ~Quiet /\ f = stderr_fd

\* Where stderr is, and its copy, as the call goes on.
Saved ==
  /\ Quiet => stderr = "log"
  /\ ~Quiet => stderr_fd \in Fds /\ table[stderr_fd] = "log"
  /\ \A v \in Validators :
       stderr = IF pc[v] \in {"create", "seterr", "restore"} THEN "null"
                ELSE IF pc[v] = "idle" THEN stderr ELSE "log"

SInv == TypeOK /\ OneInside /\ OpenersHave /\ NothingElseOpen /\ Saved

-----------------------------------------------------------------------------
\* Types do not depend on the GIL.
LEMMA TypeInit == Init => TypeOK
BY StderrAssumption DEF Init, TypeOK, Opened

LEMMA TypeStep == TypeOK /\ [Next]_vars => TypeOK'
<1> SUFFICES ASSUME TypeOK, [Next]_vars PROVE TypeOK'
  OBVIOUS
<1> USE DEF TypeOK, Opened
<1>1. ASSUME NEW v \in Validators, Save(v) PROVE TypeOK'
  BY <1>1 DEF Save, At, GoTo, Free
<1>2. ASSUME NEW v \in Validators, Proceed(v) PROVE TypeOK'
  <2>1. CASE Redirect(v)
    BY <2>1 DEF Redirect, At, GoTo
  <2>2. CASE Create(v) \/ SetErr(v)
    BY <2>2 DEF Create, SetErr, At, GoTo
  <2>3. CASE Restore(v)
    BY <2>3 DEF Restore, At, GoTo, RefersTo
  <2>4. CASE CloseSaved(v)
    BY <2>4 DEF CloseSaved, At, GoTo
  <2>5. QED
    BY <1>2, <2>1, <2>2, <2>3, <2>4 DEF Proceed
<1>3. ASSUME NEW o \in Openers, OpenFile(o) \/ CloseFile(o) PROVE TypeOK'
  BY <1>3 DEF OpenFile, CloseFile, Free
<1>4. CASE UNCHANGED vars
  BY <1>4 DEF vars
<1>5. QED
  BY <1>1, <1>2, <1>3, <1>4 DEF Next

-----------------------------------------------------------------------------
\* Whoever runs under the GIL is alone inside.
LEMMA AloneInside ==
  ASSUME GilHeld, TypeOK, NEW v \in Validators, CanRun(v)
  PROVE  \A w \in Validators \ {v} : pc[w] = "idle"
BY DEF GilHeld, CanRun, InC

\* Before a call no opener's descriptor is free, and some descriptor is.
LEMMA SomeFree ==
  ASSUME DescriptorsLeft, SInv, Quiet
  PROVE  Free # {}
<1>1. PICK f \in Fds : \A o \in Openers : mine[o] # f
  BY DEF DescriptorsLeft, SInv, TypeOK
<1>2. table[f] = "closed"
  BY <1>1 DEF SInv, NothingElseOpen
<1>3. QED
  BY <1>1, <1>2 DEF Free

LEMMA SaveStep ==
  ASSUME GilHeld, DescriptorsLeft, SInv, NEW v \in Validators, Save(v)
  PROVE  SInv'
<1>1. Quiet
  BY AloneInside DEF SInv, Save, At, Quiet
<1>2. PICK f \in Free : table' = [table EXCEPT ![f] = stderr] /\ stderr_fd' = f
  BY <1>1, SomeFree DEF Save
<1>3. /\ pc' = [pc EXCEPT ![v] = "freopen"] /\ stderr' = stderr /\ mine' = mine
      /\ stderr = "log" /\ f \in Fds /\ table[f] = "closed"
      /\ TypeOK
  BY <1>1, <1>2 DEF Save, GoTo, SInv, Saved, Free
<1>4. TypeOK'
  BY TypeStep DEF SInv, Next
<1>5. pc'[v] = "freopen" /\ \A w \in Validators \ {v} : pc'[w] = "idle"
  BY <1>1, <1>3 DEF TypeOK, Quiet
<1>6. OneInside'
  BY <1>5 DEF OneInside
<1>7. ~Quiet'
  BY <1>5 DEF Quiet
<1>8. table'[f] = "log" /\ \A g \in Fds \ {f} : table'[g] = table[g]
  BY <1>2, <1>3 DEF TypeOK
<1>9. OpenersHave'
  <2>1. ASSUME NEW o \in Openers, mine[o] # None PROVE table'[mine[o]] = o
    <3>1. table[mine[o]] = o /\ mine[o] \in Fds /\ o # "closed"
      BY <2>1, <1>3, StderrAssumption DEF SInv, OpenersHave, TypeOK
    <3>2. QED
      BY <3>1, <1>3, <1>8
  <2>2. QED
    BY <1>3, <2>1 DEF OpenersHave
<1>10. NothingElseOpen'
  BY <1>1, <1>2, <1>3, <1>7, <1>8 DEF NothingElseOpen, SInv
<1>11. Saved'
  BY <1>2, <1>3, <1>5, <1>7, <1>8 DEF Saved
<1>12. QED
  BY <1>4, <1>6, <1>9, <1>10, <1>11 DEF SInv

\* One step of the thread that is inside.
LEMMA ProceedStep ==
  ASSUME GilHeld, SInv, NEW v \in Validators, Proceed(v)
  PROVE  SInv'
<1>1. TypeOK /\ TypeOK'
  BY TypeStep DEF SInv, Next
<1>2. CanRun(v) /\ pc[v] # "idle"
  BY DEF Proceed, Redirect, Create, SetErr, Restore, CloseSaved, At
<1>3. \A w \in Validators \ {v} : pc[w] = "idle"
  BY <1>1, <1>2, AloneInside
<1>4. \A w \in Validators \ {v} : pc'[w] = "idle"
  BY <1>1, <1>3 DEF TypeOK, Proceed, Redirect, Create, SetErr, Restore, CloseSaved, GoTo
<1>5. OneInside'
  BY <1>4 DEF OneInside
<1>6. ~Quiet /\ (Quiet' <=> pc'[v] = "idle")
  BY <1>2, <1>4 DEF Quiet
<1>7. stderr_fd \in Fds /\ table[stderr_fd] = "log" /\ stderr_fd # None
  BY <1>6, StderrAssumption DEF SInv, Saved
<1>8. UNCHANGED <<stderr_fd, mine>>
  BY DEF Proceed, Redirect, Create, SetErr, Restore, CloseSaved
<1>9. CASE CloseSaved(v)
  <2>1. /\ \A g \in Fds \ {stderr_fd} : table'[g] = table[g]
        /\ table'[stderr_fd] = "closed" /\ pc'[v] = "idle" /\ stderr' = "log"
    BY <1>1, <1>7, <1>9 DEF CloseSaved, At, GoTo, TypeOK, SInv, Saved
  <2>2. \A o \in Openers : mine[o] # stderr_fd
    BY <1>7, StderrAssumption DEF SInv, OpenersHave
  <2>3. OpenersHave'
    BY <1>1, <1>8, <2>1, <2>2 DEF SInv, OpenersHave, TypeOK
  <2>4. NothingElseOpen'
    BY <1>8, <2>1 DEF SInv, NothingElseOpen
  <2>5. Saved'
    BY <1>4, <1>6, <2>1 DEF Saved
  <2>6. QED
    BY <1>1, <1>5, <2>3, <2>4, <2>5 DEF SInv
<1>10. CASE ~CloseSaved(v)
  <2>1. table' = table /\ pc'[v] # "idle"
    BY <1>1, <1>10 DEF Proceed, Redirect, Create, SetErr, Restore, GoTo, TypeOK
  <2>2. OpenersHave' /\ NothingElseOpen'
    BY <1>6, <1>8, <2>1 DEF SInv, OpenersHave, NothingElseOpen
  <2>3. stderr' = IF pc'[v] \in {"create", "seterr", "restore"} THEN "null" ELSE "log"
    <3>1. CASE Redirect(v)
      BY <1>1, <3>1 DEF Redirect, GoTo, TypeOK
    <3>2. CASE Create(v) \/ SetErr(v)
      BY <1>1, <3>2 DEF Create, SetErr, At, GoTo, TypeOK, SInv, Saved
    <3>3. CASE Restore(v)
      BY <1>1, <1>7, <3>3 DEF Restore, GoTo, TypeOK, RefersTo
    <3>4. QED
      BY <1>10, <3>1, <3>2, <3>3 DEF Proceed
  <2>4. Saved'
    BY <1>4, <1>6, <1>7, <1>8, <2>1, <2>3 DEF Saved
  <2>5. QED
    BY <1>1, <1>5, <2>2, <2>4 DEF SInv
<1>11. QED
  BY <1>9, <1>10

\* What the program's other threads do with their files.
LEMMA OpenerStep ==
  ASSUME SInv, NEW o \in Openers, OpenFile(o) \/ CloseFile(o)
  PROVE  SInv'
<1>1. TypeOK /\ TypeOK'
  BY TypeStep DEF SInv, Next
<1>2. UNCHANGED <<stderr, stderr_fd, pc>>
  BY DEF OpenFile, CloseFile
<1>3. OneInside' /\ (Quiet' <=> Quiet)
  BY <1>2 DEF SInv, OneInside, Quiet
<1>4. o \notin {"log", "null", "closed"} /\ None \notin Fds
  BY StderrAssumption
<1>5. CASE OpenFile(o)
  <2>1. PICK f \in Fds : /\ table[f] = "closed"
                         /\ mine' = [mine EXCEPT ![o] = f]
                         /\ table' = [table EXCEPT ![f] = o]
    BY <1>5 DEF OpenFile, Free
  <2>2. /\ mine'[o] = f /\ \A p \in Openers \ {o} : mine'[p] = mine[p]
        /\ table'[f] = o /\ \A g \in Fds \ {f} : table'[g] = table[g]
        /\ mine[o] = None
    BY <1>1, <1>5, <2>1 DEF TypeOK, OpenFile
  <2>3. \A p \in Openers : mine[p] # None => mine[p] \in Fds \ {f}
    BY <1>1, <2>1, StderrAssumption DEF TypeOK, SInv, OpenersHave
  <2>4. OpenersHave'
    BY <2>2, <2>3 DEF SInv, OpenersHave
  <2>5. NothingElseOpen'
    BY <1>2, <1>3, <1>4, <2>1, <2>2 DEF SInv, NothingElseOpen
  <2>6. Saved'
    BY <1>2, <1>3, <2>1, <2>2 DEF SInv, Saved
  <2>7. QED
    BY <1>1, <1>3, <2>4, <2>5, <2>6 DEF SInv
<1>6. CASE CloseFile(o)
  <2>1. /\ mine[o] \in Fds /\ table[mine[o]] = o
        /\ mine'[o] = None /\ \A p \in Openers \ {o} : mine'[p] = mine[p]
        /\ table'[mine[o]] = "closed" /\ \A g \in Fds \ {mine[o]} : table'[g] = table[g]
    BY <1>1, <1>6 DEF CloseFile, TypeOK, SInv, OpenersHave
  <2>2. \A p \in Openers \ {o} : mine[p] # mine[o]
    BY <2>1, <1>4 DEF SInv, OpenersHave
  <2>3. OpenersHave'
    BY <1>1, <2>1, <2>2 DEF SInv, OpenersHave, TypeOK
  <2>4. NothingElseOpen'
    BY <1>2, <1>3, <2>1 DEF SInv, NothingElseOpen
  <2>5. Saved'
    BY <1>2, <1>3, <1>4, <2>1 DEF SInv, Saved
  <2>6. QED
    BY <1>1, <1>3, <2>3, <2>4, <2>5 DEF SInv
<1>7. QED
  BY <1>5, <1>6

LEMMA InitSInv == Init => SInv
BY TypeInit DEF Init, SInv, OneInside, OpenersHave, NothingElseOpen, Saved, Quiet

-----------------------------------------------------------------------------
\* The state is well formed, with and without the GIL.
THEOREM StderrTypes == Spec => []TypeOK
BY TypeInit, TypeStep, PTL DEF Spec

\* The inductive invariant under the GIL.
THEOREM StderrInvariance == GilHeld /\ DescriptorsLeft => (Spec => []SInv)
<1> SUFFICES ASSUME GilHeld, DescriptorsLeft PROVE Spec => []SInv
  OBVIOUS
<1>1. SInv /\ [Next]_vars => SInv'
  <2> SUFFICES ASSUME SInv, [Next]_vars PROVE SInv'
    OBVIOUS
  <2>1. CASE UNCHANGED vars
    BY <2>1 DEF vars, SInv, TypeOK, OneInside, OpenersHave, NothingElseOpen, Saved, Quiet
  <2>2. QED
    BY <2>1, SaveStep, ProceedStep, OpenerStep DEF Next
<1>2. QED
  BY <1>1, InitSInv, PTL DEF Spec

\* Under the GIL stderr is back when no init() is under way (pyeclib_c.c:217):
\* the static descriptor is then always that of the one call inside.
THEOREM StderrComesBack == GilHeld /\ DescriptorsLeft => (Spec => []StderrRestored)
<1> SUFFICES ASSUME GilHeld, DescriptorsLeft PROVE Spec => []StderrRestored
  OBVIOUS
<1>1. SInv => StderrRestored
  BY DEF SInv, Saved, StderrRestored
<1>2. QED
  BY <1>1, StderrInvariance, PTL

\* And no descriptor stays open.
THEOREM DescriptorsComeBack == GilHeld /\ DescriptorsLeft => (Spec => []NoDescriptorLost)
<1> SUFFICES ASSUME GilHeld, DescriptorsLeft PROVE Spec => []NoDescriptorLost
  OBVIOUS
<1>1. SInv => NoDescriptorLost
  BY DEF SInv, NothingElseOpen, NoDescriptorLost
<1>2. QED
  BY <1>1, StderrInvariance, PTL

\* Nor is a file of another thread closed or written to: close() is called with
\* the number that the same call saved (pyeclib_c.c:203).
THEOREM OthersFilesAreKept == GilHeld /\ DescriptorsLeft => (Spec => []OthersFilesKept)
<1> SUFFICES ASSUME GilHeld, DescriptorsLeft PROVE Spec => []OthersFilesKept
  OBVIOUS
<1>1. SInv => OthersFilesKept
  <2> SUFFICES ASSUME SInv PROVE OthersFilesKept
    OBVIOUS
  <2>1. stderr \in {"log", "null"}
    BY DEF SInv, Saved, Quiet
  <2>2. QED
    BY <2>1, StderrAssumption DEF SInv, OpenersHave, OthersFilesKept
<1>2. QED
  BY <1>1, StderrInvariance, PTL
=============================================================================
