--------------------------- MODULE ValidateStderr ---------------------------
(***************************************************************************)
(* pyeclib_c.init(..., validate=True) points the process's stderr at       *)
(* /dev/null while liberasurecode looks for the backend, and back again.   *)
(* The descriptor it saves stderr in is kept in a static variable.         *)
(*                                                                         *)
(* Validators are Python threads in such a call; the program's other       *)
(* threads open and close files of their own meanwhile.  They do so even   *)
(* under the GIL, which Python gives up around open() and close().  A      *)
(* thread that sets a pyeclib exception may lose the GIL to another one    *)
(* when that runs Python code.                                             *)
(***************************************************************************)
CONSTANTS
  Validators,        \* threads that call init() with validate
  Openers,           \* threads that open and close a file each
  Fds,               \* file descriptors other than stderr's, 2
  GilDisabled,       \* the GIL is off: C code of two threads interleaves
  ErrorsRunPython,   \* setting an exception runs its Python __init__ at once
                     \* (exceptions.py:32), as from Python 3.12 on
  None               \* no descriptor: -1

ASSUME StderrAssumption ==
  /\ GilDisabled \in BOOLEAN
  /\ ErrorsRunPython \in BOOLEAN
  /\ None \notin Fds
  /\ Validators \cap Openers = {}
  /\ {"log", "null", "closed"} \cap Openers = {}

VARIABLES
  stderr,     \* what descriptor 2 refers to: the program's "log" or "null"
              \* or the file of an opener
  table,      \* [Fds -> ...] what the other descriptors refer to
  stderr_fd,  \* the static variable
  pc,         \* [Validators -> ...] where in init() the thread is
  mine        \* [Openers -> ...] the descriptor of the thread's open file

vars == <<stderr, table, stderr_fd, pc, mine>>

Opened == {"log", "null"} \cup Openers

Free == {f \in Fds : table[f] = "closed"}

\* What dup2() and dup() copy: nothing through a descriptor that is not open.
RefersTo(f) == IF f = None THEN "closed" ELSE table[f]

\* The GIL is held from one end of init() to the other, but for Python code
\* that the error path may run.
InC(v) == pc[v] \notin (IF ErrorsRunPython THEN {"idle", "seterr"} ELSE {"idle"})

CanRun(v) == GilDisabled \/ \A w \in Validators \ {v} : ~InC(w)

At(v, step) == pc[v] = step /\ CanRun(v)

GoTo(v, step) == pc' = [pc EXCEPT ![v] = step]

-----------------------------------------------------------------------------
Init ==
  /\ stderr = "log"
  /\ table = [f \in Fds |-> "closed"]
  /\ stderr_fd = None
  /\ pc = [v \in Validators |-> "idle"]
  /\ mine = [o \in Openers |-> None]

\* redirect_stderr(): dup() saves stderr in a free descriptor, if there is one,
\* and its number in the static variable ...
Save(v) ==
  /\ At(v, "idle")
  /\ \/ \E f \in Free :
          /\ table' = [table EXCEPT ![f] = stderr]
          /\ stderr_fd' = f
     \/ Free = {} /\ stderr_fd' = None /\ UNCHANGED table
  /\ GoTo(v, "freopen")
  /\ UNCHANGED <<stderr, mine>>

\* Mutant: freopen() finds no /dev/null and leaves stderr closed.
RedirectFailing(v) ==
  /\ At(v, "freopen")
  /\ stderr' \in {"null", "closed"}
  /\ GoTo(v, "create")
  /\ UNCHANGED <<table, stderr_fd, mine>>

\* ... and freopen() points stderr at /dev/null.
Redirect(v) ==
  /\ At(v, "freopen")
  /\ stderr' = "null"
  /\ GoTo(v, "create")
  /\ UNCHANGED <<table, stderr_fd, mine>>

\* Mutant: an init() that fails returns without the restore.
CreateReturning(v) ==
  /\ At(v, "create")
  /\ GoTo(v, "restore") \/ GoTo(v, "idle")
  /\ UNCHANGED <<stderr, table, stderr_fd, mine>>

\* Mutant: the error path closes the saved descriptor before the restore.
CreateClosing(v) ==
  /\ At(v, "create")
  /\ \/ GoTo(v, "restore") /\ UNCHANGED table
     \/ /\ GoTo(v, "seterr")
        /\ table' = [f \in Fds |-> IF f = stderr_fd THEN "closed" ELSE table[f]]
  /\ UNCHANGED <<stderr, stderr_fd, mine>>

\* liberasurecode_instance_create() makes the instance, or does not know the
\* backend or its library; then pyeclib_c_seterr() sets the exception.
Create(v) ==
  /\ At(v, "create")
  /\ GoTo(v, "restore") \/ GoTo(v, "seterr")
  /\ UNCHANGED <<stderr, table, stderr_fd, mine>>

SetErr(v) ==
  /\ At(v, "seterr")
  /\ GoTo(v, "restore")
  /\ UNCHANGED <<stderr, table, stderr_fd, mine>>

\* Mutant: restore_stderr() closes stderr_fd and then copies it back.
RestoreClosed(v) ==
  /\ At(v, "restore")
  /\ table' = [f \in Fds |-> IF f = stderr_fd THEN "closed" ELSE table[f]]
  /\ GoTo(v, "close")
  /\ UNCHANGED <<stderr, stderr_fd, mine>>

\* restore_stderr(): dup2() copies the saved descriptor back, unless that one
\* is not open, ...
Restore(v) ==
  /\ At(v, "restore")
  /\ stderr' = IF RefersTo(stderr_fd) = "closed" THEN stderr ELSE RefersTo(stderr_fd)
  /\ GoTo(v, "close")
  /\ UNCHANGED <<table, stderr_fd, mine>>

\* Mutant: the saved descriptor stays open.
CloseNothing(v) ==
  /\ At(v, "close")
  /\ GoTo(v, "idle")
  /\ UNCHANGED <<stderr, table, stderr_fd, mine>>

\* ... and close() gives it up.
CloseSaved(v) ==
  /\ At(v, "close")
  /\ table' = [f \in Fds |-> IF f = stderr_fd THEN "closed" ELSE table[f]]
  /\ GoTo(v, "idle")
  /\ UNCHANGED <<stderr, stderr_fd, mine>>

-----------------------------------------------------------------------------
(* The rest of the program. *)

OpenFile(o) ==
  /\ mine[o] = None
  /\ \E f \in Free : /\ mine'  = [mine EXCEPT ![o] = f]
                     /\ table' = [table EXCEPT ![f] = o]
  /\ UNCHANGED <<stderr, stderr_fd, pc>>

CloseFile(o) ==
  /\ mine[o] # None
  /\ table' = [table EXCEPT ![mine[o]] = "closed"]
  /\ mine'  = [mine EXCEPT ![o] = None]
  /\ UNCHANGED <<stderr, stderr_fd, pc>>

\* A call of init(), once begun, from one step to the next.
Proceed(v) ==
  Redirect(v) \/ Create(v) \/ SetErr(v) \/ Restore(v) \/ CloseSaved(v)

Next ==
  \/ \E v \in Validators : Save(v) \/ Proceed(v)
  \/ \E o \in Openers : OpenFile(o) \/ CloseFile(o)

Spec == Init /\ [][Next]_vars

\* A thread that can run does, sooner or later, however others contend for the
\* GIL.
FairSpec == Spec /\ \A v \in Validators : SF_vars(Proceed(v))

-----------------------------------------------------------------------------
(* Properties.                                                             *)

\* The state is well formed.
TypeOK ==
  /\ stderr \in Opened
  /\ table \in [Fds -> Opened \cup {"closed"}]
  /\ stderr_fd \in Fds \cup {None}
  /\ pc \in [Validators -> {"idle", "freopen", "create", "seterr", "restore", "close"}]
  /\ mine \in [Openers -> Fds \cup {None}]

Quiet == \A v \in Validators : pc[v] = "idle"

\* Validating only validates (pyeclib_c.c:217): when no init() is under way,
\* stderr is where the program had it.
StderrRestored == Quiet => stderr = "log"

\* When no init() is under way, the only open descriptors are the program's.
NoDescriptorLost ==
  Quiet => \A f \in Fds : table[f] # "closed" => \E o \in Openers : mine[o] = f

\* No init() closes a descriptor that another thread has opened, or writes to
\* its file.
OthersFilesKept ==
  /\ \A o \in Openers : mine[o] # None => table[mine[o]] = o
  /\ stderr \notin Openers

\* Whatever becomes of the validation, stderr comes back.
RedirectionEnds == stderr = "null" ~> stderr = "log"
=============================================================================
