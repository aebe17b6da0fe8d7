----------------------------- MODULE PackWheel ------------------------------
(***************************************************************************)
(* pack_wheel.py: builds a wheel in a temporary directory, unpacks it into *)
(* another one, puts the liberasurecode libraries inside and links the     *)
(* wheel's extensions to them, packs it again, has it repaired and moves   *)
(* it out.  Any step may raise, Ctrl-C may be pressed at any step, and the *)
(* program may be killed.                                                  *)
(*                                                                         *)
(* A library's contents are what the linker reads of it: the libraries it  *)
(* needs, under their system's or the wheel's name, and whether it has an  *)
(* rpath to those of the wheel.                                            *)
(***************************************************************************)
EXTENDS Naturals, FiniteSets

CONSTANTS
  Exts,       \* extensions a build may produce, one or more (PyPy: more)
  Platforms   \* of "glibc", "musl", "darwin"

VARIABLES
  stage,    \* the next step of the program
  opts,     \* command line and environment
  build,    \* the directory of build_wheel: "none", "there"
  wheel,    \* the wheel in it: a file, see below
  unpack,   \* the directory of repack_wheel
  tree,     \* its files
  allLibs,  \* all_libs
  record,   \* the RECORD of the unpacked wheel: a copy of the files it lists
  output,   \* the file in wheel_dir: a file
  faults    \* history: what went wrong at which step

wheelVars == <<stage, opts, build, wheel, unpack, tree, allLibs, record, output, faults>>

-----------------------------------------------------------------------------
\* The libraries that are put in the wheel, in the order they are injected.
Libs == <<"erasurecode", "nullcode", "Xorcode", "erasurecode_rs_vand", "isal">>
LibNames == {Libs[i] : i \in 1..5}

\* An extension is no library of these.
ASSUME ExtsAssumption == Exts \cap LibNames = {}

Sys(lib) == <<lib, "system">>
Own(lib) == <<lib, "wheel">>

\* External: extensions are linked to liberasurecode, it to the built-in
\* backends, which stand on their own.
SystemContents(lib) ==
  [needed |-> IF lib = "erasurecode"
                THEN {Sys("nullcode"), Sys("Xorcode"), Sys("erasurecode_rs_vand")}
                ELSE {},
   rpath  |-> FALSE]

BuiltTree(exts) == [e \in exts |-> [needed |-> {Sys("erasurecode")}, rpath |-> FALSE]]

\* A wheel on disk, no such file, or one that was not written to its end.
Packed(files, rec) ==
  [state |-> "whole", files |-> files, record |-> rec, repaired |-> FALSE]
NoFile == [Packed(<<>>, <<>>) EXCEPT !.state = "none"]
Torn   == [Packed(<<>>, <<>>) EXCEPT !.state = "torn"]

\* Mutant: the relocated liberasurecode keeps its own rpath.
WithRpathOfExts(files, some) ==
  [x \in DOMAIN files |->
     IF x \in some \cap Exts THEN [files[x] EXCEPT !.rpath = TRUE] ELSE files[x]]

\* update_rpath on some of the files.
WithRpath(files, some) ==
  [x \in DOMAIN files |-> IF x \in some THEN [files[x] EXCEPT !.rpath = TRUE] ELSE files[x]]

\* Mutant: the library that was relocated is not linked again later.
RelocatedAlone(libs, lib) == libs

\* all_libs.append(relocated)
Relocated(libs, lib) == libs \cup {lib}

\* inject_lib: the library is copied, and those moved before it get its new
\* name for the old one.
Injected(files, libs, lib) ==
  [x \in DOMAIN files \cup {lib} |->
     IF x = lib THEN SystemContents(lib)
     ELSE IF x \in libs /\ Sys(lib) \in files[x].needed
       THEN [files[x] EXCEPT !.needed = (@ \ {Sys(lib)}) \cup {Own(lib)}]
     ELSE files[x]]

\* maybe_add_needed, on the relocated liberasurecode.
WithNeeded(files, lib) ==
  IF opts.platform # "musl" THEN files
  ELSE [files EXCEPT !["erasurecode"].needed = @ \cup {Own(lib)}]

-----------------------------------------------------------------------------
WheelInit ==
  /\ stage = "build"
  /\ opts \in [platform: Platforms, repair: BOOLEAN, require_isal: BOOLEAN,
               root: BOOLEAN, across: BOOLEAN, exts: SUBSET Exts \ {{}}]
  /\ build = "none" /\ wheel = NoFile
  /\ unpack = "none" /\ tree = <<>> /\ allLibs = {} /\ record = <<>>
  /\ output = NoFile
  /\ faults = {}

BuildWheel ==
  /\ stage = "build"
  /\ build' = "there"
  /\ wheel' = Packed(BuiltTree(opts.exts), BuiltTree(opts.exts))
  /\ stage' = "unpack"
  /\ UNCHANGED <<opts, unpack, tree, allLibs, record, output, faults>>

\* repack_wheel up to the loop over the extensions, which is part of it.
Unpack ==
  /\ stage = "unpack"
  /\ unpack' = "there"
  /\ tree' = WithRpath(wheel.files, DOMAIN wheel.files)
  /\ allLibs' = DOMAIN wheel.files
  /\ record' = wheel.record
  /\ stage' = "erasurecode"
  /\ UNCHANGED <<opts, build, wheel, output, faults>>

\* The library injected after this one, or the step after the last.
NextStage(lib) ==
  IF lib = "isal" THEN "record"
  ELSE Libs[(CHOOSE i \in 1..4 : Libs[i] = lib) + 1]

\* relocate_libs, one library at a time.
InjectLib ==
  /\ stage \in LibNames
  /\ LET files == Injected(tree, allLibs, stage)
     IN tree' = CASE stage = "erasurecode" -> WithRpath(files, {stage})
                  [] stage \in {"erasurecode_rs_vand", "isal"} -> WithNeeded(files, stage)
                  [] OTHER -> files
  /\ allLibs' = Relocated(allLibs, stage)
  /\ stage' = NextStage(stage)
  /\ UNCHANGED <<opts, build, wheel, unpack, record, output, faults>>

\* There is no isal on this machine and none is required.
NoIsal ==
  /\ stage = "isal" /\ ~opts.require_isal
  /\ stage' = "record"
  /\ UNCHANGED <<opts, build, wheel, unpack, tree, allLibs, record, output, faults>>

rebuild_dist_info_record ==
  /\ stage = "record"
  /\ record' = tree
  /\ stage' = "zip"
  /\ UNCHANGED <<opts, build, wheel, unpack, tree, allLibs, output, faults>>

\* build_zip writes over the wheel it started from.
build_zip ==
  /\ stage = "zip"
  /\ wheel' = Packed(tree, record)
  /\ stage' = "remove unpacked"
  /\ UNCHANGED <<opts, build, unpack, tree, allLibs, record, output, faults>>

\* The finally of repack_wheel; then on, or to the finally of main.
RemoveUnpacked ==
  /\ stage = "remove unpacked"
  /\ unpack' = "none" /\ tree' = <<>>
  /\ stage' = IF faults = {} THEN "repair" ELSE "remove built"
  /\ UNCHANGED <<opts, build, wheel, allLibs, record, output, faults>>

\* External: auditwheel writes another wheel beside this one, with the tags of
\* the platform and a RECORD of its own; there is none for macOS.
repair_wheel ==
  /\ stage = "repair"
  /\ wheel' = IF opts.repair /\ opts.platform # "darwin"
                THEN [wheel EXCEPT !.repaired = TRUE] ELSE wheel
  /\ stage' = "move"
  /\ UNCHANGED <<opts, build, unpack, tree, allLibs, record, output, faults>>

Move ==
  /\ stage = "move"
  /\ output' = wheel
  /\ wheel' = NoFile
  /\ stage' = IF opts.root THEN "chown" ELSE "remove built"
  /\ UNCHANGED <<opts, build, unpack, tree, allLibs, record, faults>>

fix_ownership ==
  /\ stage = "chown"
  /\ stage' = "remove built"
  /\ UNCHANGED <<opts, build, wheel, unpack, tree, allLibs, record, output, faults>>

\* The finally of main.
RemoveBuilt ==
  /\ stage = "remove built"
  /\ build' = "none" /\ wheel' = NoFile
  /\ stage' = "ended"
  /\ UNCHANGED <<opts, unpack, tree, allLibs, record, output, faults>>

-----------------------------------------------------------------------------
(* Failures.                                                               *)

Unpacked == LibNames \cup {"record", "zip"}
Removing == {"remove unpacked", "remove built"}
Stages   == Unpacked \cup Removing \cup {"build", "unpack", "repair", "move", "chown", "ended"}

\* A step that does not finish may leave half a file where it writes one:
\* moving within a file system does not.
HalfDone ==
  /\ wheel'  \in {wheel} \cup (IF stage = "zip" THEN {Torn} ELSE {})
  /\ output' \in {output} \cup (IF stage = "move" /\ opts.across THEN {Torn} ELSE {})

\* Mutant: an error in relocate_libs goes straight to the finally of main.
CleanupPastUnpacked(kind) ==
  CASE stage = "build" -> "ended" [] stage = "remove built" -> "ended" [] OTHER -> "remove built"

\* Where an exception raised at a step continues.
Cleanup(kind) ==
  CASE stage \in {"build", "remove built"}   -> "ended"
    [] stage \in Unpacked                    -> "remove unpacked"
    [] OTHER                                 -> "remove built"

\* An Exception or a KeyboardInterrupt; build_wheel removes its directory for
\* the first only.  Nothing is left of a directory whose removal fails but it.
Raise ==
  /\ stage # "ended"
  /\ \E kind \in {"Exception", "KeyboardInterrupt"} :
       /\ faults' = faults \cup {<<stage, kind>>}
       /\ stage' = Cleanup(kind)
       /\ build' = IF stage = "build"
                     THEN IF kind = "Exception" THEN "none" ELSE "there"
                     ELSE build
  /\ unpack' = IF stage = "unpack" THEN "none" ELSE unpack
  /\ HalfDone
  /\ UNCHANGED <<opts, tree, allLibs, record>>

\* SIGKILL or a power cut.
Kill ==
  /\ stage # "ended"
  /\ faults' = faults \cup {<<stage, "killed">>}
  /\ stage' = "ended"
  /\ build'  = IF stage = "build" THEN "there" ELSE build
  /\ unpack' = IF stage = "unpack" THEN "there" ELSE unpack
  /\ HalfDone
  /\ UNCHANGED <<opts, tree, allLibs, record>>

WheelNext ==
  \/ BuildWheel \/ Unpack \/ InjectLib \/ NoIsal
  \/ rebuild_dist_info_record \/ build_zip \/ RemoveUnpacked
  \/ repair_wheel \/ Move \/ fix_ownership \/ RemoveBuilt
  \/ Raise \/ Kill

WheelSpec == WheelInit /\ [][WheelNext]_wheelVars

-----------------------------------------------------------------------------
(* Properties.                                                             *)

WheelTypeOK ==
  /\ stage \in Stages
  /\ {build, unpack} \subseteq {"none", "there"}
  /\ stage \in Unpacked =>
       unpack = "there" /\ allLibs = DOMAIN tree /\ allLibs \subseteq Exts \cup LibNames

\* A wheel that can be imported without a library of the system: all it links
\* to is inside, under the wheel's names and found, and RECORD lists just this.
SelfContained(o, w) ==
  LET needed(x) == w.files[x].needed
  IN /\ \A i \in 1..4 : Libs[i] \in DOMAIN w.files
     /\ o.require_isal => "isal" \in DOMAIN w.files
     /\ o.exts \subseteq DOMAIN w.files
     /\ \A x \in DOMAIN w.files :
          /\ needed(x) \subseteq {Own(lib) : lib \in DOMAIN w.files \cap LibNames}
          /\ needed(x) # {} => w.files[x].rpath
     /\ w.record = w.files
     /\ o.repair /\ o.platform # "darwin" => w.repaired

\* A wheel in wheel_dir is self-contained, whatever failed, unless it was being
\* copied there from another file system; and there is one when the program
\* exits with 0 (pack_wheel.py:357-369).
WheelComplete ==
  /\ output.state = "whole" => SelfContained(opts, output)
  /\ output.state = "torn" => opts.across /\ \E f \in faults : f[1] = "move"
  /\ stage = "ended" /\ faults = {} => output.state = "whole"

\* No temporary directory outlives the program, unless it was killed, could not
\* remove it, or was interrupted while building: build_wheel cleans up after an
\* Exception, which a KeyboardInterrupt is not (pack_wheel.py:131-133).
TempLeftOnlyIfInterrupted ==
  stage = "ended" /\ "there" \in {build, unpack} =>
    \E f \in faults : \/ f[2] = "killed"
                      \/ f[1] \in Removing
                      \/ f = <<"build", "KeyboardInterrupt">>
=============================================================================
