-------------------------- MODULE PackWheelProofs ---------------------------
(***************************************************************************)
(* Proofs about PackWheel: its type invariant, that a wheel which leaves   *)
(* the program is self-contained, and that no temporary directory stays    *)
(* behind without a reason, for every set of extensions and platforms.     *)
(***************************************************************************)
EXTENDS PackWheel, TLAPS

\* The stages at which nothing has gone wrong yet.
Sound == Unpacked \cup {"build", "unpack", "repair", "move", "chown"}

Four == {"erasurecode", "nullcode", "Xorcode", "erasurecode_rs_vand"}

\* The four libraries that are in the wheel by then.
Before(s) ==
  CASE s = "erasurecode"         -> {}
    [] s = "nullcode"            -> {"erasurecode"}
    [] s = "Xorcode"             -> {"erasurecode", "nullcode"}
    [] s = "erasurecode_rs_vand" -> {"erasurecode", "nullcode", "Xorcode"}
    [] OTHER                     -> Four

Refs == LibNames \X {"system", "wheel"}
Contents == [needed: SUBSET Refs, rpath: BOOLEAN]

\* What is linked to a library inside is linked to it by its new name.
Linked(files) ==
  \A x \in DOMAIN files :
    /\ \A lib \in LibNames :
         /\ Sys(lib) \in files[x].needed => lib \in Four \ DOMAIN files
         /\ Own(lib) \in files[x].needed => lib \in DOMAIN files
    /\ files[x].needed # {} => files[x].rpath
    /\ x = "erasurecode" => files[x].rpath

TreeOK ==
  stage \in Unpacked =>
    /\ tree \in [DOMAIN tree -> Contents]
    /\ allLibs = DOMAIN tree
    /\ opts.exts \subseteq DOMAIN tree /\ DOMAIN tree \subseteq opts.exts \cup LibNames
    /\ DOMAIN tree \cap Four = Before(stage)
    /\ stage \in Four \cup {"isal"} => "isal" \notin DOMAIN tree
    /\ stage \in {"record", "zip"} /\ opts.require_isal => "isal" \in DOMAIN tree
    /\ Linked(tree)
    /\ stage = "zip" => record = tree

\* The wheel that was built, the one that was packed, and where it goes.
FilesOK ==
  /\ stage = "unpack" =>
       wheel.files = BuiltTree(opts.exts) /\ wheel.record = BuiltTree(opts.exts)
  /\ stage \in {"remove unpacked", "repair"} /\ faults = {} =>
       wheel.state = "whole" /\ SelfContained(opts, [wheel EXCEPT !.repaired = TRUE])
  /\ stage = "move" => wheel.state = "whole" /\ SelfContained(opts, wheel)
  /\ output.state = "whole" => SelfContained(opts, output)
  /\ output.state = "torn" => opts.across /\ \E f \in faults : f[1] = "move"
  /\ stage = "chown" => output.state = "whole"
  /\ stage \in {"remove built", "ended"} /\ faults = {} => output.state = "whole"

\* Why a directory is there.
Excused(s) ==
  \E f \in faults : \/ f[2] = "killed"
                    \/ f[1] \in Removing
                    \/ s = "build" /\ f = <<"build", "KeyboardInterrupt">>
DirsOK ==
  /\ stage \in Unpacked => unpack = "there"
  /\ unpack = "there" => stage \in Unpacked \cup {"remove unpacked"} \/ Excused("unpack")
  /\ build = "there" /\ stage = "ended" => Excused("build")

WInv ==
  /\ stage \in Stages /\ {build, unpack} \subseteq {"none", "there"}
  /\ opts.exts \subseteq Exts
  /\ stage \in Sound => faults = {}
  /\ TreeOK /\ FilesOK /\ DirsOK

-----------------------------------------------------------------------------
\* The names of the libraries, and that the next stage of each is the next of
\* the list.
LEMMA LibNamesAre ==
  /\ LibNames = Four \cup {"isal"}
  /\ NextStage("erasurecode") = "nullcode"
  /\ NextStage("nullcode") = "Xorcode"
  /\ NextStage("Xorcode") = "erasurecode_rs_vand"
  /\ NextStage("erasurecode_rs_vand") = "isal"
  /\ NextStage("isal") = "record"
<1>1. LibNames = Four \cup {"isal"}
  BY DEF LibNames, Libs, Four
<1>2. \A i \in 1..4 : /\ Libs[i] = "erasurecode" => i = 1
                      /\ Libs[i] = "nullcode" => i = 2
                      /\ Libs[i] = "Xorcode" => i = 3
                      /\ Libs[i] = "erasurecode_rs_vand" => i = 4
  BY DEF Libs
<1>3. /\ (CHOOSE i \in 1..4 : Libs[i] = "erasurecode") = 1
      /\ (CHOOSE i \in 1..4 : Libs[i] = "nullcode") = 2
      /\ (CHOOSE i \in 1..4 : Libs[i] = "Xorcode") = 3
      /\ (CHOOSE i \in 1..4 : Libs[i] = "erasurecode_rs_vand") = 4
  BY <1>2, Libs[1] = "erasurecode", Libs[2] = "nullcode", Libs[3] = "Xorcode",
     Libs[4] = "erasurecode_rs_vand" DEF Libs
<1>4. QED
  BY <1>1, <1>3 DEF NextStage, Libs

LEMMA SystemContentsAre ==
  \A lib \in LibNames :
    /\ SystemContents(lib) \in Contents
    /\ lib # "erasurecode" => SystemContents(lib).needed = {}
    /\ \A l \in LibNames : /\ Own(l) \notin SystemContents(lib).needed
                           /\ Sys(l) \in SystemContents(lib).needed =>
                                l \in Four \ {"erasurecode"}
<1>1. \A l : Sys(l) = <<l, "system">> /\ Own(l) = <<l, "wheel">>
  BY DEF Sys, Own
<1>2. {Sys("nullcode"), Sys("Xorcode"), Sys("erasurecode_rs_vand")} \in SUBSET Refs
  BY <1>1, LibNamesAre DEF Refs, Four
<1>3. QED
  BY <1>1, <1>2 DEF SystemContents, Contents, Four

\* What inject_lib makes of linked files: a name is replaced wherever it was
\* needed, and of the new file's own names none is that of a file inside.
LEMMA InjectedIsLinked ==
  ASSUME NEW files, files \in [DOMAIN files -> Contents], Linked(files),
         NEW lib \in LibNames, lib \notin DOMAIN files,
         lib = "erasurecode" => DOMAIN files \cap Four = {}
  PROVE  /\ Injected(files, DOMAIN files, lib) \in [DOMAIN files \cup {lib} -> Contents]
         /\ lib # "erasurecode" => Linked(Injected(files, DOMAIN files, lib))
         /\ lib = "erasurecode" =>
              Linked(WithRpath(Injected(files, DOMAIN files, lib), {lib}))
<1> DEFINE g == Injected(files, DOMAIN files, lib)
           D == DOMAIN files \cup {lib}
<1>1. /\ DOMAIN g = D
      /\ g[lib] = SystemContents(lib)
      /\ \A x \in DOMAIN files :
           g[x] = IF Sys(lib) \in files[x].needed
                    THEN [files[x] EXCEPT !.needed = (@ \ {Sys(lib)}) \cup {Own(lib)}]
                    ELSE files[x]
  BY DEF Injected
<1>2. /\ \A l, m : Sys(l) # Own(m)
      /\ \A l, m : Sys(l) = Sys(m) => l = m
      /\ \A l, m : Own(l) = Own(m) => l = m
      /\ Own(lib) \in Refs
  BY DEF Sys, Own, Refs
<1>3. ASSUME NEW x \in DOMAIN files
      PROVE  /\ g[x] \in Contents
             /\ g[x].rpath = files[x].rpath
             /\ g[x].needed = {} <=> files[x].needed = {}
             /\ \A l \in LibNames :
                  /\ Sys(l) \in g[x].needed => Sys(l) \in files[x].needed /\ l # lib
                  /\ Own(l) \in g[x].needed => Own(l) \in files[x].needed \/ l = lib
  <2>1. files[x] \in Contents
    OBVIOUS
  <2>2. CASE Sys(lib) \in files[x].needed
    <3>1. g[x] = [needed |-> (files[x].needed \ {Sys(lib)}) \cup {Own(lib)},
                  rpath  |-> files[x].rpath]
      BY <1>1, <2>1, <2>2 DEF Contents
    <3>2. QED
      BY <1>2, <2>1, <2>2, <3>1 DEF Contents
  <2>3. CASE Sys(lib) \notin files[x].needed
    <3>1. g[x] = files[x]
      BY <1>1, <2>3
    <3>2. QED
      BY <1>2, <2>1, <2>3, <3>1
  <2>4. QED
    BY <2>2, <2>3
<1>4. g[lib] \in Contents
  BY <1>1, SystemContentsAre
<1>5. g \in [D -> Contents]
  BY <1>1, <1>3, <1>4 DEF Injected
<1>6. \A x \in D : \A l \in LibNames :
        /\ Sys(l) \in g[x].needed => l \in Four \ D
        /\ Own(l) \in g[x].needed => l \in D
  <2>1. ASSUME NEW x \in DOMAIN files, NEW l \in LibNames
        PROVE  /\ Sys(l) \in g[x].needed => l \in Four \ D
               /\ Own(l) \in g[x].needed => l \in D
    BY <1>3 DEF Linked
  <2>2. ASSUME NEW l \in LibNames
        PROVE  /\ Sys(l) \in g[lib].needed => l \in Four \ D
               /\ Own(l) \in g[lib].needed => l \in D
    BY <1>1, SystemContentsAre DEF Four
  <2>3. QED
    BY <2>1, <2>2
<1>7. CASE lib # "erasurecode"
  <2>1. g[lib].needed = {}
    BY <1>1, <1>7, SystemContentsAre
  <2>2. \A x \in DOMAIN files : /\ g[x].needed # {} => g[x].rpath
                                /\ x = "erasurecode" => g[x].rpath
    BY <1>3 DEF Linked
  <2>3. Linked(g)
    BY <1>1, <1>6, <1>7, <2>1, <2>2 DEF Linked
  <2>4. QED
    BY <1>5, <1>7, <2>3
<1>8. CASE lib = "erasurecode"
  <2> DEFINE w == WithRpath(g, {lib})
  <2>1. /\ DOMAIN w = D
        /\ \A x \in D : w[x] = IF x = lib THEN [g[x] EXCEPT !.rpath = TRUE] ELSE g[x]
    BY <1>1 DEF WithRpath
  <2>2. /\ w[lib].needed = g[lib].needed
        /\ w[lib].rpath = TRUE
    BY <1>4, <2>1 DEF Contents
  <2>3. \A x \in DOMAIN files : w[x] = g[x]
    BY <2>1
  <2>4. \A x \in DOMAIN files : /\ g[x].needed # {} => g[x].rpath
                                /\ x = "erasurecode" => g[x].rpath
    BY <1>3 DEF Linked
  <2>5. Linked(w)
    BY <1>6, <2>1, <2>2, <2>3, <2>4 DEF Linked
  <2>6. QED
    BY <1>5, <1>8, <2>5
<1>9. QED
  BY <1>7, <1>8

\* maybe_add_needed links liberasurecode to a library that is inside.
LEMMA WithNeededIsLinked ==
  ASSUME NEW files, files \in [DOMAIN files -> Contents], Linked(files),
         NEW lib \in LibNames, lib \in DOMAIN files, "erasurecode" \in DOMAIN files
  PROVE  /\ WithNeeded(files, lib) \in [DOMAIN files -> Contents]
         /\ Linked(WithNeeded(files, lib))
<1> DEFINE g == [files EXCEPT !["erasurecode"].needed = @ \cup {Own(lib)}]
<1>1. Own(lib) \in Refs /\ \A l \in LibNames : Sys(l) # Own(lib) /\ (Own(l) = Own(lib) => l = lib)
  BY DEF Sys, Own, Refs
<1>2. DOMAIN g = DOMAIN files /\ \A x \in DOMAIN files : x # "erasurecode" => g[x] = files[x]
  OBVIOUS
<1>3. g["erasurecode"] = [needed |-> files["erasurecode"].needed \cup {Own(lib)},
                          rpath  |-> files["erasurecode"].rpath]
  BY DEF Contents
<1>4. g["erasurecode"] \in Contents
  BY <1>1, <1>3 DEF Contents
<1>5. g \in [DOMAIN files -> Contents]
  BY <1>2, <1>4
<1>6. Linked(g)
  <2>1. ASSUME NEW x \in DOMAIN files, x # "erasurecode"
        PROVE  /\ \A l \in LibNames : /\ Sys(l) \in g[x].needed => l \in Four \ DOMAIN files
                                      /\ Own(l) \in g[x].needed => l \in DOMAIN files
               /\ g[x].needed # {} => g[x].rpath
    BY <1>2, <2>1 DEF Linked
  <2>2. /\ \A l \in LibNames : /\ Sys(l) \in g["erasurecode"].needed => l \in Four \ DOMAIN files
                               /\ Own(l) \in g["erasurecode"].needed => l \in DOMAIN files
        /\ g["erasurecode"].rpath
    BY <1>1, <1>3 DEF Linked
  <2>3. QED
    BY <1>2, <2>1, <2>2 DEF Linked
<1>7. QED
  BY <1>5, <1>6 DEF WithNeeded

-----------------------------------------------------------------------------
LEMMA WheelInitInv == WheelInit => WInv
<1> SUFFICES ASSUME WheelInit PROVE WInv
  OBVIOUS
<1>1. opts.exts \subseteq Exts
  BY DEF WheelInit
<1>2. NoFile.state = "none"
  BY DEF NoFile, Packed
<1>3. QED
  BY <1>1, <1>2, LibNamesAre
     DEF WheelInit, WInv, Stages, Sound, Unpacked, Removing, TreeOK, FilesOK, DirsOK, Four

\* Unpacking gives a tree whose extensions have an rpath and are linked to the
\* system's liberasurecode.
LEMMA UnpackTree ==
  ASSUME WInv, Unpack PROVE TreeOK'
<1> DEFINE E == opts.exts
<1>1. wheel.files = BuiltTree(E)
  BY DEF WInv, FilesOK, Unpack
<1>2. DOMAIN BuiltTree(E) = E
  BY DEF BuiltTree
<1>3. \A x \in E : BuiltTree(E)[x] = [needed |-> {Sys("erasurecode")}, rpath |-> FALSE]
  BY DEF BuiltTree
<1>4. tree' = WithRpath(BuiltTree(E), E)
  BY <1>1, <1>2 DEF Unpack
<1>5. DOMAIN tree' = E
  BY <1>2, <1>4 DEF WithRpath
<1>6. \A x \in E : tree'[x] = [needed |-> {Sys("erasurecode")}, rpath |-> TRUE]
  <2>1. \A x \in E : tree'[x] = [BuiltTree(E)[x] EXCEPT !.rpath = TRUE]
    BY <1>2, <1>4 DEF WithRpath
  <2>2. QED
    BY <1>3, <2>1
<1>7. tree' \in [E -> Contents]
  <2>1. [needed |-> {Sys("erasurecode")}, rpath |-> TRUE] \in Contents
    BY LibNamesAre DEF Contents, Refs, Sys, Four
  <2>2. QED
    BY <1>2, <1>4, <1>6, <2>1 DEF WithRpath
<1>8. E \cap LibNames = {}
  BY ExtsAssumption DEF WInv
<1>9. Linked(tree')
  <2>1. \A l \in LibNames : /\ Sys(l) = Sys("erasurecode") => l = "erasurecode"
                            /\ Own(l) # Sys("erasurecode")
    BY DEF Sys, Own
  <2>2. QED
    BY <1>5, <1>6, <1>8, <2>1, LibNamesAre DEF Linked, Four
<1>10. stage' = "erasurecode" /\ allLibs' = E /\ opts' = opts
  BY <1>1, <1>2 DEF Unpack
<1>11. QED
  BY <1>5, <1>7, <1>8, <1>9, <1>10, LibNamesAre DEF TreeOK, Before, Four

\* One more library, linked.
LEMMA InjectTree ==
  ASSUME WInv, InjectLib PROVE TreeOK'
<1> DEFINE D == DOMAIN tree
           files == Injected(tree, allLibs, stage)
<1>1. /\ stage \in LibNames /\ stage \in Unpacked
      /\ tree \in [D -> Contents] /\ allLibs = D /\ Linked(tree)
      /\ opts.exts \subseteq D /\ D \subseteq opts.exts \cup LibNames
      /\ D \cap Four = Before(stage) /\ "isal" \notin D
  BY LibNamesAre DEF WInv, TreeOK, InjectLib, Unpacked
<1>2. stage \notin D
  BY <1>1, LibNamesAre DEF Before, Four
<1>3. stage = "erasurecode" => D \cap Four = {}
  BY <1>1 DEF Before
<1>4. /\ files \in [D \cup {stage} -> Contents]
      /\ stage # "erasurecode" => Linked(files)
      /\ stage = "erasurecode" => Linked(WithRpath(files, {stage}))
  BY <1>1, <1>2, <1>3, InjectedIsLinked
<1>5. tree' \in [D \cup {stage} -> Contents] /\ Linked(tree')
  <2>1. CASE stage = "erasurecode"
    <3>1. tree' = WithRpath(files, {stage})
      BY <2>1 DEF InjectLib
    <3>2. \A x \in D \cup {stage} : [files[x] EXCEPT !.rpath = TRUE] \in Contents
      BY <1>4 DEF Contents
    <3>3. WithRpath(files, {stage}) \in [D \cup {stage} -> Contents]
      BY <1>4, <3>2 DEF WithRpath
    <3>4. QED
      BY <1>4, <2>1, <3>1, <3>3
  <2>2. CASE stage \in {"erasurecode_rs_vand", "isal"}
    <3>1. tree' = WithNeeded(files, stage)
      BY <2>2 DEF InjectLib
    <3>2. DOMAIN files = D \cup {stage} /\ "erasurecode" \in DOMAIN files
      BY <1>1, <1>4, <2>2 DEF Before, Four
    <3>3. QED
      BY <1>1, <1>4, <2>2, <3>1, <3>2, WithNeededIsLinked
  <2>3. CASE stage \notin {"erasurecode", "erasurecode_rs_vand", "isal"}
    BY <1>4, <2>3 DEF InjectLib
  <2>4. QED
    BY <2>1, <2>2, <2>3
<1>6. DOMAIN tree' = D \cup {stage} /\ allLibs' = D \cup {stage} /\ opts' = opts
  BY <1>1, <1>5 DEF InjectLib, Relocated
<1>7. stage' = NextStage(stage)
  BY DEF InjectLib
<1>8. /\ stage \in Four => DOMAIN tree' \cap Four = Before(stage')
      /\ stage = "isal" => DOMAIN tree' \cap Four = Before(stage') /\ "isal" \in DOMAIN tree'
      /\ stage' \in Four \cup {"isal"} => "isal" \notin DOMAIN tree'
      /\ stage' # "zip" /\ (stage' = "record" => stage = "isal")
  BY <1>1, <1>6, <1>7, LibNamesAre DEF Before, Four
<1>9. QED
  BY <1>1, <1>5, <1>6, <1>8, LibNamesAre DEF TreeOK, Four

\* A tree that is ready to be packed makes a wheel that is self-contained but
\* for the repair.
LEMMA ReadyIsSelfContained ==
  ASSUME WInv, stage = "zip"
  PROVE  SelfContained(opts, [Packed(tree, record) EXCEPT !.repaired = TRUE])
<1> DEFINE w == [Packed(tree, record) EXCEPT !.repaired = TRUE]
<1>1. w.files = tree /\ w.record = record /\ w.repaired = TRUE
  BY DEF Packed
<1>2. /\ tree \in [DOMAIN tree -> Contents]
      /\ opts.exts \subseteq DOMAIN tree /\ DOMAIN tree \cap Four = Four
      /\ opts.require_isal => "isal" \in DOMAIN tree
      /\ Linked(tree) /\ record = tree
  BY DEF WInv, TreeOK, Unpacked, Before
<1>3. \A i \in 1..4 : Libs[i] \in Four
  BY DEF Libs, Four
<1>4. ASSUME NEW x \in DOMAIN tree
      PROVE  /\ tree[x].needed \subseteq {Own(lib) : lib \in DOMAIN tree \cap LibNames}
             /\ tree[x].needed # {} => tree[x].rpath
  <2>1. tree[x].needed \subseteq Refs
    BY <1>2 DEF Contents
  <2>2. \A r \in Refs : \E lib \in LibNames : r = Sys(lib) \/ r = Own(lib)
    BY DEF Refs, Sys, Own
  <2>3. \A lib \in LibNames : /\ Sys(lib) \notin tree[x].needed
                              /\ Own(lib) \in tree[x].needed => lib \in DOMAIN tree
    BY <1>2 DEF Linked
  <2>4. tree[x].needed # {} => tree[x].rpath
    BY <1>2 DEF Linked
  <2>5. QED
    BY <2>1, <2>2, <2>3, <2>4
<1>5. QED
  BY <1>1, <1>2, <1>3, <1>4 DEF SelfContained

-----------------------------------------------------------------------------
LEMMA NextTree ==
  ASSUME WInv, [WheelNext]_wheelVars PROVE TreeOK'
<1>1. CASE Unpack
  BY <1>1, UnpackTree
<1>2. CASE InjectLib
  BY <1>2, InjectTree
<1>3. CASE NoIsal
  BY <1>3, LibNamesAre DEF NoIsal, WInv, TreeOK, Unpacked, Before, Four
<1>4. CASE rebuild_dist_info_record
  BY <1>4, LibNamesAre DEF rebuild_dist_info_record, WInv, TreeOK, Unpacked, Before, Four
<1>5. ASSUME \/ BuildWheel \/ build_zip \/ RemoveUnpacked \/ repair_wheel \/ Move
             \/ fix_ownership \/ RemoveBuilt
      PROVE  TreeOK'
  <2>1. stage' \notin Unpacked
    BY <1>5, LibNamesAre
       DEF BuildWheel, build_zip, RemoveUnpacked, repair_wheel, Move, fix_ownership,
           RemoveBuilt, Unpacked, Four
  <2>2. QED
    BY <2>1 DEF TreeOK
<1>6. ASSUME Raise \/ Kill PROVE TreeOK'
  <2>1. \A kind : Cleanup(kind) \in {"ended", "remove unpacked", "remove built"}
    BY DEF Cleanup
  <2>2. stage' \notin Unpacked
    BY <1>6, <2>1, LibNamesAre DEF Raise, Kill, Unpacked, Four
  <2>3. QED
    BY <2>2 DEF TreeOK
<1>7. CASE UNCHANGED wheelVars
  BY <1>7 DEF wheelVars, WInv, TreeOK, Before
<1>8. QED
  BY <1>1, <1>2, <1>3, <1>4, <1>5, <1>6, <1>7 DEF WheelNext

LEMMA NextFiles ==
  ASSUME WInv, [WheelNext]_wheelVars PROVE FilesOK'
<1>0. NoFile.state = "none" /\ Torn.state = "torn"
  BY DEF NoFile, Torn, Packed
<1> USE DEF WInv, FilesOK
<1>1. CASE BuildWheel
  BY <1>1 DEF BuildWheel, Packed
<1>2. CASE Unpack
  BY <1>2 DEF Unpack
<1>3. ASSUME InjectLib \/ NoIsal \/ rebuild_dist_info_record PROVE FilesOK'
  <2>1. /\ UNCHANGED <<opts, output, faults>>
        /\ stage' \in {"nullcode", "Xorcode", "erasurecode_rs_vand", "isal", "record", "zip"}
    BY <1>3, LibNamesAre DEF InjectLib, NoIsal, rebuild_dist_info_record, Four
  <2>2. QED
    BY <2>1
<1>4. CASE build_zip
  <2>1. /\ wheel' = Packed(tree, record)
        /\ SelfContained(opts, [wheel' EXCEPT !.repaired = TRUE])
        /\ wheel'.state = "whole"
    BY <1>4, ReadyIsSelfContained DEF build_zip, Packed
  <2>2. QED
    BY <1>4, <2>1 DEF build_zip
<1>5. CASE RemoveUnpacked
  BY <1>5 DEF RemoveUnpacked, Stages
<1>6. CASE repair_wheel
  <2>1. /\ faults = {} /\ wheel.state = "whole"
        /\ SelfContained(opts, [wheel EXCEPT !.repaired = TRUE])
    BY <1>6 DEF repair_wheel, Sound
  <2>2. SelfContained(opts, wheel') /\ wheel'.state = "whole"
    <3>1. CASE opts.repair /\ opts.platform # "darwin"
      BY <1>6, <2>1, <3>1 DEF repair_wheel
    <3>2. CASE ~(opts.repair /\ opts.platform # "darwin")
      BY <1>6, <2>1, <3>2 DEF repair_wheel, SelfContained
    <3>3. QED
      BY <3>1, <3>2
  <2>3. QED
    BY <1>6, <2>2 DEF repair_wheel
<1>7. CASE Move
  BY <1>7 DEF Move
<1>8. CASE fix_ownership
  BY <1>8 DEF fix_ownership
<1>9. CASE RemoveBuilt
  BY <1>9 DEF RemoveBuilt
<1>10. ASSUME Raise \/ Kill PROVE FilesOK'
  <2>1. PICK kind : faults' = faults \cup {<<stage, kind>>}
    BY <1>10 DEF Raise, Kill
  <2>2. /\ stage' \in {"ended", "remove unpacked", "remove built"}
        /\ UNCHANGED opts /\ HalfDone
    BY <1>10 DEF Raise, Kill, Cleanup
  <2>3. \/ output' = output
        \/ (output' = Torn /\ stage = "move" /\ opts.across)
    <3>1. output' \in {output} \cup (IF stage = "move" /\ opts.across THEN {Torn} ELSE {})
      BY <2>2 DEF HalfDone
    <3>2. QED
      BY <3>1
  <2>4. faults' # {}
    BY <2>1
  <2>5. output'.state = "torn" => \E f \in faults' : f[1] = "move"
    <3>1. <<stage, kind>> \in faults' /\ <<stage, kind>>[1] = stage
      BY <2>1
    <3>2. \A f \in faults : f \in faults'
      BY <2>1
    <3>3. CASE output' = output
      BY <3>2, <3>3
    <3>4. CASE stage = "move"
      BY <3>1, <3>4
    <3>5. QED
      BY <2>3, <3>3, <3>4
  <2>6. QED
    BY <1>0, <2>2, <2>3, <2>4, <2>5
<1>11. CASE UNCHANGED wheelVars
  BY <1>11 DEF wheelVars
<1>12. QED
  BY <1>1, <1>2, <1>3, <1>4, <1>5, <1>6, <1>7, <1>8, <1>9, <1>10, <1>11 DEF WheelNext

LEMMA NextDirs ==
  ASSUME WInv, [WheelNext]_wheelVars PROVE DirsOK'
<1> USE DEF WInv, DirsOK, Excused, Removing
<1>1. ASSUME BuildWheel \/ Unpack \/ InjectLib \/ NoIsal \/ rebuild_dist_info_record \/ build_zip
      PROVE  DirsOK'
  <2>1. /\ stage' \in Unpacked \cup {"unpack", "remove unpacked"}
        /\ stage' \in Unpacked => unpack' = "there"
        /\ stage' = "unpack" => unpack' = unpack /\ stage = "build"
        /\ faults' = faults
    BY <1>1, LibNamesAre
       DEF BuildWheel, Unpack, InjectLib, NoIsal, rebuild_dist_info_record, build_zip,
           Unpacked, Four
  <2>2. stage \in {"build", "unpack"} => unpack # "there" \/ Excused("unpack")
    BY LibNamesAre DEF Unpacked, Four
  <2>3. QED
    BY <2>1, <2>2, LibNamesAre DEF Unpacked, Four
<1>2. ASSUME RemoveUnpacked \/ repair_wheel \/ Move \/ fix_ownership \/ RemoveBuilt
      PROVE  DirsOK'
  <2>1. /\ stage' \in {"repair", "remove built", "move", "chown", "ended"}
        /\ unpack' = "none" \/ (unpack' = unpack /\ stage \notin Unpacked \cup {"remove unpacked"})
        /\ stage' = "ended" => build' = "none"
        /\ faults' = faults
    BY <1>2, LibNamesAre
       DEF RemoveUnpacked, repair_wheel, Move, fix_ownership, RemoveBuilt, Unpacked, Four
  <2>2. stage' \notin Unpacked
    BY <2>1, LibNamesAre DEF Unpacked, Four
  <2>3. QED
    BY <2>1, <2>2
<1>3. CASE Raise
  <2>1. PICK kind \in {"Exception", "KeyboardInterrupt"} :
          /\ faults' = faults \cup {<<stage, kind>>}
          /\ stage' = Cleanup(kind)
          /\ build' = IF stage = "build"
                        THEN IF kind = "Exception" THEN "none" ELSE "there"
                        ELSE build
    BY <1>3 DEF Raise
  <2>2. /\ <<stage, kind>> \in faults' /\ <<stage, kind>>[1] = stage
        /\ \A f \in faults : f \in faults'
    BY <2>1
  <2>3. stage' \notin Unpacked
    BY <2>1, LibNamesAre DEF Cleanup, Unpacked, Four
  <2>4. unpack' = "there" => stage' = "remove unpacked" \/ Excused("unpack")'
    <3>1. CASE stage \in Unpacked
      BY <2>1, <3>1, LibNamesAre DEF Cleanup, Unpacked, Four
    <3>2. CASE stage = "remove unpacked"
      BY <2>2, <3>2
    <3>3. CASE stage \notin Unpacked \cup {"remove unpacked"}
      <4>1. unpack' = "there" => Excused("unpack")
        BY <1>3, <3>3 DEF Raise
      <4>2. QED
        BY <2>2, <4>1
    <3>4. QED
      BY <3>1, <3>2, <3>3
  <2>5. build' = "there" /\ stage' = "ended" => Excused("build")'
    <3>1. CASE stage = "build"
      BY <2>1, <2>2, <3>1
    <3>2. CASE stage = "remove built"
      BY <2>2, <3>2
    <3>3. CASE stage \notin {"build", "remove built"}
      BY <2>1, <3>3 DEF Cleanup
    <3>4. QED
      BY <3>1, <3>2, <3>3
  <2>6. QED
    BY <2>3, <2>4, <2>5
<1>4. CASE Kill
  <2>1. /\ faults' = faults \cup {<<stage, "killed">>} /\ stage' = "ended"
        /\ <<stage, "killed">> \in faults' /\ <<stage, "killed">>[2] = "killed"
    BY <1>4 DEF Kill
  <2>2. QED
    BY <2>1, LibNamesAre DEF Unpacked, Four
<1>5. CASE UNCHANGED wheelVars
  BY <1>5 DEF wheelVars
<1>6. QED
  BY <1>1, <1>2, <1>3, <1>4, <1>5 DEF WheelNext

LEMMA NextRest ==
  ASSUME WInv, [WheelNext]_wheelVars
  PROVE  /\ (stage \in Stages /\ {build, unpack} \subseteq {"none", "there"})'
         /\ (opts.exts \subseteq Exts)'
         /\ (stage \in Sound => faults = {})'
<1> USE DEF WInv
<1>1. opts' = opts
  BY DEF WheelNext, wheelVars, BuildWheel, Unpack, InjectLib, NoIsal,
         rebuild_dist_info_record, build_zip, RemoveUnpacked, repair_wheel, Move,
         fix_ownership, RemoveBuilt, Raise, Kill
<1>2. ASSUME \/ BuildWheel \/ Unpack \/ InjectLib \/ NoIsal \/ rebuild_dist_info_record
             \/ build_zip \/ RemoveUnpacked \/ repair_wheel \/ Move \/ fix_ownership
             \/ RemoveBuilt
      PROVE  /\ stage' \in Stages /\ faults' = faults
             /\ {build', unpack'} \subseteq {"none", "there"}
             /\ stage' \in Sound => faults = {}
  <2>1. CASE RemoveUnpacked
    BY <2>1, LibNamesAre DEF RemoveUnpacked, Stages, Unpacked, Removing, Sound, Four
  <2>2. CASE RemoveBuilt
    BY <2>2, LibNamesAre DEF RemoveBuilt, Stages, Unpacked, Removing, Sound, Four
  <2>3. CASE InjectLib
    BY <2>3, LibNamesAre DEF InjectLib, Stages, Unpacked, Removing, Sound, Four
  <2>4. ASSUME \/ BuildWheel \/ Unpack \/ NoIsal \/ rebuild_dist_info_record
               \/ build_zip \/ repair_wheel \/ Move \/ fix_ownership
        PROVE  /\ stage' \in Stages /\ faults' = faults /\ stage \in Sound
               /\ {build', unpack'} \subseteq {"none", "there"}
    BY <2>4, LibNamesAre
       DEF BuildWheel, Unpack, NoIsal, rebuild_dist_info_record, build_zip, repair_wheel,
           Move, fix_ownership, Stages, Unpacked, Removing, Sound, Four
  <2>5. QED
    BY <1>2, <2>1, <2>2, <2>3, <2>4
<1>3. ASSUME Raise \/ Kill
      PROVE  /\ stage' \in {"ended", "remove unpacked", "remove built"}
             /\ {build', unpack'} \subseteq {"none", "there"}
  BY <1>3 DEF Raise, Kill, Cleanup
<1>4. {"ended", "remove unpacked", "remove built"} \subseteq Stages \ Sound
  BY LibNamesAre DEF Stages, Sound, Unpacked, Removing, Four
<1>5. QED
  BY <1>1, <1>2, <1>3, <1>4 DEF WheelNext, wheelVars

-----------------------------------------------------------------------------
\* The inductive invariant of the program.
THEOREM WheelInvariant == WheelSpec => []WInv
<1>1. WInv /\ [WheelNext]_wheelVars => WInv'
  BY NextTree, NextFiles, NextDirs, NextRest DEF WInv
<1>2. QED
  BY <1>1, WheelInitInv, PTL DEF WheelSpec

\* Types of PackWheel: in particular all_libs are the files of the unpacked
\* wheel, so that no library is left out when another one is linked
\* (pack_wheel.py:170-172 and 277).
THEOREM WheelTypes == WheelSpec => []WheelTypeOK
<1>1. WInv => WheelTypeOK
  BY DEF WInv, WheelTypeOK, TreeOK, DirsOK
<1>2. QED
  BY <1>1, WheelInvariant, PTL

\* What reaches wheel_dir is self-contained (pack_wheel.py:357-369), whatever
\* failed before; it does after a run without a fault.
THEOREM WheelIsComplete == WheelSpec => []WheelComplete
<1>1. WInv => WheelComplete
  BY DEF WInv, FilesOK, WheelComplete
<1>2. QED
  BY <1>1, WheelInvariant, PTL

\* No temporary directory stays without an excuse (pack_wheel.py:131-133, 157
\* and 369).
THEOREM NoTempLeft == WheelSpec => []TempLeftOnlyIfInterrupted
<1>1. WInv => TempLeftOnlyIfInterrupted
  BY LibNamesAre
     DEF WInv, DirsOK, Excused, TempLeftOnlyIfInterrupted, Unpacked, Four
<1>2. QED
  BY <1>1, WheelInvariant, PTL

=============================================================================
