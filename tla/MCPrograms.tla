----------------------------- MODULE MCPrograms -----------------------------
(***************************************************************************)
(* The three programs around the library, one of them in each behaviour    *)
(* while the other two are off, so that their states add up.               *)
(*                                                                         *)
(* pyeclib-backend with five data and five parity fragments (XOR codes of  *)
(* both distances) and three and three (LRC with none to two local         *)
(* parities), fragments missing from one less than none to one more than   *)
(* all; requests of pyeclib_conf_tool around the first XOR codes, with     *)
(* rates that a product of floats meets exactly, or not; wheels with one   *)
(* extension or two on each platform.                                      *)
(***************************************************************************)
EXTENDS Backend, ConfTool, PackWheel

Plain == [command |-> "none", ec_type |-> {}, encode |-> FALSE, decode |-> FALSE,
          reconstruct |-> FALSE, iterations |-> "all", k |-> 3, m |-> 3, l |-> 2, u |-> 2]

Verify(names, k, m, ls) ==
  {[Plain EXCEPT !.command = "verify", !.ec_type = names, !.k = k, !.m = m, !.l = l,
                 !.u = u, !.reconstruct = r, !.iterations = i] :
     l \in ls, u \in -1 .. k + m + 1, r \in BOOLEAN, i \in {"all", "none", "some"}}

Bench(names, k, m, ls) ==
  {[Plain EXCEPT !.command = "bench", !.ec_type = names, !.k = k, !.m = m, !.l = l,
                 !.u = u, !.encode = e, !.decode = d, !.iterations = i] :
     l \in ls, u \in -1 .. k + m + 1, e \in BOOLEAN, d \in BOOLEAN, i \in {"none", "some"}}

MCCommandLines ==
  {Plain, [Plain EXCEPT !.command = "version"]}
  \cup {[Plain EXCEPT !.command = "list", !.ec_type = names] :
          names \in {{}, {"isa-l", "no_such_type"}, {"xor"}, {"no_such_type"}}}
  \cup {[Plain EXCEPT !.command = "check", !.ec_type = {name}] :
          name \in ALL_EC_TYPES \cup {"flat_xor_hd", "xor", "no_such_type"}}
  \cup Verify({"flat-xor"}, 5, 5, {0})
  \cup Verify({"isa_l_rs_lrc", "isa_l_rs_vand", "no_such_type"}, 3, 3, {0, 1, 2})
  \cup Verify({}, 2, 0, {0})
  \cup Bench({"flatxor"}, 5, 5, {0})
  \cup Bench({"isal", "no_such_type"}, 3, 3, {0, 1, 2})

MCLoadedSets ==
  {{}, {"liberasurecode_rs_vand", "flat_xor_hd"},
   {"isa_l_rs_lrc", "isa_l_rs_vand", "flat_xor_hd"}}

MCRequests ==
  [n: {4, 12, 14, 20, 26}, f: {0, 2, 3}, r: {<<-1, 2>>, <<1, 2>>, <<11, 20>>, <<2, 3>>, <<5, 4>>},
   large: {FALSE}] \cup [n: {12}, f: {2}, r: {<<1, 2>>}, large: {TRUE}]

BackendOff ==
  cli = Plain /\ loaded = {} /\ types = {} /\ tally = Clean /\ made = {} /\ exit = Running
ToolOff ==
  /\ request = <<>> /\ min_k = 0 /\ schemes = <<>> /\ tries = <<>>
  /\ ending = "off"
WheelOff ==
  /\ stage = "ended" /\ opts = <<>> /\ build = "none" /\ wheel = NoFile /\ unpack = "none"
  /\ tree = <<>> /\ allLibs = {} /\ record = <<>> /\ output = NoFile
  /\ faults = {<<"off", "off">>}

Init ==
  \/ BackendInit /\ ToolOff /\ WheelOff
  \/ ToolInit /\ BackendOff /\ WheelOff
  \/ WheelInit /\ BackendOff /\ ToolOff

Next ==
  \/ BackendNext /\ UNCHANGED <<toolVars, wheelVars>>
  \/ ToolNext /\ UNCHANGED <<cliVars, wheelVars>>
  \/ WheelNext /\ UNCHANGED <<cliVars, toolVars>>

Spec == Init /\ [][Next]_<<cliVars, toolVars, wheelVars>>

\* The type invariants of the program that runs (Backend, ConfTool, PackWheel).
ProgramsTypeOK ==
  BackendTypeOK /\ (ending = "off" \/ ToolTypeOK) /\ (opts = <<>> \/ WheelTypeOK)
=============================================================================
