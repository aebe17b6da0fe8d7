------------------------------- MODULE Codec --------------------------------
(***************************************************************************)
(* What the callers of an erasure code may count on: from which fragments  *)
(* of a stripe liberasurecode and its backends bring the data back.  None  *)
(* of it is PyECLib's own; the definitions say what PyECLib's programs,    *)
(* tests and comments take for granted.                                    *)
(***************************************************************************)
EXTENDS DriverConfig

\* Fragments 0..k-1 of a stripe are data, the rest parity.
Indexes(d) == 0 .. d.k + d.m - 1
DataIndexes(d) == 0 .. d.k - 1

\* isa_l_rs_lrc: local_parity of the parities belong to one group of the data
\* each, the others to all of it.  A group mends one loss by itself, the
\* global parities mend what is left.
LrcRecovers(d, S) ==
  LET l       == d.local_parity
      Missing == DataIndexes(d) \ S
      Mended  == {g \in 0 .. l - 1 : d.k + g \in S /\ \E i \in Missing : i % l = g}
      Globals == {i \in S : i >= d.k + l}
  IN Cardinality(Missing) - Cardinality(Mended) <= Cardinality(Globals)

\* liberasurecode has an XOR code only with the parities its distance takes
\* (pyeclib_conf_tool lists the codes).
Makeable(d) == d.ec_type = "flat_xor_hd" => d.m >= d.hd - 1

\* The fragments S of a stripe of driver d surely give its data back.
Recovers(d, S) ==
  \/ DataIndexes(d) \subseteq S
  \/ CASE d.ec_type = "flat_xor_hd" ->
              Cardinality(Indexes(d) \ S) < d.hd /\ Cardinality(S) >= d.k
       [] d.ec_type = "isa_l_rs_lrc" /\ d.local_parity > 0 -> LrcRecovers(d, S)
       [] OTHER -> Cardinality(S) >= d.k

\* They may: codes with local equations sometimes do with other patterns.
MayRecover(d, S) ==
  Recovers(d, S) \/ (d.ec_type = "flat_xor_hd" /\ Cardinality(S) >= d.k)

\* Whether fragment i is rebuilt from S; a parity surely once all data is
\* there (core.py:162-164), a lost parity of other sets only perhaps.
Rebuilds(d, S, i) ==
  IF \/ i \in S
     \/ i \in DataIndexes(d) /\ Recovers(d, S)
     \/ i \in Indexes(d) /\ DataIndexes(d) \subseteq S
    THEN {TRUE}
  ELSE IF i \in Indexes(d) /\ S # {}
            /\ (MayRecover(d, S) \/ d.ec_type \in {"flat_xor_hd", "isa_l_rs_lrc"})
    THEN BOOLEAN
  ELSE {FALSE}
=============================================================================
