------------------------------ MODULE MCStripe ------------------------------
(***************************************************************************)
(* Every way the arguments of ECDriver() can be wrong, one at a time, and  *)
(* the stripes of three codes: two data and two parity fragments of a      *)
(* Reed-Solomon code with checksums; two and three of the XOR code, with a *)
(* distance of 3, and of an LRC with two local parities, without.  The     *)
(* object has three bytes and ranges reach over both its ends.  Two        *)
(* fragments are enough for the names of the XOR code.                     *)
(***************************************************************************)
EXTENDS Stripe

Base == [ec_type |-> "liberasurecode_rs_vand", lib |-> "ECPyECLibDriver",
         k |-> 2, m |-> 2, chksum_type |-> "none", local_parity |-> 0]

MCArguments ==
  {[Base EXCEPT !.chksum_type = "inline_crc32"],
   [Base EXCEPT !.lib = "ECNullDriver", !.ec_type = NoType],
   [Base EXCEPT !.ec_type = "flat_xor_hd_3", !.m = 3],
   [Base EXCEPT !.ec_type = "isa_l_rs_lrc", !.m = 3, !.local_parity = 2]}
  \cup [ec_type: XorNames \cup {"libphazr", "shss", "flat_xor_hd_5", "", NoType},
        lib: {"ECPyECLibDriver"}, k: {1}, m: {1}, chksum_type: {"none"},
        local_parity: {0}]
  \cup [ec_type: {"libphazr", "no_such_type", "", NoType}, lib: Classes,
        k: {-1, 0, 2, NoNumber}, m: {0, 1, NoNumber},
        chksum_type: {"none", "md5"}, local_parity: {0, NoNumber, NoType}]

MCLoaded == {"liberasurecode_rs_vand", "flat_xor_hd", "isa_l_rs_lrc"}

MCRanges == (-1 .. ObjLen + 1) \X (-1 .. ObjLen + 1)
MCRangeLists == {<<>>} \cup {<<r>> : r \in MCRanges} \cup {<<<<0, 0>>, r>> : r \in MCRanges}
=============================================================================
