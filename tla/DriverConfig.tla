---------------------------- MODULE DriverConfig ----------------------------
(***************************************************************************)
(* What ECDriver makes of its arguments: the names of erasure codes and    *)
(* the backends behind them, the checks of __init__ in their order, and    *)
(* what the three library classes accept.                                  *)
(*                                                                         *)
(* A string that is no number is NoNumber, None is NoType; for k and m,    *)
(* where both are refused alike, NoNumber stands for either.               *)
(***************************************************************************)
EXTENDS Integers, Sequences, FiniteSetsExt

CONSTANTS NoNumber, NoType

-----------------------------------------------------------------------------
(* Names of codes (enums.py, ec_iface.py).                                 *)

PyECLib_EC_Types ==
  {"jerasure_rs_vand", "jerasure_rs_cauchy", "flat_xor_hd", "isa_l_rs_vand",
   "shss", "liberasurecode_rs_vand", "isa_l_rs_cauchy", "libphazr",
   "isa_l_rs_vand_inv", "isa_l_rs_lrc"}

PyECLib_FRAGHDRCHKSUM_Types == {"none", "inline_crc32"}

XorNames == {"flat_xor_hd", "flat_xor_hd_3", "flat_xor_hd_4"}

\* What is no number and no name is not one of them.
ASSUME NotGiven ==
  /\ NoNumber \notin Int
  /\ NoType \notin Int /\ NoType \notin PyECLib_EC_Types \cup XorNames \cup {""}

\* The two Hamming distances are one backend.
BackendOf(name) == IF name \in XorNames THEN "flat_xor_hd" ELSE name

ALL_EC_TYPES ==
  (PyECLib_EC_Types \ {"flat_xor_hd"}) \cup {"flat_xor_hd_3", "flat_xor_hd_4"}

\* check_backend_available, for the names it is called with; loaded are the
\* backends liberasurecode can load.
check_backend_available(name, loaded) == BackendOf(name) \in loaded

VALID_EC_TYPES(loaded) ==
  {name \in ALL_EC_TYPES : check_backend_available(name, loaded)}

-----------------------------------------------------------------------------
(* ECDriver.__init__                                                       *)

IsPositive(x) == x # NoNumber /\ x > 0

\* positive_int_value raises ValueError.
NotPositive(x) == ~IsPositive(x)

\* Distances the names carry; every other code is given m.
HammingDistance(ec_type, m) ==
  CASE ec_type \in {"flat_xor_hd", "flat_xor_hd_3"} -> 3
    [] ec_type = "flat_xor_hd_4"                    -> 4
    [] ec_type = "libphazr"                         -> 1
    [] OTHER                                        -> m

\* An ec_type that is empty is not looked up.
Looked(ec_type) == ec_type \notin {NoType, ""}

\* The classes of core.py, and an import string that leads nowhere.
Classes == {"ECPyECLibDriver", "ECNullDriver", "ECStripingDriver", "nowhere"}

\* Each check of __init__ that refuses its arguments, with what it raises, in
\* the order of the code; the last ones are create_instance and the library
\* class, which is given local_parity whether it takes it or not.
Checks(a) ==
  <<<<a.ec_type = NoType /\ a.lib = "ECPyECLibDriver", "ECDriverError">>,
    <<NotPositive(a.k) \/ NotPositive(a.m),            "ECDriverError">>,
    <<a.local_parity \in {NoNumber, NoType},
        IF a.local_parity = NoType THEN "TypeError" ELSE "ValueError">>,
    <<Looked(a.ec_type) /\ BackendOf(a.ec_type) \notin PyECLib_EC_Types,
                                                       "ECBackendNotSupported">>,
    <<a.chksum_type \notin PyECLib_FRAGHDRCHKSUM_Types, "ECDriverError">>,
    <<a.lib = "nowhere",                               "ImportError">>,
    <<a.lib = "ECStripingDriver",                      "TypeError">>,
    <<a.lib = "ECPyECLibDriver" /\ ~Looked(a.ec_type), "AttributeError">>>>

\* The error that ends __init__ first, or "ok".
Verdict(a) ==
  LET refused == {i \in 1..8 : Checks(a)[i][1]}
  IN IF refused = {} THEN "ok" ELSE Checks(a)[Min(refused)][2]

\* The driver that accepted arguments make; attributes of the driver and of
\* the library object it holds.
Driver(a) ==
  [lib |-> a.lib, k |-> a.k, m |-> a.m, local_parity |-> a.local_parity,
   ec_type |-> IF Looked(a.ec_type) THEN BackendOf(a.ec_type) ELSE NoType,
   hd |-> HammingDistance(a.ec_type, a.m),
   inline_chksum |-> a.chksum_type = "inline_crc32"]

\* pyeclib_c_seterr: the exception class of each of liberasurecode's errors.
ExceptionOf(code) ==
  CASE code = "EBACKENDNOTAVAIL" -> "ECBackendInstanceNotAvailable"
    [] code = "EINSUFFFRAGS"     -> "ECInsufficientFragments"
    [] code = "EBACKENDNOTSUPP"  -> "ECBackendNotSupported"
    [] code = "EINVALIDPARAMS"   -> "ECInvalidParameter"
    [] code = "EBADCHKSUM"       -> "ECBadFragmentChecksum"
    [] code = "EBADHEADER"       -> "ECInvalidFragmentMetadata"
    [] code = "ENOMEM"           -> "ECOutOfMemory"
    [] OTHER                     -> "ECDriverError"

\* What liberasurecode may answer instead of an instance: a backend it cannot
\* load is not there, a loaded one may still refuse the numbers.
InstanceErrors(ec_type, loaded) ==
  IF ec_type \in loaded THEN {"EBACKENDINITERR", "EINVALIDPARAMS", "ENOMEM"}
  ELSE {"EBACKENDNOTAVAIL", "EBACKENDNOTSUPP", "EINVALIDPARAMS", "ENOMEM"}

\* What init() of the C extension may raise for driver d; its own failures,
\* before and after the library is asked, are EINVALIDPARAMS and ENOMEM too.
InitErrors(d, loaded) ==
  IF d.lib # "ECPyECLibDriver" THEN {}
  ELSE {ExceptionOf(code) : code \in InstanceErrors(d.ec_type, loaded)}

\* ECDriverError and its subclasses.
ECDriverErrors ==
  {"ECDriverError", "ECDriverErrorWithPosition", "ECBackendNotSupported",
   "ECMethodNotImplemented", "ECBackendInitializationError",
   "ECBackendInstanceNotAvailable", "ECBackendInstanceInUse", "ECInvalidParameter",
   "ECInvalidFragmentMetadata", "ECBadFragmentChecksum", "ECInsufficientFragments",
   "ECOutOfMemory"}

\* Mutant: the repr shows the backend without its distance.
ReprOfBackend(d) == [ec_type |-> d.ec_type, k |-> d.k, m |-> d.m]

\* The arguments in the driver's repr: flat_xor_hd goes with its distance.
Repr(d) ==
  [ec_type |-> IF d.ec_type = "flat_xor_hd"
                 THEN IF d.hd = 3 THEN "flat_xor_hd_3" ELSE "flat_xor_hd_4"
                 ELSE d.ec_type,
   k |-> d.k, m |-> d.m]

\* The arguments of a call that names no others than those of a repr.
WithDefaults(shown) ==
  [ec_type |-> shown.ec_type, k |-> shown.k, m |-> shown.m, lib |-> "ECPyECLibDriver",
   chksum_type |-> "none", local_parity |-> 0]
=============================================================================
