------------------------------ MODULE ConfTool ------------------------------
(***************************************************************************)
(* tools/pyeclib_conf_tool.py: the schemes that meet a request for n       *)
(* fragments, a rate of at least r and a tolerance of f faults, and the    *)
(* script that tries them one by one.  Rates are pairs <<a, b>> for a / b. *)
(***************************************************************************)
EXTENDS DriverConfig, SequencesExt

CONSTANTS Requests   \* command lines: n, f, r, and whether -s is over 10 MB

\* argparse converts -n and -f with int, -r with float: a rational number.
ASSUME RequestsAssumption ==
  \A q \in Requests :
    /\ q.n \in Int /\ q.f \in Int /\ q.large \in BOOLEAN
    /\ q.r[1] \in Int /\ q.r[2] \in Nat \ {0}

VARIABLES
  request,
  min_k,    \* of get_viable_schemes
  schemes,  \* the list it returns
  tries,    \* schemes the script has still to try
  ending    \* where the script is, or what ended it

toolVars == <<request, min_k, schemes, tries, ending>>

-----------------------------------------------------------------------------
ECScheme(k, m, ec_type) == [k |-> k, m |-> m, ec_type |-> ec_type]

\* n! / r! / (n - r)!, for the r it is called with.
nCr(n, r) == IF r = 2 THEN (n * (n - 1)) \div 2 ELSE (n * (n - 1) * (n - 2)) \div 6

valid_flat_xor_hd_3 == (6..15) \X {6}
valid_flat_xor_hd_4 == (6..20) \X {6}

CeilDiv(a, b) == -((-a) \div b)

\* minimum_rate * max_num_frags is a product of floats: when it should be whole
\* it may come out a little above, and its ceiling one higher.
MinKs(n, r) ==
  LET exact == CeilDiv(r[1] * n, r[2])
  IN {exact} \cup (IF exact * r[2] = r[1] * n THEN {exact + 1} ELSE {})

XorSchemes(k, m, f) ==
  CASE f = 2 /\ k <= nCr(m, 2) /\ <<k, m>> \in valid_flat_xor_hd_3 ->
         <<ECScheme(k, m, "flat_xor_hd_3")>>
    [] f = 3 /\ k <= nCr(m, 3) /\ <<k, m>> \in valid_flat_xor_hd_4 ->
         <<ECScheme(k, m, "flat_xor_hd_4")>>
    [] OTHER -> <<>>

SchemesOf(k, n, f) ==
  <<ECScheme(k, n - k, "jerasure_rs_vand"), ECScheme(k, n - k, "jerasure_rs_cauchy")>>
    \o XorSchemes(k, n - k, f)

\* Mutant: the last k of the range is left out.
ViableUpToLast(n, low, f) ==
  FlattenSeq([i \in 1 .. n - f - low |-> SchemesOf(low + i - 1, n, f)])

\* k runs from min_k to n - min_m.
Viable(n, low, f) ==
  IF low + f > n THEN <<>>
  ELSE FlattenSeq([i \in 1 .. n - f + 1 - low |-> SchemesOf(low + i - 1, n, f)])

-----------------------------------------------------------------------------
ToolInit ==
  /\ request \in Requests
  /\ min_k = 0 /\ schemes = <<>> /\ tries = <<>>
  /\ ending = "start"

TooLarge ==
  /\ ending = "start" /\ request.large
  /\ ending' = "exit 1"
  /\ UNCHANGED <<request, min_k, schemes, tries>>

get_viable_schemes ==
  /\ ending = "start" /\ ~request.large
  /\ min_k' \in MinKs(request.n, request.r)
  /\ schemes' = Viable(request.n, min_k', request.f)
  /\ tries' = schemes'
  /\ ending' = "trying"
  /\ UNCHANGED request

ToolArguments(s) ==
  [ec_type |-> s.ec_type, lib |-> "ECPyECLibDriver", k |-> s.k, m |-> s.m,
   chksum_type |-> "none", local_parity |-> 0]

Trying == ending = "trying" /\ tries # <<>>

\* ECDriver() raises, whatever it is, and the next scheme is tried.
NotDefined ==
  /\ Trying
  /\ tries' = Tail(tries)
  /\ UNCHANGED <<request, min_k, schemes, ending>>

\* The first driver that is made is given a str to encode.
EncodeStr ==
  /\ Trying /\ Verdict(ToolArguments(Head(tries))) = "ok"
  /\ ending' = "ECInvalidParameter"
  /\ UNCHANGED <<request, min_k, schemes, tries>>

\* list.sort() takes no comparison function.
SortResults ==
  /\ ending = "trying" /\ tries = <<>>
  /\ ending' = "TypeError"
  /\ UNCHANGED <<request, min_k, schemes, tries>>

ToolNext == TooLarge \/ get_viable_schemes \/ NotDefined \/ EncodeStr \/ SortResults

ToolSpec == ToolInit /\ [][ToolNext]_toolVars

-----------------------------------------------------------------------------
(* Properties.                                                             *)

ToolTypeOK ==
  /\ IsSuffix(tries, schemes)
  /\ ending \in {"start", "trying", "exit 1", "ECInvalidParameter", "TypeError"}

\* The schemes are those that were asked for (get_viable_schemes, its comments
\* at tools/pyeclib_conf_tool.py:176-189): each has n fragments, tolerates f
\* faults (an XOR code exactly its distance minus one) and has the rate, and
\* none with a better rate than that is missing, however the product rounds.
SchemesMeetRequest ==
  ending \notin {"start", "exit 1", "off"} =>
    LET n == request.n
        f == request.f
        Meets(k) == n - k >= f /\ k * request.r[2] >= request.r[1] * n
        Exceeds(k) == n - k >= f /\ k * request.r[2] > request.r[1] * n
        Found(k, t) == \E i \in DOMAIN schemes : schemes[i] = ECScheme(k, n - k, t)
    IN /\ \A s \in ToSet(schemes) :
            /\ Meets(s.k) /\ s.k + s.m = n
            /\ s.ec_type \in XorNames => HammingDistance(s.ec_type, s.m) = f + 1
       /\ \A k \in 1 .. n : Exceeds(k) =>
            Found(k, "jerasure_rs_vand") /\ Found(k, "jerasure_rs_cauchy")
       /\ \A k \in 1 .. n, t \in {"flat_xor_hd_3", "flat_xor_hd_4"} :
            /\ Exceeds(k) /\ HammingDistance(t, n - k) = f + 1
            /\ k \in 6 .. 15 /\ n - k = 6
            => Found(k, t)
=============================================================================
