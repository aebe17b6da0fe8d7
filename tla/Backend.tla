------------------------------ MODULE Backend -------------------------------
(***************************************************************************)
(* The command line program pyeclib-backend: version, list, check, verify  *)
(* and bench, each a walk over the named codes that ends in an exit        *)
(* status.  One order stands for that of sorted(); segments have a size    *)
(* that can be encoded.                                                    *)
(***************************************************************************)
EXTENDS Codec

CONSTANTS
  CommandLines, \* parsed arguments of the program
  LoadedSets,   \* sets of backends that liberasurecode may find
  Faulty        \* backends that may give back wrong bytes

\* The parser converts the numbers (cli/__init__.py:73-102).
ASSUME CommandLinesAssumption ==
  \A c \in CommandLines : c.k \in Int /\ c.m \in Int /\ c.l \in Int /\ c.u \in Int

VARIABLES
  cli,     \* the arguments
  loaded,  \* the backends found when ec_iface was imported
  types,   \* the codes still to be tried, or the place before they are known
  tally,   \* whether anything failed or was corrupt so far
  made,    \* history: the drivers that were verified or benched
  exit     \* the exit status and the exception that ended the program

cliVars == <<cli, loaded, types, tally, made, exit>>

Running == [status |-> -1, error |-> "none"]
Clean   == [failures |-> FALSE, corrupt |-> FALSE]

\* What a command returns is the exit status; an exception nobody catches is 1.
Return(n)     == exit' = [status |-> n, error |-> "none"]
Traceback(e)  == exit' = [status |-> 1, error |-> e]

-----------------------------------------------------------------------------
(* cli/__init__.py                                                         *)

IsaL     == {"isa_l_rs_vand", "isa_l_rs_cauchy", "isa_l_rs_vand_inv", "isa_l_rs_lrc"}
Jerasure == {"jerasure_rs_vand", "jerasure_rs_cauchy"}
FlatXor  == {"flat_xor_hd_3", "flat_xor_hd_4"}

\* _type_abbreviations and the types they stand for.
Abbreviated(name) ==
  CASE name = "all"                                            -> ALL_EC_TYPES
    [] name \in {"isa-l", "isa_l", "isal"}                     -> IsaL
    [] name = "jerasure"                                       -> Jerasure
    [] name \in {"flat-xor", "flat_xor", "flatxor", "xor"}     -> FlatXor
    [] OTHER                                                   -> {name}

expand_ec_types(user_types) ==
  UNION {Abbreviated(name) : name \in IF user_types = {} THEN {"all"} ELSE user_types}

-----------------------------------------------------------------------------
(* version, list and check; without a command the parser exits with 2.     *)

Main(command) == exit = Running /\ types = {"main"} /\ cli.command = command

NoCommand == Main("none") /\ Return(2) /\ UNCHANGED <<cli, loaded, types, tally, made>>

Version == Main("version") /\ Return(0) /\ UNCHANGED <<cli, loaded, types, tally, made>>

\* With and without --available the available ones are counted.
List ==
  /\ Main("list")
  /\ Return(IF expand_ec_types(cli.ec_type) \cap VALID_EC_TYPES(loaded) # {} THEN 0 ELSE 1)
  /\ UNCHANGED <<cli, loaded, types, tally, made>>

\* check takes one name, and no abbreviation.
Check ==
  /\ Main("check")
  /\ \E name \in cli.ec_type :
       Return(IF name \in VALID_EC_TYPES(loaded) THEN 0
              ELSE IF name \in ALL_EC_TYPES THEN 1 ELSE 2)
  /\ UNCHANGED <<cli, loaded, types, tally, made>>

-----------------------------------------------------------------------------
(* verify and bench walk over the codes.                                   *)

Walks == cli.command \in {"verify", "bench"}

ExpandTypes ==
  /\ exit = Running /\ types = {"main"} /\ Walks
  /\ types' = expand_ec_types(cli.ec_type)
  /\ UNCHANGED <<cli, loaded, tally, made, exit>>

ArgumentsFor(t) ==
  [ec_type |-> t, lib |-> "ECPyECLibDriver", k |-> cli.k, m |-> cli.m,
   chksum_type |-> "none", local_parity |-> cli.l]

\* The code is known, available, and ECDriver() and the library may take the
\* numbers.
MayTry(t)  == /\ t \in VALID_EC_TYPES(loaded) /\ Verdict(ArgumentsFor(t)) = "ok"
              /\ Makeable(Driver(ArgumentsFor(t)))
Errors(t)  == IF Verdict(ArgumentsFor(t)) = "ok" THEN InitErrors(Driver(ArgumentsFor(t)), loaded)
              ELSE {Verdict(ArgumentsFor(t))}

\* The walk has one order.
ThisType == CHOOSE t \in types : TRUE

Walking == exit = Running /\ Walks /\ types \notin {{}, {"main"}}

\* Unknown, not available or not to be instantiated: on to the next one.
SkipType ==
  /\ Walking
  /\ ThisType \in VALID_EC_TYPES(loaded) => Errors(ThisType) \cap ECDriverErrors # {}
  /\ types' = types \ {ThisType}
  /\ UNCHANGED <<cli, loaded, tally, made, exit>>

Decode == -1

\* What check_instance() tries: the sets of n - unavailable fragments, decoded
\* or, with --reconstruct, one of the others rebuilt from them.
Trials(d) ==
  LET sets == kSubset(d.k + d.m - cli.u, Indexes(d))
  IN IF cli.reconstruct
       THEN {t \in sets \X Indexes(d) : t[2] \notin t[1]}
       ELSE sets \X {Decode}

\* Trials that surely succeed, and that may.
Sure(d, t) == IF t[2] = Decode THEN Recovers(d, t[1]) ELSE Rebuilds(d, t[1], t[2]) = {TRUE}
May(d, t)  == IF t[2] = Decode THEN MayRecover(d, t[1]) ELSE TRUE \in Rebuilds(d, t[1], t[2])

\* All of them, or as many samples as iterations says; as what is kept of them
\* is whether one failed, one sample stands for several.
Tried(d) ==
  IF cli.iterations = "all" THEN {Trials(d)}
  ELSE IF cli.iterations = "none" \/ Trials(d) = {} THEN {{}}
  ELSE {{t} : t \in Trials(d)}

\* random.sample() refuses a size below 0 or above that of the population,
\* itertools.combinations() one below 0.
SizeError(d) ==
  \/ cli.u > d.k + d.m /\ cli.iterations # "none"
  \/ cli.u < 0 /\ cli.iterations = "some"

\* What may come of the code, over all that is tried.
Outcomes(d) ==
  {now \in [failures: BOOLEAN, corrupt: BOOLEAN] :
     \E tried \in Tried(d) :
       /\ now.failures => \E t \in tried : ~Sure(d, t)
       /\ now.failures \/ \A t \in tried : May(d, t)
       /\ now.corrupt => d.ec_type \in Faulty /\ \E t \in tried : May(d, t)}

\* Mutant: the totals are those of the last code.
TotalsOfLast(now) == now

Totals(now) == [failures |-> tally.failures \/ now.failures,
                corrupt  |-> tally.corrupt \/ now.corrupt]

VerifyType ==
  /\ Walking /\ cli.command = "verify" /\ MayTry(ThisType)
  /\ LET d == Driver(ArgumentsFor(ThisType))
     IN /\ made' = made \cup {d}
        /\ IF SizeError(d) THEN Traceback("ValueError") /\ UNCHANGED <<types, tally>>
           ELSE /\ \E now \in Outcomes(d) : tally' = Totals(now)
                /\ types' = types \ {ThisType}
                /\ UNCHANGED exit
  /\ UNCHANGED <<cli, loaded>>

VerifyExit ==
  /\ exit = Running /\ cli.command = "verify" /\ types = {}
  /\ Return(IF tally.corrupt THEN 3 ELSE IF tally.failures THEN 1 ELSE 0)
  /\ UNCHANGED <<cli, loaded, types, tally, made>>

\* Mutant: as many parities of the LRC as there are fragments missing.
ParitySampleOfMissing(d) == IF d.ec_type = "flat_xor_hd" THEN d.m ELSE cli.u

\* How many parities bench decodes with.
ParitySample(d) ==
  CASE d.ec_type = "flat_xor_hd"  -> d.m
    [] d.ec_type = "isa_l_rs_lrc" -> cli.u + cli.l - 1
    [] OTHER                      -> cli.u

\* The samples of an iteration: of the data, and of the parities.
Samples(d) ==
  LET Data   == kSubset(d.k - cli.u, DataIndexes(d))
      Parity == kSubset(ParitySample(d), Indexes(d) \ DataIndexes(d))
  IN {s[1] \cup s[2] : s \in Data \X Parity}

\* Decodes where --decode, or no flag, is given; an iteration that fails ends
\* the program, and one stands for several.
BenchType ==
  /\ Walking /\ cli.command = "bench" /\ MayTry(ThisType)
  /\ LET d == Driver(ArgumentsFor(ThisType))
         decodes == (cli.decode \/ ~cli.encode) /\ cli.iterations # "none"
         refused == d.k - cli.u \notin 0 .. d.k \/ ParitySample(d) \notin 0 .. d.m
     IN /\ made' = made \cup {d}
        /\ \/ (decodes => ~refused /\ {S \in Samples(d) : MayRecover(d, S)} # {})
              /\ types' = types \ {ThisType} /\ UNCHANGED exit
           \/ decodes /\ refused
              /\ Traceback("ValueError") /\ UNCHANGED types
           \/ decodes /\ ~refused /\ {S \in Samples(d) : ~Recovers(d, S)} # {}
              /\ Traceback("ECDriverError") /\ UNCHANGED types
  /\ UNCHANGED <<cli, loaded, tally>>

BenchExit ==
  /\ exit = Running /\ cli.command = "bench" /\ types = {}
  /\ Return(0)
  /\ UNCHANGED <<cli, loaded, types, tally, made>>

-----------------------------------------------------------------------------
BackendInit ==
  /\ cli \in CommandLines
  /\ loaded \in LoadedSets
  /\ types = {"main"}
  /\ tally = Clean
  /\ made = {}
  /\ exit = Running

BackendNext ==
  \/ NoCommand \/ Version \/ List \/ Check
  \/ ExpandTypes \/ SkipType \/ VerifyType \/ VerifyExit \/ BenchType \/ BenchExit

BackendSpec == BackendInit /\ [][BackendNext]_cliVars

-----------------------------------------------------------------------------
(* Properties.                                                             *)

BackendTypeOK ==
  /\ exit.status \in {-1, 0, 1, 2, 3}
  /\ exit.error \in {"none", "ValueError", "ECDriverError"}
  /\ exit.error # "none" => exit.status = 1
  /\ tally \in [failures: BOOLEAN, corrupt: BOOLEAN]

\* The exit status of verify, which tries all sets of fragments of all codes,
\* says the truth about them together (cli/verify.py:106-110): after 3 some
\* backend it tried gives wrong bytes, after 1 some code cannot be counted on
\* with so many fragments missing, and after 0 none that was tried is sure to
\* fail with any of them missing.
VerifyExitTruthful ==
  cli.command = "verify" /\ exit.error = "none" =>
    /\ exit.status = 3 => \E d \in made : d.ec_type \in Faulty
    /\ exit.status = 1 => \E d \in made : \E t \in Trials(d) : ~Sure(d, t)
    /\ exit.status = 0 /\ cli.iterations = "all" => \A d \in made : \A t \in Trials(d) : May(d, t)

\* bench decodes from samples that can be decoded (cli/bench.py:78-96): it dies
\* of a failed decode() only with an XOR code and more fragments missing than
\* its distance allows, or with an LRC without local parities.
BenchSampleSuffices ==
  exit.error = "ECDriverError" =>
    LET d == Driver(ArgumentsFor(ThisType))
    IN \/ d.ec_type = "flat_xor_hd" /\ cli.u >= d.hd
       \/ d.ec_type = "isa_l_rs_lrc" /\ cli.l <= 0
=============================================================================
