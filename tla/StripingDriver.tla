--------------------------- MODULE StripingDriver ---------------------------
(***************************************************************************)
(* ECStripingDriver, which cuts an object into k fragments without parity: *)
(* a client makes one, encodes an object and decodes what it got.  Bytes   *)
(* are told apart by their place, so that the object is <<1, 2, ...>>.     *)
(***************************************************************************)
EXTENDS Integers, Sequences, SequencesExt

CONSTANTS Ks, Ms,    \* numbers of data and parity fragments asked for
          ObjLens    \* lengths of the objects

VARIABLES pc, k, data,
          frags,     \* what the client keeps of the fragments
          result     \* what decode() or reconstruct() returned or raised

vars == <<pc, k, data, frags, result>>

CeilDiv(a, b) == (a + b - 1) \div b

AtMost(x, n) == IF x < n THEN x ELSE n

\* Python's s[a:b] for a >= 0: ends are cut off at the length, and a negative
\* b counts from the end.
Slice(s, a, b) ==
  SubSeq(s, AtMost(a, Len(s)) + 1, IF b < 0 THEN Len(s) + b ELSE AtMost(b, Len(s)))

\* The loop of encode() moves the offset and leaves the end where it is.
Fragments(s) ==
  LET fragment_size      == CeilDiv(Len(s), k)
      last_fragment_size == Len(s) - (fragment_size * k - 1)
  IN [i \in 1..k |-> Slice(s, (i - 1) * fragment_size,
                           IF i < k THEN fragment_size ELSE last_fragment_size)]

None == [error |-> "none", value |-> <<>>]

Init ==
  /\ pc = "new" /\ k \in Ks
  /\ \E n \in ObjLens : data = [i \in 1..n |-> i]
  /\ frags = <<>> /\ result = None

\* Only m = 0 makes a driver.
Construct ==
  /\ pc = "new"
  /\ \E m \in Ms : pc' = IF m = 0 THEN "made" ELSE "refused"
  /\ UNCHANGED <<k, data, frags, result>>

Encode ==
  /\ pc = "made"
  /\ frags' = Fragments(data)
  /\ pc' = "encoded"
  /\ UNCHANGED <<k, data, result>>

\* decode() of all fragments or of too few, and with an option it refuses.
Decode ==
  /\ pc = "encoded"
  /\ \E given \in {frags, Tail(frags)}, option \in BOOLEAN :
       result' = IF option THEN [error |-> "ECDriverError", value |-> <<>>]
                 ELSE IF Len(given) # k
                   THEN [error |-> "ECInsufficientFragments", value |-> <<>>]
                 ELSE [error |-> "none", value |-> FlattenSeq(given)]
  /\ pc' = "decoded"
  /\ UNCHANGED <<k, data, frags>>

\* reconstruct() hands back what it was given, and fragments_needed() the
\* indexes it was asked about.
Reconstruct ==
  /\ pc = "encoded"
  /\ \E given \in {frags, Tail(frags)} :
       result' = IF Len(given) # k THEN [error |-> "ECDriverError", value |-> <<>>]
                 ELSE [error |-> "none", value |-> given]
  /\ pc' = "rebuilt"
  /\ UNCHANGED <<k, data, frags>>

Next == Construct \/ Encode \/ Decode \/ Reconstruct

Spec == Init /\ [][Next]_vars

\* decode() of what encode() returned, all of it and in order, is the object:
\* "a string containing original data" (core.py:331-337).
DecodeInvertsEncode ==
  pc = "decoded" /\ result.error = "none" => result.value = data
=============================================================================
