------------------------------ MODULE ReadThrough ------------------------------
(***************************************************************************)
(* What a cache of answers promises, without requests, failures of a call  *)
(* half way, or invalidation attributes: an entry is learnt whole from the *)
(* back end as it is at that moment, is forgotten at any time, and is      *)
(* forgotten before the content it was learnt from changes.  Only a        *)
(* suspect entry may be out of date; the next thing learnt or forgotten    *)
(* under its key puts it right.                                            *)
(***************************************************************************)
EXTENDS Naturals

CONSTANTS
  Keys,
  Absent,   \* no entry
  Default   \* an entry that stands for a failed call

VARIABLES
  value,    \* value[k]: the version of the content of k in the back end
  known,    \* known[k]: the entry of k
  suspect   \* the keys whose entry may be out of date

vars == <<value, known, suspect>>

Init ==
  /\ value \in [Keys -> Nat]
  /\ known = [k \in Keys |-> Absent]
  /\ suspect = {}

Enter(k, v) == known' = [known EXCEPT ![k] = v] /\ UNCHANGED value

Learn(k) ==
  /\ Enter(k, value[k]) \/ Enter(k, Default)
  /\ suspect' = suspect \ {k}

Misread(k) ==
  /\ Enter(k, Default) \/ \E v \in 0..value[k] : Enter(k, v)
  /\ suspect' = suspect \union {k}

Forget(k) ==
  /\ Enter(k, Absent)
  /\ suspect' = suspect \ {k}

Change(S) ==
  /\ \A k \in S \ suspect : known[k] = Absent
  /\ value' = [k \in Keys |-> IF k \in S THEN value[k] + 1 ELSE value[k]]
  /\ UNCHANGED <<known, suspect>>

Next ==
  \/ \E k \in Keys : Learn(k) \/ Misread(k) \/ Forget(k)
  \/ \E S \in SUBSET Keys : Change(S)

Spec == Init /\ [][Next]_vars
=============================================================================
