------------------------------ MODULE Submissions ------------------------------
(***************************************************************************)
(* What the wizard promises of the forms a user submits, without tabs,     *)
(* pages, keys and requests: a submission is held until it is sent, taken  *)
(* back into a form, or replaced by one for the same place; one for        *)
(* another place leaves it alone.  It is sent once, for assurances its     *)
(* purpose allows, whether the back end accepts it or not, and nothing but *)
(* a submission being sent, and others, changes an assurance.              *)
(***************************************************************************)
EXTENDS Naturals

CONSTANTS
  Assurances, Terms, Purposes,
  Place,     \* Place[p]: where submissions for p are held, one at a time
  About      \* About[p]: the sets of assurances a submission for p may be sent for

VARIABLES
  held,      \* the submissions held: [number, purpose, terms]
  last,      \* the number of the last submission
  sent,      \* the numbers of those that were sent
  record     \* record[i]: what the back end holds of assurance i

vars == <<held, last, sent, record>>

Init ==
  /\ held = {} /\ last = 0 /\ sent = {}
  /\ record \in [Assurances -> Terms]

Submit(p, about) ==
  /\ last' = last + 1
  /\ held' = {s \in held : Place[s.purpose] # Place[p]}
               \union {[number |-> last + 1, purpose |-> p, terms |-> about]}
  /\ UNCHANGED <<sent, record>>

TakeBack(s) ==
  /\ UNCHANGED <<last, sent, record>>
  /\ held' = held \ {s}

Send(s, S) ==
  /\ s.number \notin sent
  /\ sent' = sent \union {s.number}
  /\ held' = held \ {s}
  /\ \/ record' = [i \in Assurances |-> IF i \in S THEN s.terms ELSE record[i]]
     \/ record' = record
  /\ UNCHANGED last

ByOthers(i, about) ==
  /\ UNCHANGED <<held, last, sent>>
  /\ record' = [record EXCEPT ![i] = about]

Next ==
  \/ \E i \in Assurances, about \in Terms : ByOthers(i, about)
  \/ \E s \in held : TakeBack(s) \/ \E S \in About[s.purpose] : Send(s, S)
  \/ \E p \in Purposes, about \in Terms : Submit(p, about)

Spec == Init /\ [][Next]_vars
=============================================================================
