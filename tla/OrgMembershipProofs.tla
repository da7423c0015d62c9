------------------------ MODULE OrgMembershipProofs ------------------------
(***************************************************************************)
(* What OrgMembership guarantees for every set of customers, roles and     *)
(* people, and every limit of the polling.                                 *)
(***************************************************************************)
EXTENDS OrgMembership, TLAPS

\* A change computes attribute values of the right type from its snapshot.
LEMMA NewValuesTyped ==
  ASSUME NEW o \in Ops, NEW p \in Persons
  PROVE  /\ NewOrgs(o, p) \in SUBSET Orgs
         /\ NewRoles(o, p) \in SUBSET (Orgs \X RoleIds)
<1>1. o.org \in Orgs /\ o.roles \in SUBSET RoleIds
  BY DEF Ops
<1>2. p.orgs \in SUBSET Orgs /\ p.roles \in SUBSET (Orgs \X RoleIds)
  BY DEF Persons
<1> QED
  BY <1>1, <1>2 DEF NewOrgs, NewRoles

\* What a change sends to the IAM system is a request it understands.
LEMMA ModifyTyped ==
  ASSUME TypeOK, NEW a \in Admins, op[a] \in Ops, NEW p \in Persons,
         NEW attr \in {"lmorg", "lmorgroles"}, Modify(a, attr, p)
  PROVE  /\ pending' \subseteq Requests /\ issued' \in Nat
         /\ request' \in [Admins -> Nat] /\ polls' \in [Admins -> 0..MaxPolls]
<1>1. [id |-> issued, attr |-> attr, value |-> NewValue(attr, op[a], p)] \in Requests
  <2>1. CASE attr = "lmorg"
    BY <2>1, NewValuesTyped DEF NewValue, Requests, TypeOK
  <2>2. CASE attr = "lmorgroles"
    BY <2>2, NewValuesTyped DEF NewValue, Requests, TypeOK
  <2> QED
    BY <2>1, <2>2
<1> QED
  BY <1>1, BoundsAssumption DEF Modify, TypeOK

\* Every step of the specification keeps the variables in their types.
THEOREM TypeInvariance == Spec => []TypeOK
<1>1. Init => TypeOK
  <2>1. Nobody \in Persons
    BY DEF Nobody, Persons
  <2>2. 0 \in 0..MaxPolls /\ 0 \in 0..MaxOps
    BY BoundsAssumption
  <2> SUFFICES ASSUME Init
               PROVE  TypeOK
    OBVIOUS
  <2>3. lmorg \subseteq Orgs /\ lmorgroles \subseteq Orgs \X RoleIds
    BY DEF Init
  <2>4. pending = {} /\ issued = 0 /\ cachedOrgs = NoEntry /\ ops = 0 /\ disturbed = FALSE
    BY DEF Init
  <2>5. /\ pc = [a \in Admins |-> "idle"] /\ op = [a \in Admins |-> NoOp]
        /\ person = [a \in Admins |-> Nobody]
        /\ request = [a \in Admins |-> 0] /\ polls = [a \in Admins |-> 0]
    BY DEF Init
  <2> QED
    BY <2>1, <2>2, <2>3, <2>4, <2>5 DEF TypeOK, Modifying
<1>2. TypeOK /\ [Next]_vars => TypeOK'
  <2> SUFFICES ASSUME TypeOK, [Next]_vars
               PROVE  TypeOK'
    OBVIOUS
  <2> USE BoundsAssumption DEF TypeOK, Modifying
  <2>1. ASSUME NEW a \in Admins, NEW o \in Ops, Check(a, o)
        PROVE  TypeOK'
    BY <2>1 DEF Check, Cached, Listed, iam
  <2>2. ASSUME NEW a \in Admins, Start(a)
        PROVE  TypeOK'
    <3>1. [orgs |-> lmorg, roles |-> lmorgroles] \in Persons
      BY DEF Persons
    <3>2. op[a] \in Ops
      BY <2>2 DEF Start
    <3>3. FirstAttr(op[a].kind) \in {"lmorg", "lmorgroles"}
      BY DEF FirstAttr
    <3>4. /\ pending' \subseteq Requests /\ issued' \in Nat
          /\ request' \in [Admins -> Nat] /\ polls' \in [Admins -> 0..MaxPolls]
      BY <2>2, <3>1, <3>2, <3>3, ModifyTyped DEF Start
    <3> QED
      BY <2>2, <3>1, <3>2, <3>4 DEF Start
  <2>3. ASSUME NEW a \in Admins, RefuseOwner(a)
        PROVE  TypeOK'
    BY <2>3 DEF RefuseOwner, iam
  <2>4. ASSUME NEW a \in Admins, Poll(a)
        PROVE  TypeOK'
    BY <2>4 DEF Poll, iam
  <2>5. ASSUME NEW a \in Admins, Continue(a)
        PROVE  TypeOK'
    <3>1. op[a] \in Ops /\ person[a] \in Persons
      BY <2>5 DEF Continue
    <3>2. LastAttr(op[a].kind) \in {"lmorg", "lmorgroles"}
      BY DEF LastAttr
    <3>3. /\ pending' \subseteq Requests /\ issued' \in Nat
          /\ request' \in [Admins -> Nat] /\ polls' \in [Admins -> 0..MaxPolls]
      BY <2>5, <3>1, <3>2, ModifyTyped DEF Continue
    <3> QED
      BY <2>5, <3>1, <3>3 DEF Continue, Outstanding
  <2>6. ASSUME NEW a \in Admins, Complete(a)
        PROVE  TypeOK'
    BY <2>6 DEF Complete, iam, Outstanding
  <2>7. ASSUME NEW a \in Admins, Fail(a)
        PROVE  TypeOK'
    BY <2>7 DEF Fail, iam
  <2>8. ASSUME NEW a \in Admins, Respond(a)
        PROVE  TypeOK'
    BY <2>8 DEF Respond, iam, Persons, Nobody
  <2>9. ASSUME NEW r \in pending, Execute(r)
        PROVE  TypeOK'
    BY <2>9 DEF Execute, Requests
  <2>10. ASSUME NEW refresh \in BOOLEAN, ListOrgs(refresh)
         PROVE  TypeOK'
    BY <2>10 DEF ListOrgs, Cached, Listed, iam
  <2>11. ASSUME Expire
         PROVE  TypeOK'
    BY <2>11 DEF Expire, iam
  <2>12. CASE UNCHANGED vars
    BY <2>12 DEF vars, iam
  <2> HIDE DEF TypeOK
  <2> QED
    BY <2>1, <2>2, <2>3, <2>4, <2>5, <2>6, <2>7, <2>8, <2>9, <2>10, <2>11,
       <2>12 DEF Next, Proceed
<1> QED
  BY <1>1, <1>2, PTL DEF Spec


-----------------------------------------------------------------------------
(* Roles follow memberships.  NoOrphanRoles is not inductive: an accepted   *)
(* request may be executed at any later step, so it must already be safe    *)
(* while it is pending; and it is safe only because the attribute it does   *)
(* not replace still is what the change's snapshot and first request made   *)
(* it.                                                                      *)

\* What an attribute is once the pending request, if any, has been executed.
Half(old, new) == IF pending = {} THEN new ELSE old

CurrentAttr(a) ==
  IF pc[a] = "first" THEN FirstAttr(op[a].kind) ELSE LastAttr(op[a].kind)

\* A change in progress finds the record as its snapshot and its own requests
\* have left it.
OnTrack(a) ==
  LET o == op[a]
      p == person[a]
      first == pc[a] = "first"
  IN
  /\ OrgsOf(p.roles) \subseteq p.orgs
  /\ \A r \in pending : /\ r.id = request[a] /\ r.attr = CurrentAttr(a)
                        /\ r.value = NewValue(r.attr, o, p)
  /\ o.kind = "add" =>
       /\ lmorg = IF first THEN Half(p.orgs, NewOrgs(o, p)) ELSE NewOrgs(o, p)
       /\ lmorgroles = IF first THEN p.roles ELSE Half(p.roles, NewRoles(o, p))
  /\ o.kind = "update" =>
       /\ ~first /\ o.org \in p.orgs
       /\ lmorg = p.orgs /\ lmorgroles = Half(p.roles, NewRoles(o, p))
  /\ o.kind = "remove" =>
       /\ lmorg = IF first THEN p.orgs ELSE Half(p.orgs, NewOrgs(o, p))
       /\ lmorgroles = IF first THEN Half(p.roles, NewRoles(o, p)) ELSE NewRoles(o, p)

\* Executing r leaves no orphan role.
Safe(r) == IF r.attr = "lmorg" THEN OrgsOf(lmorgroles) \subseteq r.value
                               ELSE OrgsOf(r.value) \subseteq lmorg

Undisturbed ==
  /\ \A a, b \in Admins : pc[a] \in Modifying /\ pc[b] \in Modifying => a = b
  /\ \A r, s \in pending : r = s
  /\ OrgsOf(lmorgroles) \subseteq lmorg
  /\ \A r \in pending : Safe(r)
  /\ \A a \in Admins : pc[a] \in Modifying => OnTrack(a)

TrackInv == ~disturbed => Undisturbed

\* The roles a change computes name the customers the snapshot named, and its own
\* one unless it removes the user from it.
LEMMA NewRolesNameOrgs ==
  ASSUME NEW o \in Ops, NEW p \in Persons
  PROVE  /\ OrgsOf(NewRoles(o, p)) \subseteq OrgsOf(p.roles) \union {o.org}
         /\ o.kind = "remove" => o.org \notin OrgsOf(NewRoles(o, p))
<1>1. ASSUME NEW g \in NewRoles(o, p)
      PROVE  /\ g \in p.roles \/ g[1] = o.org
             /\ o.kind = "remove" => g \in p.roles /\ g[1] # o.org
  BY <1>1 DEF NewRoles
<1> QED
  BY <1>1 DEF OrgsOf

\* Every step of the specification preserves TrackInv.
LEMMA TrackInvariance == Spec => []TrackInv
<1>1. Init => TrackInv
  <2> SUFFICES ASSUME Init
               PROVE  Undisturbed
    BY DEF TrackInv
  <2>1. OrgsOf(lmorgroles) \subseteq lmorg
    BY DEF Init, OrgsOf
  <2> QED
    BY <2>1 DEF Init, Undisturbed, Modifying
<1>2. TypeOK /\ TrackInv /\ [Next]_vars => TrackInv'
  <2> SUFFICES ASSUME TypeOK, TrackInv, [Next]_vars, ~disturbed'
               PROVE  Undisturbed'
    BY DEF TrackInv
  <2>0. ~disturbed /\ Undisturbed
    BY DEF TrackInv, Next, Proceed, vars, Check, Start, RefuseOwner, Poll, Continue,
       Complete, Fail, Respond, Execute, ListOrgs, Expire, TypeOK
  <2>1. ASSUME NEW a \in Admins, Start(a)
        PROVE  Undisturbed'
    <3> DEFINE p == [orgs |-> lmorg, roles |-> lmorgroles]
               attr == FirstAttr(op[a].kind)
    <3>1. /\ op[a] \in Ops /\ p \in Persons
          /\ op[a].org \in Orgs /\ op[a].kind \in {"add", "update", "remove"}
      BY <2>1 DEF Start, TypeOK, Persons, Ops
    <3>2. /\ pending = {} /\ \A b \in Admins : pc[b] \notin Modifying
          /\ op[a].kind = "update" => op[a].org \in lmorg
      BY <2>1, <2>0 DEF Start
    <3>3. /\ pending' # {} /\ \A q, s \in pending' : q = s
          /\ \A q \in pending' : /\ q.id = request'[a] /\ q.attr = attr
                                 /\ q.value = NewValue(attr, op[a], p)
          /\ person'[a] = p /\ op' = op /\ lmorg' = lmorg /\ lmorgroles' = lmorgroles
          /\ pc' = [pc EXCEPT ![a] = IF op[a].kind = "update" THEN "last" ELSE "first"]
      BY <2>1, <3>2 DEF Start, Modify, TypeOK
    <3>4. OrgsOf(p.roles) \subseteq p.orgs
      BY <2>0 DEF Undisturbed
    <3>5. ASSUME NEW q \in pending'
          PROVE  Safe(q)'
      <4>1. CASE op[a].kind = "add"
        BY <4>1, <3>1, <3>3, <3>4 DEF Safe, FirstAttr, NewValue, NewOrgs
      <4>2. CASE op[a].kind # "add"
        <5>1. q.attr = "lmorgroles" /\ q.value = NewRoles(op[a], p)
          BY <4>2, <3>3 DEF FirstAttr, NewValue
        <5>2. OrgsOf(NewRoles(op[a], p)) \subseteq lmorg
          BY <4>2, <3>1, <3>2, <3>4, NewRolesNameOrgs
        <5> QED
          BY <5>1, <5>2, <3>3 DEF Safe
      <4> QED
        BY <4>1, <4>2
    <3>6. OnTrack(a)'
      <4> HIDE DEF p
      <4>1. CurrentAttr(a)' = attr
        BY <3>1, <3>3 DEF CurrentAttr, FirstAttr, LastAttr, TypeOK
      <4>2. /\ pc'[a] = "first" <=> op[a].kind # "update"
            /\ op'[a] = op[a] /\ lmorg = p.orgs /\ lmorgroles = p.roles
        BY <3>3 DEF TypeOK, p
      <4> QED
        BY <4>1, <4>2, <3>2, <3>3, <3>4 DEF OnTrack, Half
    <3> QED
      <4>1. OrgsOf(lmorgroles)' \subseteq lmorg'
        BY <2>0, <3>3 DEF Undisturbed
      <4>2. \A b \in Admins : pc'[b] \in Modifying => b = a
        BY <3>2, <3>3 DEF TypeOK
      <4> QED
        BY <4>1, <4>2, <3>3, <3>5, <3>6 DEF Undisturbed
  <2>2. ASSUME NEW a \in Admins, Continue(a)
        PROVE  Undisturbed'
    <3> DEFINE o == op[a]
               p == person[a]
               attr == LastAttr(o.kind)
    <3>1. /\ o \in Ops /\ p \in Persons
          /\ o.org \in Orgs /\ o.kind \in {"add", "update", "remove"}
      BY <2>2 DEF Continue, TypeOK, Persons, Ops
    <3>2. pc[a] = "first" /\ OnTrack(a)
      BY <2>0, <2>2 DEF Continue, Undisturbed, Modifying
    <3>3. pending = {}
      BY <2>0, <2>2, <3>2 DEF Continue, Outstanding, OnTrack
    <3>4. /\ pending' # {} /\ \A q, s \in pending' : q = s
          /\ \A q \in pending' : /\ q.id = request'[a] /\ q.attr = attr
                                 /\ q.value = NewValue(attr, o, p)
          /\ person' = person /\ op' = op /\ lmorg' = lmorg /\ lmorgroles' = lmorgroles
          /\ pc' = [pc EXCEPT ![a] = "last"]
      BY <2>2, <3>3 DEF Continue, Modify, TypeOK
    <3>5. OrgsOf(p.roles) \subseteq p.orgs /\ o.kind # "update"
      BY <3>2 DEF OnTrack
    <3>6. ASSUME NEW q \in pending'
          PROVE  Safe(q)'
      <4>1. CASE o.kind = "add"
        <5>1. q.attr = "lmorgroles" /\ q.value = NewRoles(o, p)
          BY <4>1, <3>4 DEF LastAttr, NewValue
        <5>2. lmorg = p.orgs \union {o.org}
          BY <4>1, <3>2, <3>3 DEF OnTrack, Half, NewOrgs
        <5> QED
          BY <5>1, <5>2, <3>1, <3>4, <3>5, NewRolesNameOrgs DEF Safe
      <4>2. CASE o.kind = "remove"
        <5>1. q.attr = "lmorg" /\ q.value = p.orgs \ {o.org}
          BY <4>2, <3>4 DEF LastAttr, NewValue, NewOrgs
        <5>2. lmorgroles = NewRoles(o, p)
          BY <4>2, <3>2, <3>3 DEF OnTrack, Half
        <5> QED
          BY <4>2, <5>1, <5>2, <3>1, <3>4, <3>5, NewRolesNameOrgs DEF Safe
      <4> QED
        BY <4>1, <4>2, <3>1, <3>5
    <3>7. OnTrack(a)'
      <4>1. CurrentAttr(a)' = attr
        BY <3>4 DEF CurrentAttr, TypeOK
      <4>2. pc'[a] = "last" /\ op'[a] = op[a] /\ person'[a] = person[a]
        BY <3>4 DEF TypeOK
      <4>3. CASE o.kind = "add"
        BY <4>1, <4>2, <4>3, <3>2, <3>3, <3>4, <3>5 DEF OnTrack, Half
      <4>4. CASE o.kind = "remove"
        BY <4>1, <4>2, <4>4, <3>2, <3>3, <3>4, <3>5 DEF OnTrack, Half
      <4> QED
        BY <4>3, <4>4, <3>1, <3>5
    <3> QED
      <4>1. OrgsOf(lmorgroles)' \subseteq lmorg'
        BY <2>0, <3>4 DEF Undisturbed
      <4>2. \A b \in Admins : pc'[b] \in Modifying => b = a
        BY <2>0, <3>2, <3>4 DEF TypeOK, Undisturbed, Modifying
      <4> QED
        BY <4>1, <4>2, <3>4, <3>6, <3>7 DEF Undisturbed
  <2>3. ASSUME NEW r \in pending, Execute(r)
        PROVE  Undisturbed'
    <3>1. /\ pending = {r} /\ pending' = {} /\ Safe(r)
          /\ r.attr \in {"lmorg", "lmorgroles"}
      BY <2>0, <2>3 DEF Execute, Undisturbed, TypeOK, Requests
    <3>2. /\ pc' = pc /\ op' = op /\ person' = person
          /\ r.attr = "lmorg" => lmorg' = r.value /\ lmorgroles' = lmorgroles
          /\ r.attr = "lmorgroles" => lmorgroles' = r.value /\ lmorg' = lmorg
      BY <2>3 DEF Execute
    <3>3. OrgsOf(lmorgroles') \subseteq lmorg'
      BY <3>1, <3>2 DEF Safe
    <3>4. ASSUME NEW a \in Admins, pc[a] \in Modifying
          PROVE  OnTrack(a)'
      <4>1. OnTrack(a)
        BY <2>0, <3>4 DEF Undisturbed
      <4>2. op[a].kind \in {"add", "update", "remove"}
        BY <3>4 DEF TypeOK, Modifying, Ops
      <4>3. r.attr = CurrentAttr(a) /\ r.value = NewValue(r.attr, op[a], person[a])
        BY <3>1, <4>1 DEF OnTrack
      <4> QED
        BY <3>1, <3>2, <3>4, <4>1, <4>2, <4>3
           DEF OnTrack, Half, CurrentAttr, FirstAttr, LastAttr, NewValue, Modifying
    <3>5. OrgsOf(lmorgroles)' = OrgsOf(lmorgroles')
      BY DEF OrgsOf
    <3> QED
      BY <2>0, <3>1, <3>2, <3>3, <3>4, <3>5 DEF Undisturbed
  <2>4. ASSUME UNCHANGED <<lmorg, lmorgroles, pending, op, person, request>>,
               \A a \in Admins : pc'[a] \in Modifying => pc'[a] = pc[a]
        PROVE  Undisturbed'
    BY <2>0, <2>4 DEF Undisturbed, OnTrack, Half, CurrentAttr, Safe, OrgsOf
  <2>5. ASSUME NEW a \in Admins,
               \/ RefuseOwner(a) \/ Poll(a) \/ Complete(a) \/ Fail(a)
        PROVE  Undisturbed'
    BY <2>4, <2>5 DEF RefuseOwner, Poll, Complete, Fail, iam, TypeOK, Modifying
  <2>6. ASSUME NEW a \in Admins, (\E o \in Ops : Check(a, o)) \/ Respond(a)
        PROVE  Undisturbed'
    <3>1. /\ UNCHANGED <<lmorg, lmorgroles, pending>>
          /\ pc[a] \notin Modifying /\ pc'[a] \notin Modifying
          /\ \A b \in Admins \ {a} : /\ pc'[b] = pc[b] /\ op'[b] = op[b]
                                     /\ person'[b] = person[b] /\ request'[b] = request[b]
      BY <2>6 DEF Check, Respond, iam, TypeOK, Modifying
    <3> QED
      BY <2>0, <3>1 DEF Undisturbed, OnTrack, Half, CurrentAttr, Safe, OrgsOf
  <2>7. CASE Expire \/ (\E refresh \in BOOLEAN : ListOrgs(refresh)) \/ UNCHANGED vars
    BY <2>4, <2>7 DEF Expire, ListOrgs, vars, iam
  <2> QED
    BY <2>1, <2>2, <2>3, <2>5, <2>6, <2>7 DEF Next, Proceed
<1> QED
  BY <1>1, <1>2, TypeInvariance, PTL DEF Spec

\* However the IAM system delays the requests and wherever a change fails: the
\* user has no role at a customer it does not belong to, unless changes of
\* different people overlap.
THEOREM NoOrphanRolesHolds == Spec => []NoOrphanRoles
<1>1. TrackInv => NoOrphanRoles
  BY DEF TrackInv, Undisturbed, NoOrphanRoles
<1> QED
  BY <1>1, TrackInvariance, PTL

-----------------------------------------------------------------------------
(* The effect of a change.                                                  *)

\* The roles a change computes: the ones asked for at its own customer, the
\* snapshot's at every other.
LEMMA NewRolesAt ==
  ASSUME NEW o \in Ops, NEW p \in Persons
  PROVE  /\ RolesAt(NewRoles(o, p), o.org) = IF o.kind = "remove" THEN {} ELSE o.roles
         /\ \A other \in Orgs \ {o.org} :
              RolesAt(NewRoles(o, p), other) = RolesAt(p.roles, other)
<1> DEFINE new == IF o.kind = "remove" THEN {} ELSE o.roles
<1>1. NewRoles(o, p) = {g \in p.roles : g[1] # o.org} \union ({o.org} \X new)
  BY DEF NewRoles
<1>2. RolesAt(NewRoles(o, p), o.org) = new
  <2>1. {h \in NewRoles(o, p) : h[1] = o.org} = {o.org} \X new
    BY <1>1
  <2>2. ASSUME NEW role \in new
        PROVE  role \in {g[2] : g \in {o.org} \X new}
    <3>1. <<o.org, role>> \in {o.org} \X new /\ <<o.org, role>>[2] = role
      OBVIOUS
    <3> QED
      BY <3>1
  <2>3. {g[2] : g \in {o.org} \X new} = new
    BY <2>2
  <2> QED
    BY <2>1, <2>3 DEF RolesAt
<1>3. ASSUME NEW other \in Orgs \ {o.org}
      PROVE  RolesAt(NewRoles(o, p), other) = RolesAt(p.roles, other)
  <2>1. {h \in NewRoles(o, p) : h[1] = other} = {h \in p.roles : h[1] = other}
    BY <1>1
  <2> QED
    BY <2>1 DEF RolesAt
<1> QED
  BY <1>2, <1>3

\* A change that no other one overlaps and that completes has had exactly the
\* effect asked for: its last request has been executed, and OnTrack says what
\* the record then is.
THEOREM CompletedChangeTookEffectHolds == Spec => CompletedChangeTookEffect
<1> DEFINE Effect == \A a \in Admins :
             pc[a] = "last" /\ pc'[a] = "done" /\ ~disturbed' => TookEffect(a)
<1>1. TypeOK /\ TrackInv /\ [Next]_vars => [Effect]_vars
  <2> SUFFICES ASSUME TypeOK, TrackInv, [Next]_vars, NEW a \in Admins,
                      pc[a] = "last", pc'[a] = "done", ~disturbed'
               PROVE  TookEffect(a)
    OBVIOUS
  <2>1. Complete(a)
    BY DEF Next, Proceed, vars, iam, Check, Start, RefuseOwner, Poll, Continue, Complete,
       Fail, Respond, Execute, ListOrgs, Expire, TypeOK, Modifying
  <2>2. ~disturbed /\ ~Outstanding(a)
    BY <2>1 DEF Complete, TypeOK
  <2>3. OnTrack(a) /\ op[a] \in Ops /\ person[a] \in Persons
    BY <2>2 DEF TrackInv, Undisturbed, Modifying, TypeOK
  <2>4. pending = {}
    BY <2>2, <2>3 DEF OnTrack, Outstanding
  <2>5. lmorgroles = NewRoles(op[a], person[a]) /\ op[a].kind \in {"add", "update", "remove"}
    BY <2>3, <2>4 DEF OnTrack, Half, Ops
  <2>6. /\ op[a].kind = "remove" => op[a].org \notin lmorg
        /\ op[a].kind # "remove" => op[a].org \in lmorg
        /\ lmorg \ {op[a].org} = person[a].orgs \ {op[a].org}
    BY <2>3, <2>4, <2>5 DEF OnTrack, Half, NewOrgs
  <2> QED
    BY <2>3, <2>5, <2>6, NewRolesAt DEF TookEffect
<1> QED
  BY <1>1, TypeInvariance, TrackInvariance, PTL DEF Spec, CompletedChangeTookEffect

-----------------------------------------------------------------------------
(* One customer at a time.                                                  *)

\* Executing r is a MembershipStep.
OneOrg(r) ==
  \E o \in Orgs :
    IF r.attr = "lmorg"
      THEN \/ r.value = lmorg \union {o}
           \/ r.value = lmorg \ {o} /\ RolesAt(lmorgroles, o) = {}
      ELSE /\ o \in lmorg \/ RolesAt(r.value, o) = {}
           /\ \A other \in Orgs \ {o} : RolesAt(r.value, other) = RolesAt(lmorgroles, other)

OneOrgInv == ~disturbed => \A r \in pending : OneOrg(r)
OneOrgInProgress == \A a \in Admins : pc[a] \in Modifying => OneOrgInv

\* While a change is on track, its request concerns its own customer only.
LEMMA OnTrackOneOrg == TypeOK /\ TrackInv => OneOrgInProgress
<1> SUFFICES ASSUME TypeOK, TrackInv, ~disturbed,
                    NEW a \in Admins, pc[a] \in Modifying, NEW r \in pending
             PROVE  OneOrg(r)
  BY DEF OneOrgInProgress, OneOrgInv
<1> DEFINE o == op[a]
           p == person[a]
<1>1. /\ o \in Ops /\ p \in Persons /\ o.org \in Orgs
      /\ o.kind \in {"add", "update", "remove"}
  BY DEF TypeOK, Modifying, Ops
<1>2. OnTrack(a) /\ pending # {}
  BY DEF TrackInv, Undisturbed
<1>3. r.attr = CurrentAttr(a) /\ r.value = NewValue(r.attr, o, p)
  BY <1>2 DEF OnTrack
<1>4. CASE r.attr = "lmorg"
  <2>1. r.value = NewOrgs(o, p) /\ lmorg = p.orgs
    BY <1>1, <1>2, <1>3, <1>4
       DEF OnTrack, Half, CurrentAttr, FirstAttr, LastAttr, NewValue, Modifying
  <2>2. o.kind = "remove" => lmorgroles = NewRoles(o, p)
    BY <1>1, <1>2, <1>3, <1>4 DEF OnTrack, CurrentAttr, FirstAttr, LastAttr, Modifying
  <2>3. o.kind = "remove" => RolesAt(lmorgroles, o.org) = {}
    BY <1>1, <2>2, NewRolesAt
  <2>4. \/ r.value = lmorg \union {o.org}
        \/ r.value = lmorg \ {o.org} /\ RolesAt(lmorgroles, o.org) = {}
    BY <2>1, <2>3 DEF NewOrgs
  <2> QED
    BY <1>1, <1>4, <2>4 DEF OneOrg
<1>5. CASE r.attr # "lmorg"
  <2>1. r.value = NewRoles(o, p) /\ lmorgroles = p.roles
    BY <1>1, <1>2, <1>3, <1>5
       DEF OnTrack, Half, CurrentAttr, FirstAttr, LastAttr, NewValue, Modifying
  <2>2. o.kind # "remove" => o.org \in lmorg
    BY <1>1, <1>2, <1>3, <1>5
       DEF OnTrack, CurrentAttr, FirstAttr, LastAttr, Modifying, NewOrgs
  <2>3. o.kind = "remove" => RolesAt(r.value, o.org) = {}
    BY <1>1, <2>1, NewRolesAt
  <2>4. \A other \in Orgs \ {o.org} : RolesAt(r.value, other) = RolesAt(lmorgroles, other)
    BY <1>1, <2>1, NewRolesAt
  <2> QED
    BY <1>1, <1>5, <2>2, <2>3, <2>4 DEF OneOrg
<1> QED
  BY <1>4, <1>5

\* Undisturbed, every request waiting in the IAM system, also one left behind by
\* a change that failed, concerns one customer.
LEMMA OneOrgInvariance == Spec => []OneOrgInv
<1>1. Init => OneOrgInv
  BY DEF Init, OneOrgInv
<1>2. TypeOK /\ TrackInv /\ OneOrgInProgress' /\ OneOrgInv /\ [Next]_vars => OneOrgInv'
  <2> SUFFICES ASSUME TypeOK, TrackInv, OneOrgInProgress', OneOrgInv, [Next]_vars, ~disturbed'
               PROVE  OneOrgInv'
    BY DEF OneOrgInv
  <2>0. ~disturbed /\ Undisturbed
    BY DEF TrackInv, Next, Proceed, vars, Check, Start, RefuseOwner, Poll, Continue,
       Complete, Fail, Respond, Execute, ListOrgs, Expire, TypeOK
  <2>1. ASSUME NEW a \in Admins, Start(a) \/ Continue(a)
        PROVE  OneOrgInv'
    BY <2>1 DEF Start, Continue, TypeOK, Modifying, OneOrgInProgress
  <2>2. ASSUME NEW r \in pending, Execute(r)
        PROVE  OneOrgInv'
    BY <2>0, <2>2 DEF Execute, Undisturbed, OneOrgInv
  <2>3. CASE UNCHANGED <<lmorg, lmorgroles, pending>>
    <3>1. ASSUME NEW r \in pending
          PROVE  OneOrg(r)'
      <4>1. OneOrg(r)
        BY <2>0 DEF OneOrgInv
      <4> QED
        BY <4>1, <2>3 DEF OneOrg
    <3> QED
      BY <2>3, <3>1 DEF OneOrgInv
  <2>4. ASSUME NEW a \in Admins,
               \/ RefuseOwner(a) \/ Poll(a) \/ Complete(a) \/ Fail(a) \/ Respond(a)
               \/ \E o \in Ops : Check(a, o)
        PROVE  UNCHANGED <<lmorg, lmorgroles, pending>>
    BY <2>4 DEF RefuseOwner, Poll, Complete, Fail, Respond, Check, iam
  <2>5. Expire \/ (\E refresh \in BOOLEAN : ListOrgs(refresh)) \/ UNCHANGED vars
          => UNCHANGED <<lmorg, lmorgroles, pending>>
    BY DEF Expire, ListOrgs, vars, iam
  <2> QED
    BY <2>1, <2>2, <2>3, <2>4, <2>5 DEF Next, Proceed
<1> QED
  BY <1>1, <1>2, OnTrackOneOrg, TypeInvariance, TrackInvariance, PTL DEF Spec

\* One step of the memberships: a customer joined or left without roles, or the roles
\* at one where the user belongs.
MembershipStep ==
  \E o \in Orgs :
    \/ /\ lmorg' = lmorg \union {o} /\ lmorgroles' = lmorgroles
    \/ /\ lmorg' = lmorg \ {o} /\ lmorgroles' = lmorgroles
       /\ RolesAt(lmorgroles, o) = {}
    \/ /\ o \in lmorg \/ RolesAt(lmorgroles', o) = {}
       /\ lmorg' = lmorg
       /\ \A other \in Orgs \ {o} :
            RolesAt(lmorgroles', other) = RolesAt(lmorgroles, other)

\* Undisturbed, whatever the IAM system executes changes one customer only.
LEMMA RecordStep ==
  ASSUME TypeOK, OneOrgInv, ~disturbed, NEW r \in pending, Execute(r)
  PROVE  MembershipStep
<1>1. /\ r.attr \in {"lmorg", "lmorgroles"}
      /\ r.attr = "lmorg" => lmorg' = r.value /\ lmorgroles' = lmorgroles
      /\ r.attr # "lmorg" => lmorgroles' = r.value /\ lmorg' = lmorg
  BY DEF Execute, TypeOK, Requests
<1>2. OneOrg(r)
  BY DEF OneOrgInv
<1> QED
  BY <1>1, <1>2 DEF OneOrg, MembershipStep

-----------------------------------------------------------------------------
(* The owner, in a deployment whose only page is the portal.  Here nothing  *)
(* is assumed about overlapping changes: whatever snapshot a request was    *)
(* computed from, it contained the owned customers.                         *)

OwnerInv ==
  /\ Owned \subseteq lmorg
  /\ \A r \in pending : r.attr = "lmorg" => Owned \subseteq r.value
  /\ \A a \in Admins : pc[a] = "first" => /\ Owned \subseteq person[a].orgs
                                          /\ op[a].kind = "remove" => op[a].org \notin Owned
  /\ \A a \in Admins : pc[a] = "checked" => op[a].page = "portal"

\* Where the portal is the only page, OwnerInv holds.
KeptInv == "card" \notin Pages => OwnerInv

LEMMA OwnerInvariance == Spec => []KeptInv
<1>1. Init => KeptInv
  BY DEF Init, OwnerInv, KeptInv
<1>2. TypeOK /\ KeptInv /\ [Next]_vars => KeptInv'
  <2> SUFFICES ASSUME TypeOK, OwnerInv, [Next]_vars, "card" \notin Pages
               PROVE  OwnerInv'
    BY DEF KeptInv
  <2> USE DEF OwnerInv
  <2>1. ASSUME NEW a \in Admins, Start(a)
        PROVE  OwnerInv'
    <3> DEFINE p == [orgs |-> lmorg, roles |-> lmorgroles]
    <3>1. op[a].kind = "remove" => op[a].org \notin Owned
      BY <2>1 DEF Start, OwnerNamed
    <3>2. Owned \subseteq NewOrgs(op[a], p)
      BY <3>1 DEF NewOrgs
    <3>3. \A q \in pending' : q \in pending \/ q.attr = "lmorgroles" \/ q.value = NewOrgs(op[a], p)
      BY <2>1 DEF Start, Modify, NewValue, FirstAttr
    <3>4. /\ person' = [person EXCEPT ![a] = p] /\ lmorg' = lmorg /\ op' = op
          /\ pc' = [pc EXCEPT ![a] = IF op[a].kind = "update" THEN "last" ELSE "first"]
      BY <2>1 DEF Start
    <3> QED
      BY <3>1, <3>2, <3>3, <3>4 DEF TypeOK
  <2>2. ASSUME NEW a \in Admins, Continue(a)
        PROVE  OwnerInv'
    <3>1. Owned \subseteq NewOrgs(op[a], person[a])
      <4>1. /\ Owned \subseteq person[a].orgs
            /\ op[a].kind = "remove" => op[a].org \notin Owned
        BY <2>2 DEF Continue
      <4> HIDE DEF OwnerInv, TypeOK
      <4> QED
        BY <4>1 DEF NewOrgs
    <3>2. \A q \in pending' : \/ q \in pending \/ q.attr = "lmorgroles"
                              \/ q.value = NewOrgs(op[a], person[a])
      BY <2>2 DEF Continue, Modify, NewValue, LastAttr
    <3> QED
      BY <2>2, <3>1, <3>2 DEF Continue, TypeOK
  <2>3. ASSUME NEW a \in Admins, NEW o \in Ops, Check(a, o)
        PROVE  OwnerInv'
    <3>1. o.page = "portal"
      BY <2>3 DEF Check, Ops
    <3> QED
      BY <2>3, <3>1 DEF Check, TypeOK, iam
  <2>4. ASSUME NEW a \in Admins,
               RefuseOwner(a) \/ Poll(a) \/ Complete(a) \/ Fail(a) \/ Respond(a)
        PROVE  OwnerInv'
    BY <2>4 DEF RefuseOwner, Poll, Complete, Fail, Respond, TypeOK, iam
  <2>5. ASSUME NEW r \in pending, Execute(r)
        PROVE  OwnerInv'
    BY <2>5 DEF Execute
  <2>6. CASE Expire \/ (\E refresh \in BOOLEAN : ListOrgs(refresh)) \/ UNCHANGED vars
    BY <2>6 DEF Expire, ListOrgs, vars, iam
  <2> HIDE DEF OwnerInv
  <2> QED
    BY <2>1, <2>2, <2>3, <2>4, <2>5, <2>6 DEF Next, Proceed
<1> QED
  BY <1>1, <1>2, TypeInvariance, PTL DEF Spec

\* Through the portal nobody removes the owner of a customer from it, also not by
\* lost updates, late requests or half-made changes.
THEOREM OwnerStaysInPortal == ASSUME "card" \notin Pages PROVE Spec => OwnerStays
<1>1. KeptInv' => [Owned \intersect lmorg \subseteq lmorg']_vars
  BY DEF KeptInv, OwnerInv
<1> QED
  BY <1>1, OwnerInvariance, PTL DEF Spec, OwnerStays

-----------------------------------------------------------------------------
(* The memberships as the specification Membership sees them.               *)

\* The step of the record that the specification Membership allows.
LEMMA AbstractStep ==
  ASSUME TypeOK, TypeOK', OneOrgInv, KeptInv', [Next]_vars
  PROVE  [Abstract!Next]_(Abstract!vars)
<1> DEFINE grants == [o \in Orgs |-> RolesAt(lmorgroles, o)]
           kept == IF "card" \in Pages THEN {} ELSE Owned
<1>1. /\ lmorg \subseteq Orgs /\ lmorg' \subseteq Orgs
      /\ disturbed \in BOOLEAN /\ disturbed' \in BOOLEAN
      /\ \A o : RolesAt(lmorgroles, o) \subseteq RoleIds /\ RolesAt(lmorgroles', o) \subseteq RoleIds
      /\ grants' \in [Orgs -> SUBSET RoleIds]
  BY DEF TypeOK, RolesAt
<1>2. kept \intersect lmorg \subseteq lmorg'
  BY DEF KeptInv, OwnerInv
<1>3. ASSUME NEW r \in pending, Execute(r)
      PROVE  [Abstract!Next]_(Abstract!vars)
  <2>1. disturbed' = disturbed
    BY <1>3 DEF Execute
  <2>2. CASE disturbed
    BY <1>1, <1>2, <2>1, <2>2 DEF Abstract!Next, Abstract!Replace
  <2>3. CASE ~disturbed
    <3>1. PICK o \in Orgs :
             \/ /\ lmorg' = lmorg \union {o} /\ lmorgroles' = lmorgroles
             \/ /\ lmorg' = lmorg \ {o} /\ lmorgroles' = lmorgroles
                /\ RolesAt(lmorgroles, o) = {}
             \/ /\ o \in lmorg \/ RolesAt(lmorgroles', o) = {}
                /\ lmorg' = lmorg
                /\ \A other \in Orgs \ {o} :
                     RolesAt(lmorgroles', other) = RolesAt(lmorgroles, other)
      BY <1>3, <2>3, RecordStep DEF MembershipStep
    <3>2. CASE lmorg' = lmorg \union {o} /\ lmorgroles' = lmorgroles
      BY <2>1, <3>2 DEF Abstract!Next, Abstract!Join
    <3>3. CASE lmorg' = lmorg \ {o} /\ lmorgroles' = lmorgroles /\ RolesAt(lmorgroles, o) = {}
      <4>1. CASE o \in lmorg
        BY <1>2, <2>1, <3>3, <4>1 DEF Abstract!Next, Abstract!Leave
      <4>2. CASE o \notin lmorg
        BY <2>1, <3>3, <4>2 DEF Abstract!vars
      <4> QED
        BY <4>1, <4>2
    <3>4. CASE /\ o \in lmorg \/ RolesAt(lmorgroles', o) = {}
               /\ lmorg' = lmorg
               /\ \A other \in Orgs \ {o} :
                    RolesAt(lmorgroles', other) = RolesAt(lmorgroles, other)
      <4>1. grants' = [grants EXCEPT ![o] = RolesAt(lmorgroles', o)]
        BY <3>4
      <4>2. RolesAt(lmorgroles', o) \in SUBSET RoleIds
        BY <1>1
      <4> QED
        BY <2>1, <3>4, <4>1, <4>2 DEF Abstract!Next, Abstract!SetRoles
    <3> QED
      BY <3>1, <3>2, <3>3, <3>4
  <2> QED
    BY <1>1, <2>2, <2>3
<1>4. CASE ~\E r \in pending : Execute(r)
  <2>1. UNCHANGED <<lmorg, lmorgroles>>
    BY <1>4 DEF Next, Proceed, vars, iam, Check, Start, RefuseOwner, Poll, Continue, Complete,
                Fail, Respond, ListOrgs, Expire
  <2>2. disturbed => disturbed'
    BY <1>4 DEF Next, Proceed, vars, Check, Start, RefuseOwner, Poll, Continue, Complete,
                Fail, Respond, ListOrgs, Expire
  <2>3. CASE disturbed' = disturbed
    BY <2>1, <2>3 DEF Abstract!vars
  <2>4. CASE disturbed' # disturbed
    BY <1>1, <2>1, <2>2, <2>4 DEF Abstract!Next, Abstract!Interfere
  <2> QED
    BY <2>3, <2>4
<1> QED
  BY <1>3, <1>4

\* OrgMembership implements Membership.
THEOREM Implementation == Spec => ImplementsMembership
<1>1. Init => Abstract!Init
  BY DEF Init, RolesAt, Abstract!Init
<1> QED
  BY <1>1, AbstractStep, TypeInvariance, OneOrgInvariance, OwnerInvariance, PTL
     DEF Spec, ImplementsMembership, Abstract!Spec
=============================================================================
