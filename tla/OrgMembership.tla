----------------------------- MODULE OrgMembership -----------------------------
(***************************************************************************)
(* OrganizationUserRepository's changes of one user's memberships, with    *)
(* the pages that call them.  The user's person record in the IAM system   *)
(* has two attributes: lmorg (the customers the user belongs to) and       *)
(* lmorgroles (the roles the user has at each).  A change reads the record *)
(* once, computes the new value of each attribute from that snapshot, and  *)
(* replaces the attributes one after the other by two IAM requests, which  *)
(* the IAM system executes later, in its own time.  After each request     *)
(* WaitForCompletion polls a bounded number of times, then goes on as if   *)
(* the request had completed.                                              *)
(*                                                                         *)
(* The portal page (HandleOrganizationPage, AddUserToOrganization) lets    *)
(* the owner of a customer manage its users; the customer card is the      *)
(* customer service's page for the same changes.                           *)
(***************************************************************************)
EXTENDS Naturals, FiniteSets

CONSTANTS
  Admins,    \* the requests of people who change the user's memberships
  Orgs,      \* customers
  RoleIds,   \* role ids
  Owned,     \* the customers whose owner is the user
  Pages,     \* the pages in use: "portal", "card"
  MaxPolls,  \* WaitForCompletion's limit (10 in the code)
  MaxOps,    \* bound: the number of changes started
  NoEntry    \* the user's customer list is not in the cache

ASSUME OwnedAssumption == Owned \subseteq Orgs
ASSUME PagesAssumption == Pages \subseteq {"portal", "card"}
ASSUME BoundsAssumption == MaxPolls \in Nat /\ MaxOps \in Nat

VARIABLES
  lmorg,       \* IAM: the customers of the user
  lmorgroles,  \* IAM: pairs <<customer, role>>
  pending,     \* IAM: requests accepted and not yet executed
  issued,      \* IAM: the number of requests accepted so far
  cachedOrgs,  \* the cached answer of GetOrganizationsOfUser
  pc,          \* pc[a]: where the change of request a is
  op,          \* op[a]: the change a makes
  person,      \* person[a]: the snapshot a's search returned
  request,     \* request[a]: the id of the IAM request a waits for
  polls,       \* polls[a]: how often a has polled for it
  ops,         \* the number of changes started (bounded by MaxOps)
  disturbed    \* history: a change began while another one, or a request left
               \* behind by one, was in progress; or gave up waiting; or set
               \* roles at a customer the user does not belong to

iam == <<lmorg, lmorgroles, pending, issued>>
vars == <<iam, cachedOrgs, pc, op, person, request, polls, ops, disturbed>>

\* Joining and updating name at least one role (both pages split the list of ids
\* they are sent).
Ops == [kind : {"add", "update"}, page : {"portal", "card"}, org : Orgs,
        roles : (SUBSET RoleIds) \ {{}}]
         \union [kind : {"remove"}, page : {"portal", "card"}, org : Orgs, roles : {{}}]
Persons == [orgs : SUBSET Orgs, roles : SUBSET (Orgs \X RoleIds)]
Requests == [id : Nat, attr : {"lmorg"}, value : SUBSET Orgs]
              \union [id : Nat, attr : {"lmorgroles"}, value : SUBSET (Orgs \X RoleIds)]
Modifying == {"first", "last"}
NoOp == [kind |-> "none"]

OrgsOf(grants) == {g[1] : g \in grants}
RolesAt(grants, o) == {g[2] : g \in {h \in grants : h[1] = o}}

TypeOK ==
  /\ lmorg \subseteq Orgs /\ lmorgroles \subseteq Orgs \X RoleIds
  /\ pending \subseteq Requests /\ issued \in Nat
  /\ cachedOrgs \in {NoEntry} \union ((SUBSET Orgs) \ {{}})
  /\ pc \in [Admins -> Modifying \union {"idle", "checked", "done", "failed"}]
  /\ op \in [Admins -> Ops \union {NoOp}]
  /\ person \in [Admins -> Persons]
  /\ request \in [Admins -> Nat] /\ polls \in [Admins -> 0..MaxPolls]
  /\ ops \in 0..MaxOps /\ disturbed \in BOOLEAN
  /\ \A a \in Admins : pc[a] # "idle" => op[a] \in Ops

Nobody == [orgs |-> {}, roles |-> {}]

\* The user owns what it owns and may belong to other customers, with roles only
\* where it belongs.
Init ==
  /\ lmorg \in {s \in SUBSET Orgs : Owned \subseteq s}
  /\ lmorgroles \in SUBSET (lmorg \X RoleIds)
  /\ pending = {} /\ issued = 0
  /\ cachedOrgs = NoEntry
  /\ pc = [a \in Admins |-> "idle"]
  /\ op = [a \in Admins |-> NoOp]
  /\ person = [a \in Admins |-> Nobody]
  /\ request = [a \in Admins |-> 0] /\ polls = [a \in Admins |-> 0]
  /\ ops = 0 /\ disturbed = FALSE

-----------------------------------------------------------------------------
(* The IAM system (person service and request service), external.            *)

\* It executes an accepted request: the attribute is replaced as a whole.
Execute(r) ==
  /\ r \in pending
  /\ pending' = pending \ {r}
  /\ IF r.attr = "lmorg" THEN lmorg' = r.value /\ UNCHANGED lmorgroles
                         ELSE lmorgroles' = r.value /\ UNCHANGED lmorg
  /\ UNCHANGED <<issued, cachedOrgs, pc, op, person, request, polls, ops, disturbed>>

-----------------------------------------------------------------------------
(* The cached customer list of the user.                                     *)

Cached(list) == IF list = {} THEN cachedOrgs ELSE list
Listed == IF cachedOrgs = NoEntry THEN lmorg ELSE cachedOrgs

\* Any page of the user reads its customer list (GetActiveCustomer), possibly
\* with refresh; an empty list is not cached.
ListOrgs(refresh) ==
  /\ cachedOrgs' = Cached(IF refresh THEN lmorg ELSE Listed)
  /\ UNCHANGED <<iam, pc, op, person, request, polls, ops, disturbed>>

Expire ==
  /\ cachedOrgs # NoEntry
  /\ cachedOrgs' = NoEntry
  /\ UNCHANGED <<iam, pc, op, person, request, polls, ops, disturbed>>

-----------------------------------------------------------------------------
(* A change of the memberships.                                              *)

\* Variants a slip would produce: an added customer replaces the others; the
\* old roles at the customer are not filtered out.
NewOrgsOnlyAdded(o, p) ==
  IF o.kind = "remove" THEN p.orgs \ {o.org} ELSE {o.org}
NewRolesUnfiltered(o, p) == p.roles \union ({o.org} \X o.roles)

\* What replaces the two attributes, computed from the snapshot p.
NewOrgs(o, p) ==
  IF o.kind = "remove" THEN p.orgs \ {o.org} ELSE p.orgs \union {o.org}
NewRoles(o, p) ==
  {g \in p.roles : g[1] # o.org}
    \union ({o.org} \X (IF o.kind = "remove" THEN {} ELSE o.roles))
NewValue(attr, o, p) == IF attr = "lmorg" THEN NewOrgs(o, p) ELSE NewRoles(o, p)

\* Variant: leaving comes before losing the roles.
FirstAttrSwapped(kind) == IF kind = "update" THEN "lmorgroles" ELSE "lmorg"

\* The attribute a change replaces first: joining precedes getting roles, losing
\* the roles precedes leaving.  An update replaces the roles only.
FirstAttr(kind) == IF kind = "add" THEN "lmorg" ELSE "lmorgroles"
LastAttr(kind) == IF kind = "remove" THEN "lmorg" ELSE "lmorgroles"

\* modifyPersonAsync: the IAM system accepts a's request to replace attr.
Modify(a, attr, p) ==
  /\ pending' = pending \union
       {[id |-> issued, attr |-> attr, value |-> NewValue(attr, op[a], p)]}
  /\ issued' = issued + 1
  /\ request' = [request EXCEPT ![a] = issued]
  /\ polls' = [polls EXCEPT ![a] = 0]

\* The page checks, on the cached list, that the user belongs to the customer
\* (or not yet, for an add).  The customer card does not check.
Check(a, o) ==
  /\ pc[a] = "idle" /\ ops < MaxOps
  /\ o.page \in Pages
  /\ IF o.page = "portal"
       THEN /\ o.kind = "add" <=> o.org \notin Listed
            /\ cachedOrgs' = Cached(Listed)
       ELSE UNCHANGED cachedOrgs
  /\ pc' = [pc EXCEPT ![a] = "checked"]
  /\ op' = [op EXCEPT ![a] = o]
  /\ ops' = ops + 1
  /\ UNCHANGED <<iam, person, request, polls, disturbed>>

\* Variant: the page passes a record without the owner.
OwnerUnknown(o) == FALSE

\* The owner id in the customer record the page passes: the portal takes the
\* record from the user's customer list; the customer card builds one from the
\* customer number alone, so its owner id is 0 and is nobody's.
OwnerNamed(o) == o.page = "portal" /\ o.org \in Owned

\* The repository method starts: the owner check, the search of the person, the
\* first request.  (Its [CacheInvalidate] has just removed the customer list;
\* UpdateUserCustomerRolesAsync does not invalidate it.)
Start(a) ==
  /\ pc[a] = "checked"
  /\ ~(op[a].kind = "remove" /\ OwnerNamed(op[a]))
  /\ LET p == [orgs |-> lmorg, roles |-> lmorgroles] IN
       /\ person' = [person EXCEPT ![a] = p]
       /\ Modify(a, FirstAttr(op[a].kind), p)
  /\ pc' = [pc EXCEPT ![a] = IF op[a].kind = "update" THEN "last" ELSE "first"]
  /\ cachedOrgs' = IF op[a].kind = "update" THEN cachedOrgs ELSE NoEntry
  /\ disturbed' = \/ disturbed
                  \/ pending # {}
                  \/ \E b \in Admins : pc[b] \in Modifying
                  \/ op[a].kind = "update" /\ op[a].org \notin lmorg
  /\ UNCHANGED <<lmorg, lmorgroles, op, ops>>

\* "Cannot remove user ... because it is the owner": an exception, after the
\* customer list has been invalidated.
RefuseOwner(a) ==
  /\ pc[a] = "checked"
  /\ op[a].kind = "remove" /\ OwnerNamed(op[a])
  /\ pc' = [pc EXCEPT ![a] = "failed"]
  /\ cachedOrgs' = NoEntry
  /\ UNCHANGED <<iam, op, person, request, polls, ops, disturbed>>

Outstanding(a) == \E r \in pending : r.id = request[a]

\* Variant: the limit of the loop is not tested.
PollForever(a) ==
  /\ pc[a] \in Modifying /\ Outstanding(a)
  /\ polls' = [polls EXCEPT ![a] = @ + 1]
  /\ UNCHANGED <<iam, cachedOrgs, pc, op, person, request, ops, disturbed>>

\* WaitForCompletion: not completed yet, and not polled often enough.
Poll(a) ==
  /\ pc[a] \in Modifying /\ Outstanding(a)
  /\ polls[a] < MaxPolls
  /\ polls' = [polls EXCEPT ![a] = @ + 1]
  /\ UNCHANGED <<iam, cachedOrgs, pc, op, person, request, ops, disturbed>>

\* Variant: the loop has no limit.
WaitedForever(a) == ~Outstanding(a)

\* WaitForCompletion returns: completed, or polled often enough.
Waited(a) == ~Outstanding(a) \/ polls[a] = MaxPolls

\* The second request, with the snapshot of the start.
Continue(a) ==
  /\ pc[a] = "first" /\ Waited(a)
  /\ Modify(a, LastAttr(op[a].kind), person[a])
  /\ pc' = [pc EXCEPT ![a] = "last"]
  /\ disturbed' = (disturbed \/ Outstanding(a))
  /\ UNCHANGED <<lmorg, lmorgroles, cachedOrgs, op, person, ops>>

Complete(a) ==
  /\ pc[a] = "last" /\ Waited(a)
  /\ pc' = [pc EXCEPT ![a] = "done"]
  /\ disturbed' = (disturbed \/ Outstanding(a))
  /\ UNCHANGED <<iam, cachedOrgs, op, person, request, polls, ops>>

\* A service call throws (login, search, modify or poll).  What was requested so
\* far stays requested; there is no compensation.
Fail(a) ==
  /\ pc[a] \in {"checked"} \union Modifying
  /\ pc' = [pc EXCEPT ![a] = "failed"]
  /\ cachedOrgs' \in IF pc[a] = "checked" /\ op[a].kind # "update"
                       THEN {cachedOrgs, NoEntry} ELSE {cachedOrgs}
  /\ UNCHANGED <<iam, op, person, request, polls, ops, disturbed>>

\* The response is sent; the request may make another change.
Respond(a) ==
  /\ pc[a] \in {"done", "failed"}
  /\ pc' = [pc EXCEPT ![a] = "idle"]
  /\ op' = [op EXCEPT ![a] = NoOp]
  /\ person' = [person EXCEPT ![a] = Nobody]
  /\ request' = [request EXCEPT ![a] = 0] /\ polls' = [polls EXCEPT ![a] = 0]
  /\ UNCHANGED <<iam, cachedOrgs, ops, disturbed>>

Proceed(a) ==
  \/ Start(a) \/ RefuseOwner(a) \/ Poll(a) \/ Continue(a) \/ Complete(a)
  \/ Respond(a)

Next ==
  \/ \E a \in Admins : \/ \E o \in Ops : Check(a, o)
                       \/ Proceed(a) \/ Fail(a)
  \/ \E r \in pending : Execute(r)
  \/ \E refresh \in BOOLEAN : ListOrgs(refresh)
  \/ Expire

Spec == Init /\ [][Next]_vars

\* A started request is scheduled again (its awaited calls return or throw).
\* Nothing is assumed of the IAM system.
FairSpec == Spec /\ \A a \in Admins : WF_vars(Proceed(a))

-----------------------------------------------------------------------------
(* Properties.                                                               *)

\* The order of the two requests keeps roles and memberships consistent at every
\* moment, also when a change fails half way: undisturbed, the user never has a
\* role at a customer it does not belong to.
NoOrphanRoles == ~disturbed => OrgsOf(lmorgroles) \subseteq lmorg

\* The record holds what the change of a was to make of its snapshot.
TookEffect(a) ==
  LET o == op[a] IN
  /\ IF o.kind = "remove"
       THEN o.org \notin lmorg /\ RolesAt(lmorgroles, o.org) = {}
       ELSE o.org \in lmorg /\ RolesAt(lmorgroles, o.org) = o.roles
  /\ lmorg \ {o.org} = person[a].orgs \ {o.org}
  /\ \A other \in Orgs \ {o.org} :
       RolesAt(lmorgroles, other) = RolesAt(person[a].roles, other)

\* An undisturbed change that completes has had its effect (both requests were
\* executed, for the customer and the roles asked for) and no other.
CompletedChangeTookEffect ==
  [][\A a \in Admins :
       pc[a] = "last" /\ pc'[a] = "done" /\ ~disturbed' => TookEffect(a)]_vars

\* Whatever the requests, snapshots and polls of the changes do, the record changes
\* as Membership says: one customer at a time and roles after membership, until
\* changes interfere; and, where the portal is the only page, nobody loses what it
\* owns, whether changes interfere or not.
Abstract == INSTANCE Membership WITH
  members <- lmorg,
  grants <- [o \in Orgs |-> RolesAt(lmorgroles, o)],
  interfered <- disturbed,
  Kept <- IF "card" \in Pages THEN {} ELSE Owned

ImplementsMembership == Abstract!Spec

\* "Cannot remove user {user} because it is the owner of organization {customer}"
\* (RemoveUserFromOrganizationsAsync): the owner keeps its membership, through
\* lost updates, late requests and failures.
OwnerStays == [][Owned \intersect lmorg \subseteq lmorg']_vars

\* A change ends, even if the IAM system never completes a request.
ChangeEnds == \A a \in Admins : pc[a] = "checked" ~> pc[a] \in {"done", "failed"}
=============================================================================
