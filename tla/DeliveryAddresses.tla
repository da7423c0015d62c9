--------------------------- MODULE DeliveryAddresses ---------------------------
(***************************************************************************)
(* Who is notified of the deliveries to an address of a customer           *)
(* (HandleDeliveryAddressesController).  The form shows the users of the   *)
(* customer with a box for each, ticked for those who are notified; saving *)
(* it asks again who is notified, and has the difference removed and added *)
(* by two calls.  Nothing locks the address: several users of a customer   *)
(* may have its form open, or be saving it, at once.                       *)
(*                                                                         *)
(* Every call may fail.  OrganizationRepository is wired to mask failures: *)
(* a failed question is answered with null, which the handlers take for an *)
(* empty list, and a failed change is not noticed, with part of its effect *)
(* or none.                                                                *)
(*                                                                         *)
(* The address itself (street, silos, directions) is left out: customer    *)
(* service changes, adds and removes addresses by hand, asked through the  *)
(* portal or not.                                                          *)
(***************************************************************************)
EXTENDS FiniteSets

CONSTANTS
  Pages,      \* the pages open, each in a session of its own
  Addresses,  \* the addresses the customer has at some time
  Users,      \* who may be notified
  None        \* no address

ASSUME NoneAssumption == None \notin Addresses

VARIABLES
  addresses,  \* back end: the addresses there are
  receivers,  \* back end: receivers[a], who is notified of deliveries to a
  page,       \* page[p]: what page p shows, or its request is about to do
  contested,  \* history: contested[p]: about whom the save of p is disturbed, by
              \* another save that wants the opposite or by a failure of its own
  unseen      \* history: unseen[p]: who may be notified without the form of p
              \* knowing, because it could not ask or because they came later

vars == <<addresses, receivers, page, contested, unseen>>

\* "open", "boxes": the form is being made; "read", "remove", "add": it is being
\* saved; "saved": the list is about to be shown again.
Saving == {"read", "remove", "add"}
Steps == {"list", "open", "boxes", "form", "saved"} \union Saving
PageStates ==
  [at : Steps, address : Addresses \union {None},
   shown : SUBSET Users,     \* whom the form shows as notified, before any click
   boxes : SUBSET Users,     \* the users it has a box for
   chosen : SUBSET Users,    \* the ticked ones
   previous : SUBSET Users]  \* who is notified when the save asks

TypeOK ==
  /\ addresses \subseteq Addresses
  /\ receivers \in [Addresses -> SUBSET Users]
  /\ page \in [Pages -> PageStates]
  /\ \A p \in Pages : page[p].at \notin {"list", "saved"} => page[p].address \in Addresses
  /\ contested \in [Pages -> SUBSET Users] /\ unseen \in [Pages -> SUBSET Users]

ListPage == [at |-> "list", address |-> None, shown |-> {}, boxes |-> {}, chosen |-> {},
             previous |-> {}]

Init ==
  /\ addresses \in SUBSET Addresses
  /\ receivers \in [Addresses -> SUBSET Users]
  /\ \A a \in Addresses \ addresses : receivers[a] = {}
  /\ page = [p \in Pages |-> ListPage]
  /\ contested = [p \in Pages |-> {}] /\ unseen = [p \in Pages |-> {}]

About(p, a) == page[p].address = a
Saves(p, a) == About(p, a) /\ page[p].at \in Saving

-----------------------------------------------------------------------------
(* The form.                                                                 *)

\* The list again: after a save; after the user has asked for the removal of the
\* address, or has left the form; from a form whose customer is lost, or that could
\* not be made.
ShowList(p) ==
  /\ page[p].at \in {"boxes", "form", "saved"}
  /\ page' = [page EXCEPT ![p] = ListPage]
  /\ contested' = [contested EXCEPT ![p] = {}]
  /\ unseen' = [unseen EXCEPT ![p] = {}]
  /\ UNCHANGED <<addresses, receivers>>

\* "Redigera": the address is looked up (if there is none any more, or the question
\* fails, the list is shown again).
OpenForm(p, a) ==
  /\ page[p].at = "list" /\ a \in addresses
  /\ page' = [page EXCEPT ![p] = [ListPage EXCEPT !.at = "open", !.address = a]]
  /\ UNCHANGED <<addresses, receivers, contested, unseen>>

ReadReceivers(p) ==
  /\ page[p].at = "open"
  /\ \E answered \in BOOLEAN :
       /\ page' = [page EXCEPT ![p] =
            [@ EXCEPT !.at = "boxes",
                      !.shown = IF answered THEN receivers[page[p].address] ELSE {}]]
       /\ unseen' = [unseen EXCEPT ![p] = IF answered THEN {} ELSE Users]
  /\ UNCHANGED <<addresses, receivers, contested>>

\* Variant: the boxes are shown without their ticks.
TickedNone(s, boxes) == {}

Ticked(s, boxes) == s.shown \intersect boxes

\* Variant: the number of the address is not among the form's hidden fields.
ReadUsersNoAddress(p) ==
  /\ page[p].at = "boxes"
  /\ \E boxes \in SUBSET Users :
       page' = [page EXCEPT ![p] = [ListPage EXCEPT !.at = "form", !.boxes = boxes]]
  /\ UNCHANGED <<addresses, receivers, contested, unseen>>

\* The users of the customer, whoever they are now, get a box each; without an answer
\* there is none.  (A fault of the security service is not masked: ShowList.)
ReadUsers(p) ==
  /\ page[p].at = "boxes"
  /\ \E boxes \in SUBSET Users :
       LET ticked == Ticked(page[p], boxes) IN
       page' = [page EXCEPT ![p] =
         [@ EXCEPT !.at = "form", !.boxes = boxes, !.shown = ticked, !.chosen = ticked]]
  /\ UNCHANGED <<addresses, receivers, contested, unseen>>

\* The user ticks a box, or takes the tick away.
Toggle(p, u) ==
  /\ page[p].at = "form" /\ u \in page[p].boxes
  /\ page' = [page EXCEPT ![p] =
       [page[p] EXCEPT !.chosen = (@ \ {u}) \union ({u} \ @)]]
  /\ UNCHANGED <<addresses, receivers, contested, unseen>>

-----------------------------------------------------------------------------
(* Saving.                                                                   *)

Differ(p, q) ==
  (page[p].chosen \ page[q].chosen) \union (page[q].chosen \ page[p].chosen)

\* UpdateAddress.  What becomes of the address is customer service's; its outcome
\* is what the confirmation tells.
UpdateAddress(p) ==
  /\ page[p].at = "form"
  /\ page' = [page EXCEPT ![p] = [@ EXCEPT !.at = "read"]]
  /\ LET a == page[p].address
         Others == {q \in Pages \ {p} : Saves(q, a)} IN
       contested' = [q \in Pages |->
         IF q = p THEN IF a \in addresses THEN UNION {Differ(p, r) : r \in Others} ELSE Users
         ELSE IF q \in Others THEN contested[q] \union Differ(p, q)
         ELSE contested[q]]
  /\ UNCHANGED <<addresses, receivers, unseen>>

ReadPrevious(p) ==
  /\ page[p].at = "read"
  /\ \E answered \in BOOLEAN :
       /\ page' = [page EXCEPT ![p] =
            [@ EXCEPT !.at = "remove",
                      !.previous = IF answered THEN receivers[page[p].address] ELSE {}]]
       /\ contested' = [contested EXCEPT ![p] = IF answered THEN @ ELSE Users]
  /\ UNCHANGED <<addresses, receivers, unseen>>

\* Variant: what the form showed is taken for what there is.
ListAddedIdsTicked(s) == s.chosen \ s.shown

\* GetListRemovedIds, GetListAddedIds: the difference to who is notified now.
ListRemovedIds(s) == s.previous \ s.chosen
ListAddedIds(s) == s.chosen \ s.previous

\* A change of S at once, or after a failure any part of it (external).  Nothing is
\* called for an empty list.
Effects(S) ==
  {[done |-> S, failed |-> FALSE]}
    \union IF S = {} THEN {} ELSE [done : SUBSET S, failed : {TRUE}]

DeleteReceivers(p) ==
  /\ page[p].at = "remove"
  /\ \E e \in Effects(ListRemovedIds(page[p])) :
       /\ receivers' = [receivers EXCEPT ![page[p].address] = @ \ e.done]
       /\ contested' = [contested EXCEPT ![p] = IF e.failed THEN Users ELSE @]
  /\ page' = [page EXCEPT ![p] = [@ EXCEPT !.at = "add"]]
  /\ UNCHANGED <<addresses, unseen>>

\* The back end knows no receivers of an address there is not.  Then the list is
\* to be shown again.
CreateReceivers(p) ==
  LET a == page[p].address IN
  /\ page[p].at = "add"
  /\ \E e \in Effects(ListAddedIds(page[p])) :
       LET came == IF a \in addresses THEN e.done \ receivers[a] ELSE {} IN
       /\ receivers' = [receivers EXCEPT ![a] = @ \union came]
       /\ contested' = [contested EXCEPT ![p] = IF e.failed THEN Users ELSE @]
       /\ unseen' = [q \in Pages |->
            IF About(q, a) THEN unseen[q] \union came ELSE unseen[q]]
  /\ page' = [page EXCEPT ![p] = [ListPage EXCEPT !.at = "saved"]]
  /\ UNCHANGED addresses

-----------------------------------------------------------------------------
(* Customer service adds and removes addresses (external).                   *)

AddAddress(a) ==
  /\ a \notin addresses
  /\ addresses' = addresses \union {a}
  /\ UNCHANGED <<receivers, page, contested, unseen>>

RemoveAddress(a) ==
  /\ a \in addresses
  /\ addresses' = addresses \ {a}
  /\ receivers' = [receivers EXCEPT ![a] = {}]
  /\ contested' = [p \in Pages |-> IF Saves(p, a) THEN Users ELSE contested[p]]
  /\ UNCHANGED <<page, unseen>>

PageStep(p) ==
  \/ ShowList(p) \/ \E a \in Addresses : OpenForm(p, a)
  \/ ReadReceivers(p) \/ ReadUsers(p) \/ \E u \in Users : Toggle(p, u)
  \/ UpdateAddress(p) \/ ReadPrevious(p) \/ DeleteReceivers(p) \/ CreateReceivers(p)

Next ==
  \/ \E p \in Pages : PageStep(p)
  \/ \E a \in Addresses : AddAddress(a) \/ RemoveAddress(a)

Spec == Init /\ [][Next]_vars

-----------------------------------------------------------------------------
(* Properties.                                                               *)

\* "De valda användarna får avisering": when a save ends, whoever it has chosen is
\* notified and nobody else, as far as no save that overlapped it wanted the
\* opposite for that user, none of its own calls failed, and the address stayed.
\* (The differences of two saves are computed from what each read at its own time.)
SaveTakesEffect ==
  [][\A p \in Pages : CreateReceivers(p) =>
       \A u \in Users \ contested'[p] :
         u \in receivers'[page[p].address] <=> u \in page[p].chosen]_vars

\* Nobody stops being notified but by a save whose user took the tick away, or whose
\* form had no box for him or her, or did not know that he or she was notified.
DroppedByChoice ==
  [][\A a \in addresses \intersect addresses' : \A u \in receivers[a] \ receivers'[a] :
       \E p \in Pages :
         /\ Saves(p, a) /\ u \notin page[p].chosen
         /\ u \in page[p].shown \/ u \in unseen[p] \/ u \notin page[p].boxes]_vars
=============================================================================
