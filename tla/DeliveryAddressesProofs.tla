------------------------ MODULE DeliveryAddressesProofs ------------------------
(***************************************************************************)
(* What DeliveryAddresses guarantees for every set of pages, addresses and *)
(* users.                                                                  *)
(***************************************************************************)
EXTENDS DeliveryAddresses, TLAPS

\* A call changes no more than it was told to, and without a failure all of it.
LEMMA EffectsTyped ==
  ASSUME NEW S, NEW e \in Effects(S)
  PROVE  /\ e.done \subseteq S
         /\ ~e.failed => e.done = S
<1>1. CASE e = [done |-> S, failed |-> FALSE]
  BY <1>1
<1>2. CASE e \in [done : SUBSET S, failed : {TRUE}]
  BY <1>2
<1> QED
  BY <1>1, <1>2 DEF Effects

\* Every step of the specification keeps the variables in their types.
THEOREM TypeInvariance == Spec => []TypeOK
<1>1. Init => TypeOK
  BY DEF Init, TypeOK, ListPage, PageStates, Steps, Saving
<1>2. TypeOK /\ [Next]_vars => TypeOK'
  <2> SUFFICES ASSUME TypeOK, [Next]_vars
               PROVE  TypeOK'
    OBVIOUS
  <2>1. ASSUME NEW p \in Pages, PageStep(p)
        PROVE  TypeOK'
    <3>0. page[p] \in PageStates /\ ListPage \in PageStates
      BY DEF TypeOK, ListPage, PageStates, Steps, Saving
    <3>1. CASE ShowList(p)
      BY <3>0, <3>1 DEF ShowList, TypeOK, ListPage
    <3>2. ASSUME NEW a \in Addresses, OpenForm(p, a)
          PROVE  TypeOK'
      <4>1. [ListPage EXCEPT !.at = "open", !.address = a] \in PageStates
        BY <3>0 DEF ListPage, PageStates, Steps, Saving
      <4> QED
        BY <3>2, <4>1 DEF OpenForm, TypeOK, ListPage
    <3>3. CASE ReadReceivers(p)
      <4>1. page[p].address \in Addresses
        BY <3>3 DEF ReadReceivers, TypeOK
      <4>2. PICK answered \in BOOLEAN :
              /\ page' = [page EXCEPT ![p] =
                   [@ EXCEPT !.at = "boxes",
                             !.shown = IF answered THEN receivers[page[p].address] ELSE {}]]
              /\ unseen' = [unseen EXCEPT ![p] = IF answered THEN {} ELSE Users]
        BY <3>3 DEF ReadReceivers
      <4>3. page'[p] \in PageStates /\ page'[p].address \in Addresses
        BY <3>0, <4>1, <4>2 DEF TypeOK, PageStates, Steps
      <4> QED
        BY <3>3, <4>2, <4>3 DEF ReadReceivers, TypeOK
    <3>4. CASE ReadUsers(p)
      <4>1. PICK boxes \in SUBSET Users :
              page' = [page EXCEPT ![p] =
                [@ EXCEPT !.at = "form", !.boxes = boxes, !.shown = Ticked(page[p], boxes),
                          !.chosen = Ticked(page[p], boxes)]]
        BY <3>4 DEF ReadUsers
      <4>2. Ticked(page[p], boxes) \subseteq Users
        BY DEF Ticked
      <4>3. page[p].address \in Addresses
        BY <3>4 DEF ReadUsers, TypeOK
      <4>4. page'[p] \in PageStates /\ page'[p].address \in Addresses
        BY <3>0, <4>1, <4>2, <4>3 DEF TypeOK, PageStates, Steps
      <4> QED
        BY <3>4, <4>1, <4>4 DEF ReadUsers, TypeOK
    <3>5. ASSUME NEW u \in Users, Toggle(p, u)
          PROVE  TypeOK'
      <4>1. page'[p] \in PageStates /\ page'[p].address \in Addresses
        BY <3>0, <3>5 DEF Toggle, TypeOK, PageStates
      <4> QED
        BY <3>5, <4>1 DEF Toggle, TypeOK
    <3>6. CASE UpdateAddress(p)
      <4>1. page'[p] \in PageStates /\ page'[p].address \in Addresses
        BY <3>0, <3>6 DEF UpdateAddress, TypeOK, PageStates, Steps, Saving
      <4>2. \A q, r \in Pages : Differ(q, r) \subseteq Users
        BY DEF Differ, TypeOK, PageStates
      <4>3. contested' \in [Pages -> SUBSET Users]
        <5> DEFINE Others == {q \in Pages \ {p} : Saves(q, page[p].address)}
        <5>1. UNION {Differ(p, r) : r \in Others} \subseteq Users
          BY <4>2
        <5> QED
          BY <3>6, <4>2, <5>1 DEF UpdateAddress, TypeOK
      <4> QED
        BY <3>6, <4>1, <4>3 DEF UpdateAddress, TypeOK
    <3>7. CASE ReadPrevious(p)
      <4>1. PICK answered \in BOOLEAN :
              /\ page' = [page EXCEPT ![p] =
                   [@ EXCEPT !.at = "remove",
                             !.previous = IF answered THEN receivers[page[p].address] ELSE {}]]
              /\ contested' = [contested EXCEPT ![p] = IF answered THEN @ ELSE Users]
        BY <3>7 DEF ReadPrevious
      <4>2. page[p].address \in Addresses
        BY <3>7 DEF ReadPrevious, TypeOK
      <4>3. page'[p] \in PageStates /\ page'[p].address \in Addresses
        BY <3>0, <4>1, <4>2 DEF TypeOK, PageStates, Steps, Saving
      <4> QED
        BY <3>7, <4>1, <4>3 DEF ReadPrevious, TypeOK
    <3>8. CASE DeleteReceivers(p)
      <4>1. page'[p] \in PageStates /\ page'[p].address \in Addresses
        BY <3>0, <3>8 DEF DeleteReceivers, TypeOK, PageStates, Steps, Saving
      <4> QED
        BY <3>8, <4>1 DEF DeleteReceivers, TypeOK
    <3>9. CASE CreateReceivers(p)
      <4>1. PICK e \in Effects(ListAddedIds(page[p])) :
              LET a == page[p].address
                  came == IF a \in addresses THEN e.done \ receivers[a] ELSE {} IN
              /\ receivers' = [receivers EXCEPT ![a] = @ \union came]
              /\ contested' = [contested EXCEPT ![p] = IF e.failed THEN Users ELSE @]
              /\ unseen' = [q \in Pages |->
                   IF About(q, a) THEN unseen[q] \union came ELSE unseen[q]]
        BY <3>9 DEF CreateReceivers
      <4>2. e.done \subseteq Users
        BY <3>0, EffectsTyped DEF ListAddedIds, PageStates
      <4>3. [ListPage EXCEPT !.at = "saved"] \in PageStates
        BY <3>0 DEF PageStates, Steps
      <4>4. page' = [page EXCEPT ![p] = [ListPage EXCEPT !.at = "saved"]] /\ addresses' = addresses
        BY <3>9 DEF CreateReceivers
      <4> QED
        BY <4>1, <4>2, <4>3, <4>4 DEF TypeOK, ListPage
    <3> QED
      BY <2>1, <3>1, <3>2, <3>3, <3>4, <3>5, <3>6, <3>7, <3>8, <3>9 DEF PageStep
  <2>2. ASSUME NEW a \in Addresses, AddAddress(a) \/ RemoveAddress(a)
        PROVE  TypeOK'
    BY <2>2 DEF AddAddress, RemoveAddress, TypeOK
  <2>3. CASE UNCHANGED vars
    BY <2>3 DEF vars, TypeOK
  <2> QED
    BY <2>1, <2>2, <2>3 DEF Next
<1> QED
  BY <1>1, <1>2, PTL DEF Spec
-----------------------------------------------------------------------------
(* Nobody is dropped whom the form showed and left ticked.                   *)

\* Who is notified was shown by the form, had no box in it, or is one the form does
\* not know about.
KnowsReceivers ==
  \A p \in Pages :
    /\ page[p].at = "boxes" => receivers[page[p].address] \subseteq page[p].shown \union unseen[p]
    /\ page[p].at \in {"form"} \union Saving =>
         receivers[page[p].address]
           \subseteq page[p].shown \union unseen[p] \union (Users \ page[p].boxes)

\* What becomes of the receivers of one address: what a page may not know of is
\* remembered for it.
LEMMA KnowsReceiversStep ==
  ASSUME TypeOK, KnowsReceivers, [Next]_vars
  PROVE  KnowsReceivers'
<1> USE DEF KnowsReceivers, Saving
<1>1. ASSUME NEW p \in Pages, PageStep(p)
      PROVE  KnowsReceivers'
  <2>1. CASE ShowList(p)
    BY <2>1 DEF ShowList, ListPage, TypeOK
  <2>2. ASSUME NEW a \in Addresses, OpenForm(p, a)
        PROVE  KnowsReceivers'
    BY <2>2 DEF OpenForm, ListPage, TypeOK
  <2>3. CASE ReadReceivers(p)
    <3>1. PICK answered \in BOOLEAN :
            /\ page' = [page EXCEPT ![p] =
                 [@ EXCEPT !.at = "boxes",
                           !.shown = IF answered THEN receivers[page[p].address] ELSE {}]]
            /\ unseen' = [unseen EXCEPT ![p] = IF answered THEN {} ELSE Users]
      BY <2>3 DEF ReadReceivers
    <3>2. page[p].address \in Addresses /\ receivers' = receivers
      BY <2>3 DEF ReadReceivers, TypeOK
    <3> QED
      BY <3>1, <3>2 DEF TypeOK, PageStates
  <2>4. CASE ReadUsers(p)
    <3>1. PICK boxes \in SUBSET Users :
            page' = [page EXCEPT ![p] =
              [@ EXCEPT !.at = "form", !.boxes = boxes, !.shown = Ticked(page[p], boxes),
                        !.chosen = Ticked(page[p], boxes)]]
      BY <2>4 DEF ReadUsers
    <3>2. /\ page[p].address \in Addresses /\ page[p].at = "boxes"
          /\ receivers' = receivers /\ unseen' = unseen
      BY <2>4 DEF ReadUsers, TypeOK
    <3> QED
      BY <3>1, <3>2 DEF Ticked, TypeOK, PageStates
  <2>5. ASSUME NEW u \in Users, Toggle(p, u)
        PROVE  KnowsReceivers'
    BY <2>5 DEF Toggle, TypeOK, PageStates
  <2>6. CASE UpdateAddress(p)
    BY <2>6 DEF UpdateAddress, TypeOK, PageStates
  <2>7. CASE ReadPrevious(p)
    BY <2>7 DEF ReadPrevious, TypeOK, PageStates
  <2>8. CASE DeleteReceivers(p)
    BY <2>8 DEF DeleteReceivers, TypeOK, PageStates
  <2>9. CASE CreateReceivers(p)
    <3> DEFINE a == page[p].address
    <3>0. PICK e \in Effects(ListAddedIds(page[p])) :
            LET new == IF a \in addresses THEN e.done \ receivers[a] ELSE {} IN
            /\ receivers' = [receivers EXCEPT ![a] = @ \union new]
            /\ unseen' = [q \in Pages |->
                 IF About(q, a) THEN unseen[q] \union new ELSE unseen[q]]
      BY <2>9 DEF CreateReceivers
    <3> DEFINE came == IF a \in addresses THEN e.done \ receivers[a] ELSE {}
    <3>1. /\ receivers' = [receivers EXCEPT ![a] = @ \union came]
          /\ unseen' = [q \in Pages |->
               IF About(q, a) THEN unseen[q] \union came ELSE unseen[q]]
      BY <3>0
    <3> HIDE DEF came
    <3>2. page' = [page EXCEPT ![p] = [ListPage EXCEPT !.at = "saved"]]
      BY <2>9 DEF CreateReceivers
    <3>3. ASSUME NEW q \in Pages, page'[q].at \in {"boxes", "form"} \union Saving
          PROVE  /\ q # p /\ page'[q] = page[q]
                 /\ receivers'[page[q].address] \ receivers[page[q].address] \subseteq unseen'[q]
                 /\ unseen[q] \subseteq unseen'[q]
      <4>1. q # p /\ page'[q] = page[q]
        BY <3>2, <3>3 DEF ListPage, TypeOK
      <4>2. page[q].address \in Addresses
        BY <4>1, <3>3 DEF TypeOK
      <4> QED
        BY <3>1, <4>1, <4>2 DEF About, TypeOK
    <3> QED
      BY <3>3
  <2> QED
    BY <1>1, <2>1, <2>2, <2>3, <2>4, <2>5, <2>6, <2>7, <2>8, <2>9 DEF PageStep
<1>2. ASSUME NEW a \in Addresses, AddAddress(a) \/ RemoveAddress(a)
      PROVE  KnowsReceivers'
  BY <1>2 DEF AddAddress, RemoveAddress, TypeOK
<1>3. CASE UNCHANGED vars
  BY <1>3 DEF vars
<1> QED
  BY <1>1, <1>2, <1>3 DEF Next

\* A save removes only those whose tick was taken away, who had no box, or of whom its
\* form did not know.
THEOREM DropsByChoice == Spec => DroppedByChoice
<1> DEFINE Dropped ==
      \A a \in addresses \intersect addresses' : \A u \in receivers[a] \ receivers'[a] :
        \E p \in Pages :
          /\ Saves(p, a) /\ u \notin page[p].chosen
          /\ u \in page[p].shown \/ u \in unseen[p] \/ u \notin page[p].boxes
<1>1. Init => KnowsReceivers
  BY DEF Init, KnowsReceivers, ListPage, Saving
<1>2. TypeOK /\ KnowsReceivers /\ [Next]_vars => [Dropped]_vars
  <2> SUFFICES ASSUME TypeOK, KnowsReceivers, Next,
                      NEW a \in addresses \intersect addresses',
                      NEW u \in receivers[a] \ receivers'[a]
               PROVE  \E p \in Pages :
                        /\ Saves(p, a) /\ u \notin page[p].chosen
                        /\ u \in page[p].shown \/ u \in unseen[p] \/ u \notin page[p].boxes
    BY DEF vars
  <2>0. a \in Addresses /\ u \in Users
    BY DEF TypeOK
  <2>1. ASSUME NEW p \in Pages, PageStep(p)
        PROVE  DeleteReceivers(p)
    <3>1. ASSUME CreateReceivers(p)
          PROVE  FALSE
      <4>1. PICK came : receivers' = [receivers EXCEPT ![page[p].address] = @ \union came]
        BY <3>1 DEF CreateReceivers
      <4> QED
        BY <2>0, <4>1 DEF TypeOK
    <3> QED
      BY <2>1, <3>1 DEF PageStep, ShowList, OpenForm, ReadReceivers, ReadUsers, Toggle,
                        UpdateAddress, ReadPrevious
  <2>2. ASSUME NEW b \in Addresses, AddAddress(b) \/ RemoveAddress(b)
        PROVE  FALSE
    BY <2>0, <2>2 DEF AddAddress, RemoveAddress, TypeOK
  <2>3. PICK p \in Pages : DeleteReceivers(p)
    BY <2>1, <2>2 DEF Next
  <2>4. PICK e \in Effects(ListRemovedIds(page[p])) :
          receivers' = [receivers EXCEPT ![page[p].address] = @ \ e.done]
    BY <2>3 DEF DeleteReceivers
  <2>5. a = page[p].address /\ u \in e.done
    BY <2>0, <2>4 DEF TypeOK
  <2>6. u \notin page[p].chosen
    BY <2>5, EffectsTyped DEF ListRemovedIds
  <2>7. Saves(p, a)
    BY <2>3, <2>5 DEF DeleteReceivers, Saves, About, Saving
  <2>8. u \in page[p].shown \/ u \in unseen[p] \/ u \notin page[p].boxes
    BY <2>3, <2>5 DEF DeleteReceivers, KnowsReceivers, Saving
  <2> QED
    BY <2>6, <2>7, <2>8
<1>3. TypeOK /\ KnowsReceivers /\ [Next]_vars => KnowsReceivers'
  BY KnowsReceiversStep
<1> QED
  BY <1>1, <1>2, <1>3, TypeInvariance, PTL DEF Spec, DroppedByChoice
-----------------------------------------------------------------------------
(* A save that nothing disturbs ends with what was chosen.                   *)

\* Two saves of one address under way agree about everybody they do not contest.
Agreed ==
  \A p, q \in Pages :
    page[p].at \in Saving /\ page[q].at \in Saving /\ page[p].address = page[q].address
      => \A u \in Users \ contested[p] : u \in page[p].chosen <=> u \in page[q].chosen

\* The address is there, or nothing can be said of the save.
Present ==
  \A p \in Pages :
    page[p].at \in Saving /\ page[p].address \notin addresses => Users \subseteq contested[p]

\* Since the save asked, nobody it has chosen was removed, and nobody else was added;
\* once it has removed, only those it has chosen are notified.
OnTrack ==
  \A p \in Pages : \A u \in Users \ contested[p] :
    LET rec == receivers[page[p].address] IN
    /\ page[p].at \in {"remove", "add"} =>
         (u \in page[p].chosen /\ u \in page[p].previous => u \in rec)
    /\ page[p].at = "remove" =>
         (u \notin page[p].chosen /\ u \notin page[p].previous => u \notin rec)
    /\ page[p].at = "add" => (u \notin page[p].chosen => u \notin rec)

SaveInv == Agreed /\ Present /\ OnTrack

\* What a step does to a save that goes on: its form stays as it is, and nobody stops
\* being contested.
LEMMA SavesKept ==
  ASSUME TypeOK, [Next]_vars, NEW p \in Pages, page[p].at \in Saving, page'[p].at \in Saving
  PROVE  /\ page'[p].address = page[p].address /\ page'[p].chosen = page[p].chosen
         /\ contested[p] \subseteq contested'[p]
<1> USE DEF Saving
<1>1. ASSUME NEW r \in Pages, PageStep(r)
      PROVE  /\ page'[p].address = page[p].address /\ page'[p].chosen = page[p].chosen
             /\ contested[p] \subseteq contested'[p]
  <2>0. page[p] \in PageStates /\ contested[p] \subseteq Users
    BY DEF TypeOK
  <2>1. CASE ShowList(r)
    BY <2>1 DEF ShowList, ListPage, TypeOK
  <2>2. ASSUME NEW a \in Addresses, OpenForm(r, a)
        PROVE  page'[p] = page[p] /\ contested'[p] = contested[p]
    BY <2>2 DEF OpenForm, TypeOK
  <2>3. CASE ReadReceivers(r)
    BY <2>3 DEF ReadReceivers, TypeOK
  <2>4. CASE ReadUsers(r)
    BY <2>4 DEF ReadUsers, TypeOK
  <2>5. ASSUME NEW u \in Users, Toggle(r, u)
        PROVE  page'[p] = page[p] /\ contested'[p] = contested[p]
    BY <2>5 DEF Toggle, TypeOK
  <2>6. CASE UpdateAddress(r)
    BY <2>6 DEF UpdateAddress, TypeOK
  <2>7. CASE ReadPrevious(r)
    BY <2>0, <2>7 DEF ReadPrevious, TypeOK, PageStates
  <2>8. CASE DeleteReceivers(r)
    BY <2>0, <2>8 DEF DeleteReceivers, TypeOK, PageStates
  <2>9. CASE CreateReceivers(r)
    BY <2>0, <2>9 DEF CreateReceivers, ListPage, TypeOK
  <2> QED
    BY <1>1, <2>1, <2>2, <2>3, <2>4, <2>5, <2>6, <2>7, <2>8, <2>9 DEF PageStep
<1>2. ASSUME NEW a \in Addresses, AddAddress(a) \/ RemoveAddress(a)
      PROVE  page'[p] = page[p] /\ contested[p] \subseteq contested'[p]
  BY <1>2 DEF AddAddress, RemoveAddress, TypeOK
<1>3. CASE UNCHANGED vars
  BY <1>3 DEF vars
<1> QED
  BY <1>1, <1>2, <1>3 DEF Next

\* A save starts with UpdateAddress.
LEMMA SaveStarts ==
  ASSUME TypeOK, [Next]_vars, NEW p \in Pages, page[p].at \notin Saving, page'[p].at \in Saving
  PROVE  UpdateAddress(p)
<1>1. ASSUME NEW r \in Pages, PageStep(r), ~UpdateAddress(p)
      PROVE  FALSE
  <2>1. r = p
    <3>1. ASSUME r # p
          PROVE  page'[p] = page[p]
      BY <1>1, <3>1 DEF PageStep, ShowList, OpenForm, ReadReceivers, ReadUsers, Toggle,
             UpdateAddress, ReadPrevious, DeleteReceivers, CreateReceivers, TypeOK
    <3> QED
      BY <3>1
  <2>2. ~ (ReadPrevious(p) \/ DeleteReceivers(p) \/ CreateReceivers(p))
    BY DEF ReadPrevious, DeleteReceivers, CreateReceivers, Saving
  <2>3. CASE ShowList(p)
    BY <2>3 DEF ShowList, ListPage, Saving, TypeOK
  <2>4. ASSUME NEW a \in Addresses, OpenForm(p, a)
        PROVE  FALSE
    BY <2>4 DEF OpenForm, ListPage, Saving, TypeOK
  <2>5. CASE ReadReceivers(p)
    BY <2>5 DEF ReadReceivers, Saving, TypeOK, PageStates
  <2>6. CASE ReadUsers(p)
    BY <2>6 DEF ReadUsers, Saving, TypeOK, PageStates
  <2>7. ASSUME NEW u \in Users, Toggle(p, u)
        PROVE  FALSE
    BY <2>7 DEF Toggle, Saving, TypeOK, PageStates
  <2> QED
    BY <1>1, <2>1, <2>2, <2>3, <2>4, <2>5, <2>6, <2>7 DEF PageStep
<1>2. ASSUME NEW a \in Addresses, AddAddress(a) \/ RemoveAddress(a)
      PROVE  FALSE
  BY <1>2 DEF AddAddress, RemoveAddress
<1> QED
  BY <1>1, <1>2 DEF Next, vars

LEMMA AgreedStep ==
  ASSUME TypeOK, Agreed, [Next]_vars
  PROVE  Agreed'
<1> SUFFICES ASSUME NEW p \in Pages, NEW q \in Pages,
                    page'[p].at \in Saving, page'[q].at \in Saving,
                    page'[p].address = page'[q].address,
                    NEW u \in Users \ contested'[p], p # q
             PROVE  u \in page'[p].chosen <=> u \in page'[q].chosen
  BY DEF Agreed
<1>1. CASE page[p].at \in Saving /\ page[q].at \in Saving
  <2>1. /\ page'[p].address = page[p].address /\ page'[p].chosen = page[p].chosen
        /\ contested[p] \subseteq contested'[p]
    BY <1>1, SavesKept
  <2>2. page'[q].address = page[q].address /\ page'[q].chosen = page[q].chosen
    BY <1>1, SavesKept
  <2> QED
    BY <1>1, <2>1, <2>2 DEF Agreed
<1>2. CASE page[p].at \notin Saving
  <2>1. UpdateAddress(p)
    BY <1>2, SaveStarts
  <2> DEFINE Others == {r \in Pages \ {p} : Saves(r, page[p].address)}
  <2>2. /\ page'[q] = page[q] /\ page'[p].address = page[p].address
        /\ page'[p].chosen = page[p].chosen
    BY <2>1 DEF UpdateAddress, TypeOK, PageStates
  <2>3. q \in Others
    BY <2>2 DEF Saves, About
  <2>4. UNION {Differ(p, r) : r \in Others} \subseteq contested'[p]
    <3>1. contested'[p] = IF page[p].address \in addresses
                            THEN UNION {Differ(p, r) : r \in Others} ELSE Users
      BY <2>1 DEF UpdateAddress
    <3>2. ~ (Users \subseteq contested'[p])
      OBVIOUS
    <3> QED
      BY <3>1, <3>2
  <2>5. u \notin Differ(p, q)
    BY <2>3, <2>4
  <2> QED
    BY <2>2, <2>5 DEF Differ
<1>3. CASE page[q].at \notin Saving /\ page[p].at \in Saving
  <2>1. UpdateAddress(q)
    BY <1>3, SaveStarts
  <2>2. /\ page'[p] = page[p] /\ page'[q].address = page[q].address
        /\ page'[q].chosen = page[q].chosen
    BY <2>1 DEF UpdateAddress, TypeOK, PageStates
  <2>3. Saves(p, page[q].address)
    BY <1>3, <2>2 DEF Saves, About
  <2>4. contested'[p] = contested[p] \union Differ(q, p)
    BY <2>1, <2>3 DEF UpdateAddress
  <2> QED
    BY <2>2, <2>4 DEF Differ
<1> QED
  BY <1>1, <1>2, <1>3

LEMMA PresentStep ==
  ASSUME TypeOK, Present, [Next]_vars
  PROVE  Present'
<1> SUFFICES ASSUME NEW p \in Pages, page'[p].at \in Saving, page'[p].address \notin addresses'
             PROVE  Users \subseteq contested'[p]
  BY DEF Present
<1>1. CASE page[p].at \in Saving
  <2>1. page'[p].address = page[p].address /\ contested[p] \subseteq contested'[p]
    BY <1>1, SavesKept
  <2>2. CASE page[p].address \notin addresses
    BY <1>1, <2>1, <2>2 DEF Present
  <2>3. CASE page[p].address \in addresses
    <3>0. addresses' # addresses
      BY <2>1, <2>3
    <3>1. PICK a \in Addresses : RemoveAddress(a)
      <4>1. ASSUME NEW r \in Pages, PageStep(r)
            PROVE  addresses' = addresses
        BY <4>1 DEF PageStep, ShowList, OpenForm, ReadReceivers, ReadUsers, Toggle,
               UpdateAddress, ReadPrevious, DeleteReceivers, CreateReceivers
      <4>2. ASSUME NEW a \in Addresses, AddAddress(a)
            PROVE  FALSE
        BY <2>1, <2>3, <4>2 DEF AddAddress
      <4> QED
        BY <3>0, <4>1, <4>2 DEF Next, vars
    <3>2. a = page[p].address
      BY <2>1, <2>3, <3>1 DEF RemoveAddress
    <3> QED
      BY <1>1, <3>1, <3>2 DEF RemoveAddress, Saves, About
  <2> QED
    BY <2>2, <2>3
<1>2. CASE page[p].at \notin Saving
  <2>1. UpdateAddress(p)
    BY <1>2, SaveStarts
  <2>2. page'[p].address = page[p].address /\ addresses' = addresses
    BY <2>1 DEF UpdateAddress, TypeOK, PageStates
  <2> QED
    BY <2>1, <2>2 DEF UpdateAddress
<1> QED
  BY <1>1, <1>2

\* A step of another page or of customer service changes who is notified only as this
\* save wants it, as far as nobody is contested.
LEMMA OthersAgree ==
  ASSUME TypeOK, Agreed, Next, NEW p \in Pages, page[p].at \in {"remove", "add"},
         page'[p] = page[p], NEW u \in Users \ contested'[p]
  PROVE  LET rec == receivers[page[p].address] rec1 == receivers'[page[p].address] IN
         /\ u \in page[p].chosen /\ u \in rec => u \in rec1
         /\ u \notin page[p].chosen /\ u \notin rec => u \notin rec1
<1> DEFINE a == page[p].address
<1> USE DEF Saving
<1>0. a \in Addresses /\ page[p].at \in Saving
  BY DEF TypeOK
<1>1. ASSUME NEW r \in Pages, PageStep(r), receivers' # receivers
      PROVE  /\ r # p /\ page[r].at \in Saving
             /\ \/ \E e \in Effects(ListRemovedIds(page[r])) :
                     receivers' = [receivers EXCEPT ![page[r].address] = @ \ e.done]
                \/ \E e \in Effects(ListAddedIds(page[r])) : \E came \in SUBSET e.done :
                     receivers' = [receivers EXCEPT ![page[r].address] = @ \union came]
  <2>1. DeleteReceivers(r) \/ CreateReceivers(r)
    BY <1>1 DEF PageStep, ShowList, OpenForm, ReadReceivers, ReadUsers, Toggle,
                UpdateAddress, ReadPrevious
  <2>2. page[r] # page'[r] /\ page[r].at \in Saving
    BY <2>1 DEF DeleteReceivers, CreateReceivers, ListPage, TypeOK, PageStates
  <2>3. CASE DeleteReceivers(r)
    <3>1. \E e \in Effects(ListRemovedIds(page[r])) :
            receivers' = [receivers EXCEPT ![page[r].address] = @ \ e.done]
      BY <2>3 DEF DeleteReceivers
    <3> QED
      BY <2>2, <3>1
  <2>4. CASE CreateReceivers(r)
    <3>1. PICK e \in Effects(ListAddedIds(page[r])) :
            LET new == IF page[r].address \in addresses
                         THEN e.done \ receivers[page[r].address] ELSE {} IN
            receivers' = [receivers EXCEPT ![page[r].address] = @ \union new]
      BY <2>4 DEF CreateReceivers
    <3>2. \E came \in SUBSET e.done :
            receivers' = [receivers EXCEPT ![page[r].address] = @ \union came]
      BY <3>1
    <3> QED
      BY <2>2, <3>2
  <2> QED
    BY <2>1, <2>3, <2>4
<1>2. ASSUME NEW r \in Pages, PageStep(r), receivers' # receivers
      PROVE  LET rec == receivers[a] rec1 == receivers'[a] IN
             /\ u \in page[p].chosen /\ u \in rec => u \in rec1
             /\ u \notin page[p].chosen /\ u \notin rec => u \notin rec1
  <2>1. page[r].address = a => (u \in page[p].chosen <=> u \in page[r].chosen)
    <3>1. contested[p] \subseteq contested'[p]
      BY <1>0, SavesKept
    <3> QED
      BY <1>0, <1>1, <1>2, <3>1 DEF Agreed
  <2>2. ASSUME NEW e \in Effects(ListRemovedIds(page[r])),
               receivers' = [receivers EXCEPT ![page[r].address] = @ \ e.done]
        PROVE  LET rec == receivers[a] rec1 == receivers'[a] IN
               /\ u \in page[p].chosen /\ u \in rec => u \in rec1
               /\ u \notin page[p].chosen /\ u \notin rec => u \notin rec1
    <3>1. e.done \subseteq page[r].previous \ page[r].chosen
      BY EffectsTyped DEF ListRemovedIds
    <3> QED
      BY <1>0, <2>1, <2>2, <3>1 DEF TypeOK
  <2>3. ASSUME NEW e \in Effects(ListAddedIds(page[r])), NEW came \in SUBSET e.done,
               receivers' = [receivers EXCEPT ![page[r].address] = @ \union came]
        PROVE  LET rec == receivers[a] rec1 == receivers'[a] IN
               /\ u \in page[p].chosen /\ u \in rec => u \in rec1
               /\ u \notin page[p].chosen /\ u \notin rec => u \notin rec1
    <3>1. e.done \subseteq page[r].chosen \ page[r].previous
      BY EffectsTyped DEF ListAddedIds
    <3> QED
      BY <1>0, <2>1, <2>3, <3>1 DEF TypeOK
  <2> QED
    BY <1>1, <1>2, <2>2, <2>3
<1>3. ASSUME NEW b \in Addresses, AddAddress(b) \/ RemoveAddress(b)
      PROVE  receivers'[a] = receivers[a]
  <2>1. CASE AddAddress(b)
    BY <2>1 DEF AddAddress
  <2>2. CASE RemoveAddress(b)
    <3>1. b # a
      BY <1>0, <2>2 DEF RemoveAddress, Saves, About
    <3> QED
      BY <1>0, <2>2, <3>1 DEF RemoveAddress, TypeOK
  <2> QED
    BY <1>3, <2>1, <2>2
<1> QED
  BY <1>2, <1>3 DEF Next

LEMMA OnTrackStep ==
  ASSUME TypeOK, Agreed, OnTrack, [Next]_vars
  PROVE  OnTrack'
<1> SUFFICES ASSUME NEW p \in Pages, NEW u \in Users \ contested'[p],
                    page'[p].at \in {"remove", "add"}
             PROVE  LET rec1 == receivers'[page'[p].address] IN
                    /\ u \in page'[p].chosen /\ u \in page'[p].previous => u \in rec1
                    /\ page'[p].at = "remove" =>
                         (u \notin page'[p].chosen /\ u \notin page'[p].previous => u \notin rec1)
                    /\ page'[p].at = "add" => (u \notin page'[p].chosen => u \notin rec1)
  BY DEF OnTrack
<1>1. page[p].at \in Saving /\ u \notin contested[p]
  <2>1. page[p].at \in Saving
    <3>1. ASSUME UpdateAddress(p)
          PROVE  page'[p].at = "read"
      BY <3>1 DEF UpdateAddress, TypeOK, PageStates
    <3> QED
      BY <3>1, SaveStarts DEF Saving
  <2> QED
    BY <2>1, SavesKept DEF Saving
<1>2. CASE UNCHANGED vars
  BY <1>1, <1>2 DEF OnTrack, vars
<1>3. CASE ReadPrevious(p)
  <2>1. PICK answered \in BOOLEAN :
          /\ page' = [page EXCEPT ![p] =
               [@ EXCEPT !.at = "remove",
                         !.previous = IF answered THEN receivers[page[p].address] ELSE {}]]
          /\ contested' = [contested EXCEPT ![p] = IF answered THEN @ ELSE Users]
    BY <1>3 DEF ReadPrevious
  <2>2. answered = TRUE
    BY <2>1 DEF TypeOK
  <2>3. /\ page'[p].at = "remove" /\ page'[p].address = page[p].address
        /\ page'[p].previous = receivers[page[p].address] /\ receivers' = receivers
    BY <1>3, <2>1, <2>2 DEF ReadPrevious, TypeOK, PageStates
  <2> QED
    BY <2>3
<1>4. CASE DeleteReceivers(p)
  <2>1. PICK e \in Effects(ListRemovedIds(page[p])) :
          /\ receivers' = [receivers EXCEPT ![page[p].address] = @ \ e.done]
          /\ contested' = [contested EXCEPT ![p] = IF e.failed THEN Users ELSE @]
    BY <1>4 DEF DeleteReceivers
  <2>2. e.done = page[p].previous \ page[p].chosen
    <3>1. ~e.failed
      BY <2>1 DEF TypeOK
    <3> QED
      BY <3>1, EffectsTyped DEF ListRemovedIds
  <2>3. /\ page'[p].at = "add" /\ page'[p].address = page[p].address
        /\ page'[p].previous = page[p].previous /\ page'[p].chosen = page[p].chosen
        /\ page[p].at = "remove" /\ page[p].address \in Addresses
    BY <1>4 DEF DeleteReceivers, TypeOK, PageStates
  <2> QED
    BY <1>1, <2>1, <2>2, <2>3 DEF OnTrack, TypeOK
<1>5. CASE Next /\ ~ReadPrevious(p) /\ ~DeleteReceivers(p)
  <2>1. page'[p] = page[p]
    <3>1. ASSUME NEW r \in Pages, PageStep(r), r # p
          PROVE  page'[p] = page[p]
      BY <3>1 DEF PageStep, ShowList, OpenForm, ReadReceivers, ReadUsers, Toggle,
             UpdateAddress, ReadPrevious, DeleteReceivers, CreateReceivers, TypeOK
    <3>2. ASSUME PageStep(p)
          PROVE  FALSE
      <4>1. CreateReceivers(p)
        BY <1>1, <1>5, <3>2 DEF PageStep, ShowList, OpenForm, ReadReceivers, ReadUsers, Toggle,
               UpdateAddress, Saving
      <4> QED
        BY <4>1 DEF CreateReceivers, ListPage, TypeOK
    <3>3. ASSUME NEW b \in Addresses, AddAddress(b) \/ RemoveAddress(b)
          PROVE  page'[p] = page[p]
      BY <3>3 DEF AddAddress, RemoveAddress
    <3> QED
      BY <1>5, <3>1, <3>2, <3>3 DEF Next
  <2> QED
    BY <1>1, <1>5, <2>1, OthersAgree DEF OnTrack
<1> QED
  BY <1>2, <1>3, <1>4, <1>5

\* When a save ends, those it has chosen are notified, and only those, as far as
\* nothing disturbed it.
THEOREM SaveEffective == Spec => SaveTakesEffect
<1> DEFINE Effective ==
      \A p \in Pages : CreateReceivers(p) =>
        \A u \in Users \ contested'[p] :
          u \in receivers'[page[p].address] <=> u \in page[p].chosen
<1>1. Init => SaveInv
  BY DEF Init, SaveInv, Agreed, Present, OnTrack, ListPage, Saving
<1>2. TypeOK /\ SaveInv /\ [Next]_vars => SaveInv'
  BY AgreedStep, PresentStep, OnTrackStep DEF SaveInv
<1>3. TypeOK /\ SaveInv => Effective
  <2> SUFFICES ASSUME TypeOK, SaveInv, NEW p \in Pages, CreateReceivers(p),
                      NEW u \in Users \ contested'[p]
               PROVE  u \in receivers'[page[p].address] <=> u \in page[p].chosen
    OBVIOUS
  <2> DEFINE a == page[p].address
  <2>1. PICK e \in Effects(ListAddedIds(page[p])) :
          LET came == IF a \in addresses THEN e.done \ receivers[a] ELSE {} IN
          /\ receivers' = [receivers EXCEPT ![a] = @ \union came]
          /\ contested' = [contested EXCEPT ![p] = IF e.failed THEN Users ELSE @]
    BY DEF CreateReceivers
  <2>2. ~e.failed /\ u \notin contested[p]
    BY <2>1 DEF TypeOK
  <2>3. e.done = page[p].chosen \ page[p].previous
    BY <2>2, EffectsTyped DEF ListAddedIds
  <2>4. a \in Addresses /\ a \in addresses /\ page[p].at = "add"
    BY <2>2 DEF CreateReceivers, SaveInv, Present, Saving, TypeOK
  <2>5. receivers'[a] = receivers[a] \union e.done
    BY <2>1, <2>4 DEF TypeOK
  <2> QED
    BY <2>2, <2>3, <2>4, <2>5 DEF SaveInv, OnTrack
<1> QED
  BY <1>1, <1>2, <1>3, TypeInvariance, PTL DEF Spec, SaveTakesEffect
=============================================================================
