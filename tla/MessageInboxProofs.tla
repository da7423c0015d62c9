-------------------------- MODULE MessageInboxProofs --------------------------
(***************************************************************************)
(* What MessageInbox guarantees for any messages, page size and number of  *)
(* requests under way, sent and failed.                                    *)
(***************************************************************************)
EXTENDS MessageInbox, FiniteSetTheorems, WellFoundedInduction, TLAPS

Requests == Loads \union Acts \union {None}

\* A request under way is a load or an act, as IsLoad and IsAct tell.
LEMMA RequestKinds ==
  ASSUME TypeOK, NEW i \in Slots
  PROVE  /\ IsLoad(i) => sent[i] \in Loads
         /\ IsAct(i) => sent[i] \in Acts
         /\ sent[i] # None => IsLoad(i) \/ IsAct(i)
  BY DEF TypeOK, IsLoad, IsAct, Loads, Acts, Ops

\* How many messages there are is a number.
LEMMA CountIsNat ==
  ASSUME NEW S \in SUBSET Messages
  PROVE  Cardinality(S) \in Nat
  BY FS_Subset, FS_CardinalityType, InboxAssumption

\* A question for messages keeps the requests in their types.
LEMMA GetMessagesTyped ==
  ASSUME TypeOK, NEW i \in Slots, NEW t \in Tabs, GetMessages(i, t), page'[t] \in Nat
  PROVE  sent' \in [Slots -> Requests] /\ disabled' \in BOOLEAN
<1>1. LoadOf(t) \in Loads
  BY DEF LoadOf, Loads
<1>2. ASSUME NEW j \in Slots, IsLoad(j)
      PROVE  [sent[j] EXCEPT !.newest = FALSE] \in Loads
  BY <1>2, RequestKinds DEF Loads
<1> QED
  BY <1>1, <1>2 DEF GetMessages, TypeOK, Requests

\* What is asked for is the latest question, and the only one.
LEMMA GetMessagesNewest ==
  ASSUME TypeOK, NEW i \in Slots, NEW t \in Tabs, GetMessages(i, t), page'[t] \in Nat
  PROVE  /\ IsLoad(i)' /\ sent'[i].newest /\ sent'[i].type = t
         /\ sent'[i] # None /\ sent'[i].phase = "sent" /\ sent'[i].op = "load"
         /\ \A j \in Slots \ {i} : IsLoad(j)' => ~sent'[j].newest
<1>0. LoadOf(t) \in Loads
  BY DEF LoadOf, Loads
<1>1. LoadOf(t) # None
  BY <1>0, NoneAssumption
<1>2. sent'[i] = LoadOf(t)
  BY DEF GetMessages
<1>3. ASSUME NEW j \in Slots \ {i}, IsLoad(j)'
      PROVE  ~sent'[j].newest
  <2>1. CASE IsLoad(j)
    BY <2>1, RequestKinds DEF GetMessages, Loads
  <2>2. CASE ~IsLoad(j)
    BY <1>3, <2>2 DEF GetMessages, IsLoad
  <2> QED
    BY <2>1, <2>2
<1> QED
  BY <1>1, <1>2, <1>3 DEF IsLoad, LoadOf

\* What the first call of the hub makes of a load.
LEMMA ReadTyped ==
  ASSUME TypeOK, NEW i \in Slots, NEW failed \in BOOLEAN, ReadMessages(i, failed)
  PROVE  /\ sent[i] \in Loads /\ sent'[i] \in Loads /\ sent'[i] # None
         /\ sent'[i].op = "load" /\ sent'[i].phase = "counting"
         /\ sent'[i].type = sent[i].type /\ sent'[i].page = sent[i].page
         /\ sent'[i].newest = sent[i].newest /\ sent'[i].masked = failed
         /\ sent'[i].rows = IF failed THEN {} ELSE OnPage(sent[i].type, sent[i].page)
         /\ sent' \in [Slots -> Requests] /\ \A j \in Slots : j # i => sent'[j] = sent[j]
<1> DEFINE shown == OnPage(sent[i].type, sent[i].page)
           stars == {m \in shown : status[m] = "starred"}
           r == [sent[i] EXCEPT !.phase = "counting", !.rows = IF failed THEN {} ELSE shown,
                                !.stars = stars, !.masked = failed]
<1>1. sent[i] \in Loads
  BY RequestKinds DEF ReadMessages
<1>2. shown \in SUBSET Messages
  BY DEF OnPage, InTab
<1>3. stars \in SUBSET Messages
  BY <1>2
<1> HIDE DEF shown, stars
<1>4. /\ r \in Loads /\ r.op = "load" /\ r.phase = "counting" /\ r.type = sent[i].type
      /\ r.page = sent[i].page /\ r.newest = sent[i].newest /\ r.masked = failed
      /\ r.rows = IF failed THEN {} ELSE shown
  BY <1>1, <1>2, <1>3 DEF Loads
<1>5. sent' = [sent EXCEPT ![i] = r]
  BY DEF ReadMessages, shown, stars
<1> HIDE DEF r
<1>6. sent'[i] = r /\ \A j \in Slots : j # i => sent'[j] = sent[j]
  BY <1>5 DEF TypeOK
<1>7. sent' \in [Slots -> Requests]
  BY <1>4, <1>5 DEF TypeOK, Requests
<1> QED
  BY <1>1, <1>4, <1>6, <1>7, NoneAssumption DEF shown

\* What the second call makes of it.
LEMMA CountTyped ==
  ASSUME TypeOK, NEW i \in Slots, NEW failed \in BOOLEAN, CountMessages(i, failed)
  PROVE  /\ sent[i] \in Loads /\ sent'[i] \in Loads /\ sent'[i] # None
         /\ sent'[i].op = "load" /\ sent'[i].phase = "answered"
         /\ sent'[i].type = sent[i].type /\ sent'[i].page = sent[i].page
         /\ sent'[i].newest = sent[i].newest /\ sent'[i].rows = sent[i].rows
         /\ sent'[i].masked = (sent[i].masked \/ failed)
         /\ sent'[i].total = IF failed \/ sent[i].masked THEN 0
                             ELSE Cardinality(InTab(sent[i].type))
         /\ sent' \in [Slots -> Requests] /\ \A j \in Slots : j # i => sent'[j] = sent[j]
<1> DEFINE total == IF failed \/ sent[i].masked THEN 0 ELSE Cardinality(InTab(sent[i].type))
           r == [sent[i] EXCEPT !.phase = "answered", !.total = total,
                                !.masked = sent[i].masked \/ failed]
<1>1. sent[i] \in Loads
  BY RequestKinds DEF CountMessages
<1>2. total \in Nat
  BY CountIsNat DEF InTab
<1> HIDE DEF total
<1>3. sent[i].masked \/ failed \in BOOLEAN
  OBVIOUS
<1>4. /\ r \in Loads /\ r.op = "load" /\ r.phase = "answered" /\ r.type = sent[i].type
      /\ r.page = sent[i].page /\ r.newest = sent[i].newest /\ r.rows = sent[i].rows
      /\ r.masked = (sent[i].masked \/ failed) /\ r.total = total
  BY <1>1, <1>2, <1>3 DEF Loads
<1>5. sent' = [sent EXCEPT ![i] = r]
  BY DEF CountMessages, total
<1> HIDE DEF r
<1>6. sent'[i] = r /\ \A j \in Slots : j # i => sent'[j] = sent[j]
  BY <1>5 DEF TypeOK
<1>7. sent' \in [Slots -> Requests]
  BY <1>4, <1>5 DEF TypeOK, Requests
<1> QED
  BY <1>1, <1>4, <1>6, <1>7, NoneAssumption DEF total

\* Every step of the specification keeps the variables in their types.
LEMMA TypeStep == TypeOK /\ [Next]_vars => TypeOK'
<1> SUFFICES ASSUME TypeOK, [Next]_vars
             PROVE  TypeOK'
  OBVIOUS
<1> USE DEF TypeOK
<1>t. "inbox" \in Tabs /\ "starred" \in Tabs /\ tab \in Tabs
  BY DEF Tabs
<1>c. Cardinality(Messages) \in Nat
  BY CountIsNat
<1>p. 1 \in 1..(Cardinality(Messages) + 1) /\ \A t \in Tabs : page[t] \in Nat
  BY <1>c
<1>1. ASSUME NEW t \in Tabs, OpenTab(t)
      PROVE  TypeOK'
  <2>1. PICK i \in Slots : page' = page /\ GetMessages(i, t)
    BY <1>1 DEF OpenTab
  <2>2. view' \in Views /\ view'.selected = view.selected /\ view'.rows = view.rows
        /\ view'.stars = view.stars
    BY <1>1 DEF OpenTab, Views
  <2> QED
    BY <1>1, <1>p, <2>1, <2>2, GetMessagesTyped DEF OpenTab, GetMessages, Requests, failures
<1>2. ASSUME NEW p \in 1..Cardinality(Messages), TurnPage(p)
      PROVE  TypeOK'
  <2>1. page' \in [Tabs -> 1..(Cardinality(Messages) + 1)]
    BY <1>2, <1>c DEF TurnPage
  <2>2. PICK i \in Slots : GetMessages(i, tab)
    BY <1>2 DEF TurnPage
  <2>3. view' \in Views /\ view'.selected = view.selected /\ view'.rows = view.rows
        /\ view'.stars = view.stars
    BY <1>2 DEF TurnPage, Views
  <2>4. page'[tab] \in Nat
    BY <2>1, <1>c
  <2> QED
    BY <1>2, <2>1, <2>2, <2>3, <2>4, GetMessagesTyped
       DEF TurnPage, GetMessages, Requests, failures, Views
<1>3. ASSUME NEW m \in Messages, Toggle(m)
      PROVE  TypeOK'
  BY <1>3 DEF Toggle, Views, failures
<1>4. ASSUME SelectAll
      PROVE  TypeOK'
  BY <1>4 DEF SelectAll, Views, failures
<1>5. ASSUME NEW op \in Ops, NEW msgs \in SUBSET Messages, Post(op, msgs)
      PROVE  /\ status' = status /\ tab' = tab /\ loaded' = loaded /\ page' = page
             /\ fails' = fails /\ lost' = lost /\ acts' \in 0..MaxActs
             /\ raced' \in BOOLEAN /\ unseen' \in BOOLEAN /\ sent' \in [Slots -> Requests]
  <2>1. acts' \in 0..MaxActs /\ raced' \in BOOLEAN
    BY <1>5, InboxAssumption DEF Post, Views
  <2>2. [op |-> op, type |-> tab, msgs |-> msgs, ok |-> FALSE, live |-> TRUE,
         phase |-> "sent"] \in Acts
    BY DEF Acts
  <2> QED
    BY <1>5, <2>1, <2>2 DEF Post, Requests, failures
<1>6. ASSUME NEW m \in Messages, MarkToStarred(m)
      PROVE  TypeOK'
  <2>1. view' \in Views /\ view'.selected \subseteq view'.rows /\ view'.stars \subseteq view'.rows
    BY <1>6 DEF MarkToStarred, Views
  <2>2. PICK op \in Ops : Post(op, {m})
    BY <1>6 DEF MarkToStarred, Ops
  <2> QED
    BY <1>5, <1>6, <2>1, <2>2 DEF MarkToStarred, Requests
<1>7. ASSUME NEW op \in {"trash", "inbox"}, Move(op)
      PROVE  TypeOK'
  <2>1. view' \in Views /\ view'.selected \subseteq view'.rows /\ view'.stars \subseteq view'.rows
    BY <1>7 DEF Move, Views
  <2>2. Post(op, view.selected) /\ op \in Ops /\ view.selected \in SUBSET Messages
    BY <1>7 DEF Move, Ops, Views
  <2>3. remembered' \in [Tabs -> SUBSET Messages]
    BY <1>7 DEF Move
  <2> QED
    BY <1>5, <1>7, <2>1, <2>2, <2>3 DEF Move, Requests
<1>8. ASSUME RemoveMessages
      PROVE  TypeOK'
  <2>1. Post("delete", view.selected) /\ "delete" \in Ops /\ view.selected \in SUBSET Messages
    BY <1>8 DEF RemoveMessages, Ops, Views
  <2> QED
    BY <1>5, <1>8, <2>1 DEF RemoveMessages, Requests
<1>f. ASSUME NEW failed \in BOOLEAN, MayFail(failed)
      PROVE  fails' \in 0..MaxFails /\ lost' = lost
  BY <1>f, InboxAssumption DEF MayFail
<1>9. ASSUME NEW i \in Slots, NEW failed \in BOOLEAN, ReadMessages(i, failed)
      PROVE  TypeOK'
  BY <1>9, <1>f, ReadTyped DEF ReadMessages, store, Requests
<1>9a. ASSUME NEW i \in Slots, NEW failed \in BOOLEAN, CountMessages(i, failed)
       PROVE  TypeOK'
  BY <1>9a, <1>f, CountTyped DEF CountMessages, store, Requests
<1>10. ASSUME NEW i \in Slots, NEW ok \in BOOLEAN, IsAct(i), Served(i, ok)
       PROVE  sent' \in [Slots -> Requests]
  <2>1. [sent[i] EXCEPT !.phase = "answered", !.ok = ok] \in Acts
    BY <1>10, RequestKinds DEF Acts
  <2> QED
    BY <1>10, <2>1 DEF Served, Requests
<1>11. ASSUME NEW i \in Slots, NEW told \in BOOLEAN, Execute(i, told)
       PROVE  TypeOK'
  <2>1. StatusAfter(sent[i].op) \in Statuses
    BY <1>11, RequestKinds DEF Execute, StatusAfter, Statuses, Acts, Ops
  <2>2. status' \in [Messages -> Statuses]
    BY <1>11, <2>1 DEF Execute
  <2> QED
    BY <1>10, <1>11, <1>f, <2>2 DEF Execute, store, Requests
<1>12. ASSUME NEW i \in Slots, Refuse(i)
       PROVE  TypeOK'
  BY <1>10, <1>12 DEF Refuse, store, failures, Requests
<1>13. ASSUME NEW i \in Slots, LoadAnswered(i)
       PROVE  TypeOK'
  <2>1. sent[i] \in Loads
    BY <1>13, RequestKinds DEF LoadAnswered
  <2>2. view' \in Views /\ view'.selected \subseteq view'.rows /\ view'.stars \subseteq view'.rows
    BY <1>13, <2>1 DEF LoadAnswered, RowsIn, Loads, Views
  <2>3. ASSUME NEW j \in Slots, IsAct(j)
        PROVE  [sent[j] EXCEPT !.live = FALSE] \in Acts
    BY <2>3, RequestKinds DEF Acts
  <2> QED
    BY <1>13, <2>2, <2>3 DEF LoadAnswered, store, failures
<1>14. ASSUME NEW i \in Slots, NotDone(i)
       PROVE  TypeOK'
  BY <1>14 DEF NotDone, Done, store, failures
<1>15. ASSUME NEW i \in Slots, StarAnswered(i)
       PROVE  TypeOK'
  <2>1. page' \in [Tabs -> 1..(Cardinality(Messages) + 1)]
    BY <1>15, <1>t, <1>p DEF StarAnswered
  <2>2. page'[tab] \in Nat
    BY <2>1, <1>c
  <2>3. CASE sent[i].type # "starred"
    BY <1>15, <2>1, <2>3 DEF StarAnswered, Done, failures
  <2>4. CASE sent[i].type = "starred"
    <3> DEFINE off == IF sent[i].op = "unstar" THEN sent[i].msgs ELSE {}
    <3>1. /\ remembered' = [remembered EXCEPT !["starred"] = @ \ off]
          /\ GetMessages(i, tab)
          /\ view' = [view EXCEPT !.newest = FALSE,
                        !.selected = IF sent[i].live THEN @ \ off ELSE @]
      BY <1>15, <2>4 DEF StarAnswered
    <3>2. view' \in Views /\ view'.selected \subseteq view'.rows
          /\ view'.stars \subseteq view'.rows
      BY <3>1 DEF Views
    <3>3. remembered' \in [Tabs -> SUBSET Messages]
      BY <3>1
    <3>4. sent' \in [Slots -> Requests] /\ disabled' \in BOOLEAN /\ unseen' \in BOOLEAN
      BY <2>2, <3>1, GetMessagesTyped DEF GetMessages
    <3> QED
      BY <1>15, <2>1, <3>2, <3>3, <3>4 DEF StarAnswered, Requests, failures
  <2> QED
    BY <2>3, <2>4
<1>16. ASSUME NEW i \in Slots, Reload(i), page'[tab] \in Nat
       PROVE  /\ sent' \in [Slots -> Requests] /\ disabled' \in BOOLEAN /\ unseen' = FALSE
              /\ view' \in Views /\ view'.selected \subseteq view'.rows
              /\ view'.stars \subseteq view'.rows
  BY <1>16, GetMessagesTyped DEF Reload, GetMessages, Views
<1>17. ASSUME NEW i \in Slots, TrashAnswered(i)
       PROVE  TypeOK'
  <2>1. page' \in [Tabs -> 1..(Cardinality(Messages) + 1)]
    BY <1>17, <1>p DEF TrashAnswered
  <2>2. page'[tab] \in Nat
    BY <2>1, <1>c
  <2>3. CASE sent[i].type = "trash"
    BY <1>17, <2>1, <2>3 DEF TrashAnswered, Done, failures
  <2>4. CASE sent[i].type # "trash"
    BY <1>16, <1>17, <2>1, <2>2, <2>4 DEF TrashAnswered, Requests, failures
  <2> QED
    BY <2>3, <2>4
<1>18. ASSUME NEW i \in Slots, TrashLeft(i)
       PROVE  TypeOK'
  <2>1. page' \in [Tabs -> 1..(Cardinality(Messages) + 1)]
    BY <1>18, <1>p DEF TrashLeft
  <2>2. page'[tab] \in Nat
    BY <2>1, <1>c
  <2> QED
    BY <1>16, <1>18, <2>1, <2>2 DEF TrashLeft, Requests, failures
<1>19. ASSUME NEW i \in Slots, Fail(i)
       PROVE  TypeOK'
  <2>1. IsAct(i) => [sent[i] EXCEPT !.phase = "dropped"] \in Acts
    BY RequestKinds DEF Acts
  <2>2. fails' \in 0..MaxFails
    BY <1>19, InboxAssumption DEF Fail
  <2> QED
    BY <1>19, <2>1, <2>2 DEF Fail, store
<1>20. ASSUME UNCHANGED vars
       PROVE  TypeOK'
  BY <1>20 DEF vars, store, failures
<1> QED
  BY <1>1, <1>2, <1>3, <1>4, <1>6, <1>7, <1>8, <1>9, <1>9a, <1>11, <1>12, <1>13, <1>14,
     <1>15, <1>17, <1>18, <1>19, <1>20 DEF Next, UserActs, Serve, Answer

\* The page starts with everything in its type.
LEMMA InitTyped == Init => TypeOK
<1> SUFFICES ASSUME Init
             PROVE  TypeOK
  OBVIOUS
<1>1. Cardinality(Messages) \in Nat /\ 1 \in Nat
  BY CountIsNat
<1>2. view \in Views /\ view.selected = {} /\ view.stars = {}
  BY DEF Init, Views
<1>3. [op |-> "load", type |-> tab, page |-> 1, rows |-> {}, stars |-> {}, total |-> 0,
       newest |-> TRUE, masked |-> FALSE, phase |-> "sent"] \in Loads
  BY DEF Init, Loads
<1>4. sent \in [Slots -> Requests]
  BY <1>3 DEF Init, Requests
<1>5. status \in [Messages -> Statuses]
  BY DEF Init, Statuses
<1>6. page \in [Tabs -> 1..(Cardinality(Messages) + 1)]
  BY <1>1 DEF Init
<1>7. acts \in 0..MaxActs /\ fails \in 0..MaxFails
  BY InboxAssumption DEF Init
<1> QED
  BY <1>2, <1>4, <1>5, <1>6, <1>7 DEF Init, TypeOK, Requests

\* The page, its store and the hub hold what the handlers may put there.
THEOREM TypeInvariance == Spec => []TypeOK
<1> QED
  BY InitTyped, TypeStep, PTL DEF Spec

------------------------------------------------------------------------------
(* What is on its way, beside the properties: the latest question is about   *)
(* the tab shown, and a list of another tab than the one opened waits for    *)
(* an answer.                                                                *)

LoadsForTab == \A i \in Slots : IsLoad(i) /\ sent[i].newest => sent[i].type = tab

TabAhead == view.type # tab => (\E i \in Slots : IsLoad(i)) \/ lost

\* How a step may change what is on its way and leave the invariant alone: it
\* loses no load, and turns none into one about another tab.
KeepsLoads ==
  /\ tab' = tab
  /\ \A i \in Slots : IsLoad(i) => /\ IsLoad(i)' /\ sent'[i].newest = sent[i].newest
                                   /\ sent'[i].type = sent[i].type
  /\ \A i \in Slots : IsLoad(i)' => IsLoad(i)

LEMMA LoadsKept ==
  ASSUME KeepsLoads, view'.newest = view.newest, view'.type = view.type, view'.of = view.of,
         lost' = lost
  PROVE  /\ ShowsItsTab => ShowsItsTab'
         /\ LoadsForTab => LoadsForTab'
         /\ TabAhead => TabAhead'
         /\ (\E i \in Slots : IsLoad(i) /\ sent[i].newest)
              => (\E i \in Slots : IsLoad(i) /\ sent[i].newest)'
  BY DEF KeepsLoads, ShowsItsTab, LoadsForTab, TabAhead

\* A question for the messages of the tab shown, or just opened, establishes
\* everything but what it leaves alone.
LEMMA Asked ==
  ASSUME TypeOK, NEW i \in Slots, NEW t \in Tabs, GetMessages(i, t), page'[t] \in Nat,
         tab' = t, view'.newest = FALSE
  PROVE  ShowsItsTab' /\ LoadsForTab' /\ TabAhead' /\ SelectionRemembered' /\ SpinnerWaits'
<1>1. /\ IsLoad(i)' /\ sent'[i].newest /\ sent'[i].type = t
      /\ sent'[i] # None /\ sent'[i].phase = "sent" /\ sent'[i].op = "load"
      /\ \A j \in Slots \ {i} : IsLoad(j)' => ~sent'[j].newest
  BY GetMessagesNewest
<1>2. Hides(sent[i])'
  BY <1>1 DEF Hides
<1> QED
  BY <1>1, <1>2 DEF ShowsItsTab, LoadsForTab, TabAhead, SelectionRemembered, SpinnerWaits

Inv == TypeOK /\ ShowsItsTab /\ LoadsForTab /\ TabAhead /\ SelectionRemembered /\ SpinnerWaits

\* The first question is about the tab the page is opened with.
LEMMA InvInit ==
  Init => ShowsItsTab /\ LoadsForTab /\ TabAhead /\ SelectionRemembered /\ SpinnerWaits
<1> SUFFICES ASSUME Init
             PROVE  ShowsItsTab /\ LoadsForTab /\ TabAhead /\ SelectionRemembered /\ SpinnerWaits
  OBVIOUS
<1> DEFINE load == [op |-> "load", type |-> tab, page |-> 1, rows |-> {}, stars |-> {},
                   total |-> 0, newest |-> TRUE, masked |-> FALSE, phase |-> "sent"]
<1>1. PICK first \in Slots : sent = [i \in Slots |-> IF i = first THEN load ELSE None]
  BY DEF Init
<1>2. load \in Loads
  BY DEF Init, Loads
<1>3. load # None
  BY <1>2, NoneAssumption
<1>4. /\ sent[first] # None /\ sent[first].op = "load" /\ sent[first].phase = "sent"
      /\ sent[first].type = tab
  BY <1>1, <1>3
<1>5. \A i \in Slots : i # first => sent[i] = None
  BY <1>1
<1>6. ShowsItsTab /\ TabAhead /\ SelectionRemembered
  BY DEF Init, ShowsItsTab, TabAhead, SelectionRemembered
<1> QED
  BY <1>4, <1>5, <1>6 DEF LoadsForTab, IsLoad, SpinnerWaits, Hides

\* The inductive step, one case per action.
LEMMA InvStep ==
  ASSUME Inv, [Next]_vars
  PROVE  ShowsItsTab' /\ LoadsForTab' /\ TabAhead' /\ SelectionRemembered' /\ SpinnerWaits'
<1> DEFINE Good == ShowsItsTab /\ LoadsForTab /\ TabAhead /\ SelectionRemembered /\ SpinnerWaits
<1> USE DEF failures
<1>0. TypeOK /\ TypeOK' /\ ShowsItsTab /\ LoadsForTab /\ TabAhead /\ SelectionRemembered
      /\ SpinnerWaits
  BY TypeStep DEF Inv
<1>p. \A t \in Tabs : page'[t] \in Nat
  <2>1. Cardinality(Messages) \in Nat
    BY CountIsNat
  <2> QED
    BY <1>0, <2>1 DEF TypeOK
<1>t. tab \in Tabs /\ view \in Views /\ view.type \in Tabs
      /\ remembered \in [Tabs -> SUBSET Messages]
      /\ view.selected \subseteq view.rows /\ view.selected \in SUBSET Messages
  BY <1>0 DEF TypeOK, Views
<1>1. ASSUME NEW t \in Tabs, OpenTab(t)
      PROVE  Good'
  BY <1>0, <1>p, <1>t, <1>1, Asked DEF OpenTab, Views
<1>2. ASSUME NEW p \in 1..Cardinality(Messages), TurnPage(p)
      PROVE  Good'
  BY <1>0, <1>p, <1>t, <1>2, Asked DEF TurnPage, Views
<1>3. ASSUME NEW i \in Slots, Reload(i), tab' = tab
      PROVE  Good'
  BY <1>0, <1>p, <1>t, <1>3, Asked DEF Reload, Views
<1>4. ASSUME sent' = sent, tab' = tab
      PROVE  KeepsLoads
  BY <1>4 DEF KeepsLoads, IsLoad
<1>5. ASSUME NEW m \in Messages, Toggle(m)
      PROVE  Good'
  <2>1. /\ view'.newest = view.newest /\ view'.type = view.type /\ view'.of = view.of
        /\ view'.rows = view.rows /\ sent' = sent /\ tab' = tab /\ lost' = lost
        /\ ~disabled /\ disabled' = disabled /\ m \in view.rows
    BY <1>5, <1>t DEF Toggle, Views
  <2>2. CASE m \in view.selected
    <3>1. view'.selected = view.selected \ {m}
          /\ remembered'[view.type] = remembered[view.type] \ {m}
      BY <1>5, <1>t, <2>2 DEF Toggle, Views
    <3>2. SelectionRemembered'
      BY <1>0, <1>4, <2>1, <3>1, LoadsKept DEF SelectionRemembered
    <3> QED
      BY <1>0, <1>4, <2>1, <3>2, LoadsKept DEF SpinnerWaits
  <2>3. CASE m \notin view.selected
    <3>1. view'.selected = view.selected \union {m}
          /\ remembered'[view.type] = remembered[view.type] \union {m}
      BY <1>5, <1>t, <2>3 DEF Toggle, Views
    <3>2. SelectionRemembered'
      BY <1>0, <1>4, <2>1, <3>1, LoadsKept DEF SelectionRemembered
    <3> QED
      BY <1>0, <1>4, <2>1, <3>2, LoadsKept DEF SpinnerWaits
  <2> QED
    BY <2>2, <2>3
<1>6. ASSUME SelectAll
      PROVE  Good'
  <2> DEFINE on == IF view.rows \subseteq view.selected THEN {} ELSE view.rows
  <2>1. /\ view'.newest = view.newest /\ view'.type = view.type /\ view'.of = view.of
        /\ view'.rows = view.rows /\ sent' = sent /\ tab' = tab /\ lost' = lost
        /\ ~disabled /\ disabled' = disabled /\ view'.selected = on
        /\ remembered'[view.type] = (remembered[view.type] \ view.rows) \union on
    BY <1>6, <1>t DEF SelectAll, Views
  <2>2. on = view.rows \intersect ((remembered[view.type] \ view.rows) \union on)
    OBVIOUS
  <2>3. SelectionRemembered'
    BY <2>1, <2>2 DEF SelectionRemembered
  <2> QED
    BY <1>0, <1>4, <2>1, <2>3, LoadsKept DEF SpinnerWaits
<1>7. ASSUME NEW op \in Ops, NEW msgs \in SUBSET Messages, Post(op, msgs)
      PROVE  /\ KeepsLoads /\ lost' = lost
             /\ SpinnerWaits /\ disabled' = disabled => SpinnerWaits'
             /\ (\E i \in Slots : IsLoad(i)) => SpinnerWaits'
             /\ ~(op = "trash" /\ tab = "trash") /\ op \notin {"star", "unstar"}
                  => SpinnerWaits'
  <2> DEFINE r == [op |-> op, type |-> tab, msgs |-> msgs, ok |-> FALSE, live |-> TRUE,
                   phase |-> "sent"]
  <2>1. PICK i \in Slots : sent[i] = None /\ sent' = [sent EXCEPT ![i] = r]
    BY <1>7 DEF Post
  <2>2. sent[i] = None /\ r.op # "load" /\ sent'[i] = r
    BY <1>0, <2>1 DEF Ops, TypeOK
  <2>3. \A j \in Slots : j # i => sent'[j] = sent[j]
    BY <1>0, <2>1 DEF TypeOK
  <2>4. KeepsLoads /\ lost' = lost
    BY <1>7, <2>2, <2>3 DEF Post, KeepsLoads, IsLoad
  <2>5. ASSUME NEW j \in Slots, sent[j] # None
        PROVE  sent'[j] = sent[j]
    BY <2>2, <2>3, <2>5
  <2>6. SpinnerWaits /\ disabled' = disabled => SpinnerWaits'
    BY <2>4, <2>5 DEF SpinnerWaits, Hides
  <2>7. ASSUME NEW j \in Slots, IsLoad(j)
        PROVE  sent'[j] # None /\ sent'[j].phase # "dropped" /\ Hides(sent'[j])
    <3>1. sent[j] \in Loads /\ sent[j] # None
      BY <1>0, <2>7, RequestKinds DEF IsLoad
    <3> QED
      BY <2>5, <3>1 DEF Loads, Hides
  <2>8. ASSUME ~(op = "trash" /\ tab = "trash"), op \notin {"star", "unstar"}
        PROVE  SpinnerWaits'
    <3>1. r \in Acts
      BY <1>t DEF Acts
    <3>2. r # None
      BY <3>1, NoneAssumption
    <3> QED
      BY <2>2, <2>8, <3>2 DEF SpinnerWaits, Hides, Ops
  <2> QED
    BY <2>4, <2>6, <2>7, <2>8 DEF SpinnerWaits
<1>8. ASSUME NEW m \in Messages, MarkToStarred(m)
      PROVE  Good'
  <2>1. PICK op \in Ops : Post(op, {m})
    BY <1>8 DEF MarkToStarred, Ops
  <2>2. /\ view'.newest = view.newest /\ view'.type = view.type /\ view'.of = view.of
        /\ view'.rows = view.rows /\ view'.selected = view.selected
        /\ remembered' = remembered /\ disabled' = disabled
    BY <1>8, <1>t DEF MarkToStarred, Views
  <2>3. KeepsLoads /\ lost' = lost /\ SpinnerWaits'
    <3>1. {m} \in SUBSET Messages
      OBVIOUS
    <3> QED
      BY <1>0, <1>7, <2>1, <2>2, <3>1
  <2> QED
    BY <1>0, <2>2, <2>3, LoadsKept DEF SelectionRemembered
<1>9. ASSUME NEW op \in {"trash", "inbox"}, Move(op)
      PROVE  Good'
  <2>1. Post(op, view.selected) /\ op \in Ops /\ (view.type = "trash" <=> op = "inbox")
    BY <1>9 DEF Move, Ops
  <2>2. /\ view'.newest = view.newest /\ view'.type = view.type /\ view'.of = view.of
        /\ view'.rows = view.rows /\ view'.selected = {}
        /\ remembered'[view.type] = remembered[view.type] \ view.selected
    BY <1>9, <1>t DEF Move, Views
  <2>3. KeepsLoads /\ lost' = lost
    BY <1>7, <1>t, <2>1
  <2>4. SelectionRemembered'
    BY <1>0, <2>2, <2>3, LoadsKept DEF SelectionRemembered
  <2>5. SpinnerWaits'
    <3>1. CASE op = "trash" /\ tab = "trash"
      <4>1. (\E i \in Slots : IsLoad(i)) \/ lost
        BY <1>0, <2>1, <3>1 DEF TabAhead
      <4> QED
        BY <1>7, <1>t, <2>1, <2>3, <4>1 DEF SpinnerWaits
    <3>2. CASE ~(op = "trash" /\ tab = "trash")
      BY <1>7, <1>t, <2>1, <3>2
    <3> QED
      BY <3>1, <3>2
  <2> QED
    BY <1>0, <2>2, <2>3, <2>4, <2>5, LoadsKept
<1>10. ASSUME RemoveMessages
       PROVE  Good'
  <2>1. Post("delete", view.selected) /\ "delete" \in Ops /\ view' = view
        /\ remembered' = remembered
    BY <1>10 DEF RemoveMessages, Ops
  <2>2. KeepsLoads /\ lost' = lost /\ SpinnerWaits'
    BY <1>7, <1>t, <2>1
  <2> QED
    BY <1>0, <2>1, <2>2, LoadsKept DEF SelectionRemembered
<1>11. ASSUME NEW i \in Slots, NEW failed \in BOOLEAN,
              ReadMessages(i, failed) \/ CountMessages(i, failed)
       PROVE  Good'
  <2>1. /\ IsLoad(i) /\ sent'[i] # None /\ sent'[i].op = "load"
        /\ sent'[i].phase \in {"counting", "answered"}
        /\ sent'[i].type = sent[i].type /\ sent'[i].newest = sent[i].newest
        /\ \A j \in Slots : j # i => sent'[j] = sent[j]
    BY <1>0, <1>11, ReadTyped, CountTyped DEF ReadMessages, CountMessages
  <2>2. UNCHANGED <<tab, view, disabled, store, lost>>
    BY <1>11 DEF ReadMessages, CountMessages, MayFail
  <2>3. KeepsLoads
    BY <2>1, <2>2 DEF KeepsLoads, IsLoad
  <2>4. SpinnerWaits'
    BY <1>0, <2>1, <2>2 DEF SpinnerWaits, Hides
  <2> QED
    BY <1>0, <2>2, <2>3, <2>4, LoadsKept DEF store, SelectionRemembered
<1>12. ASSUME NEW i \in Slots, IsAct(i), NEW ok \in BOOLEAN, Served(i, ok),
              UNCHANGED <<tab, view, disabled, store, lost>>
       PROVE  Good'
  <2>1. sent[i] \in Acts /\ sent[i] # None /\ sent[i].op # "load"
    BY <1>0, <1>12, RequestKinds DEF IsAct
  <2>2. \A j \in Slots : j # i => sent'[j] = sent[j]
    BY <1>0, <1>12 DEF Served, TypeOK
  <2>3. CASE sent[i].phase = "dropped"
    <3>1. sent'[i] = None
      BY <1>0, <1>12, <2>3 DEF Served, TypeOK
    <3>2. KeepsLoads
      BY <1>12, <2>1, <2>2, <3>1 DEF KeepsLoads, IsLoad
    <3>3. SpinnerWaits'
      BY <1>0, <1>12, <2>2, <2>3, <3>1 DEF SpinnerWaits, Hides
    <3> QED
      BY <1>0, <1>12, <3>2, <3>3, LoadsKept DEF store, SelectionRemembered
  <2>4. CASE sent[i].phase # "dropped"
    <3>1. /\ sent'[i] \in Acts /\ sent'[i].op = sent[i].op /\ sent'[i].type = sent[i].type
          /\ sent'[i].phase = "answered"
      BY <1>0, <1>12, <2>1, <2>4 DEF Served, TypeOK, Acts
    <3>2. sent'[i] # None
      BY <3>1, NoneAssumption
    <3>3. KeepsLoads
      BY <1>12, <2>1, <2>2, <3>1 DEF KeepsLoads, IsLoad
    <3>4. SpinnerWaits'
      BY <1>0, <1>12, <2>2, <3>1, <3>2 DEF SpinnerWaits, Hides
    <3> QED
      BY <1>0, <1>12, <3>3, <3>4, LoadsKept DEF store, SelectionRemembered
  <2> QED
    BY <2>3, <2>4
<1>13. ASSUME NEW i \in Slots, NEW told \in BOOLEAN, Execute(i, told)
       PROVE  Good'
  BY <1>12, <1>13 DEF Execute, MayFail, store
<1>14. ASSUME NEW i \in Slots, Refuse(i)
       PROVE  Good'
  BY <1>12, <1>14 DEF Refuse, failures, store
<1>15. ASSUME NEW i \in Slots, LoadAnswered(i)
       PROVE  Good'
  <2>1. sent[i] \in Loads /\ IsLoad(i)
    BY <1>0, <1>15, RequestKinds DEF LoadAnswered
  <2>2. /\ view'.type = tab /\ view'.of = sent[i].type /\ view'.newest = sent[i].newest
        /\ view'.selected = view'.rows \intersect remembered[sent[i].type]
        /\ remembered' = remembered /\ tab' = tab /\ lost' = lost /\ ~disabled'
    BY <1>15 DEF LoadAnswered, store
  <2>3. \A j \in Slots : IsLoad(j)' => sent'[j] = sent[j]
    BY <1>15, RequestKinds, <1>0 DEF LoadAnswered, IsLoad, IsAct, Acts, Ops
  <2>4. LoadsForTab'
    BY <1>0, <2>2, <2>3 DEF LoadsForTab, IsLoad
  <2>5. ShowsItsTab'
    BY <1>0, <2>1, <2>2 DEF ShowsItsTab, LoadsForTab
  <2> QED
    BY <2>2, <2>4, <2>5 DEF TabAhead, SelectionRemembered, SpinnerWaits
<1>16. ASSUME NEW i \in Slots, IsAct(i), Done(i),
              UNCHANGED <<tab, view, remembered, lost>>,
              disabled' => disabled /\ ~Hides(sent[i])
       PROVE  Good'
  <2>1. sent'[i] = None /\ \A j \in Slots : j # i => sent'[j] = sent[j]
    BY <1>0, <1>16 DEF Done, TypeOK
  <2>2. KeepsLoads
    BY <1>16, <2>1 DEF KeepsLoads, IsLoad, IsAct
  <2>3. SpinnerWaits'
    BY <1>0, <1>16, <2>1 DEF SpinnerWaits, Hides
  <2> QED
    BY <1>0, <1>16, <2>2, <2>3, LoadsKept DEF SelectionRemembered
<1>17. ASSUME NEW i \in Slots, NotDone(i)
       PROVE  Good'
  <2>1. disabled' => disabled /\ ~Hides(sent[i])
    BY <1>17 DEF NotDone, Hides
  <2> QED
    BY <1>16, <1>17, <2>1 DEF NotDone, Answered, store
<1>18. ASSUME NEW i \in Slots, StarAnswered(i)
       PROVE  Good'
  <2>1. CASE sent[i].type # "starred"
    <3>1. ~Hides(sent[i])
      BY <1>18 DEF StarAnswered, Hides
    <3> QED
      BY <1>16, <1>18, <2>1, <3>1 DEF StarAnswered, Answered
  <2>2. CASE sent[i].type = "starred"
    <3>1. GetMessages(i, tab) /\ tab' = tab /\ view'.newest = FALSE
      BY <1>18, <1>t, <2>2 DEF StarAnswered, Views
    <3> QED
      BY <1>0, <1>p, <1>t, <3>1, Asked
  <2> QED
    BY <2>1, <2>2
<1>19. ASSUME NEW i \in Slots, TrashAnswered(i)
       PROVE  Good'
  <2>1. CASE sent[i].type = "trash"
    <3>1. ~Hides(sent[i])
      BY <1>19, <2>1 DEF TrashAnswered, Hides
    <3> QED
      BY <1>16, <1>19, <2>1, <3>1 DEF TrashAnswered, Answered
  <2>2. CASE sent[i].type # "trash"
    BY <1>3, <1>19, <2>2 DEF TrashAnswered
  <2> QED
    BY <2>1, <2>2
<1>20. ASSUME NEW i \in Slots, TrashLeft(i)
       PROVE  Good'
  BY <1>3, <1>20 DEF TrashLeft
<1>21. ASSUME NEW i \in Slots, Fail(i)
       PROVE  Good'
  <2>1. lost'
    BY <1>21 DEF Fail
  <2>2. \A j \in Slots : IsLoad(j)' => sent'[j] = sent[j]
    BY <1>0, <1>21, RequestKinds DEF Fail, IsLoad, IsAct, TypeOK, Acts, Ops
  <2>3. view' = view /\ tab' = tab
    BY <1>21 DEF Fail
  <2> QED
    BY <1>0, <2>1, <2>2, <2>3
       DEF ShowsItsTab, LoadsForTab, TabAhead, SelectionRemembered, SpinnerWaits, IsLoad
<1>22. ASSUME UNCHANGED vars
       PROVE  Good'
  BY <1>0, <1>22 DEF vars, store, ShowsItsTab, LoadsForTab, TabAhead, SelectionRemembered,
     SpinnerWaits, IsLoad, Hides
<1> QED
  <2>1. Next => Good'
    BY <1>1, <1>2, <1>5, <1>6, <1>8, <1>9, <1>10, <1>11, <1>13, <1>14, <1>15, <1>17,
       <1>18, <1>19, <1>20, <1>21 DEF Next, UserActs, Serve, Answer
  <2> QED
    BY <1>22, <2>1

\* Everything together is invariant.
LEMMA InvHolds == Spec => []Inv
<1>1. Init => TypeOK
  BY InitTyped
<1>2. Init => Inv
  BY <1>1, InvInit DEF Inv
<1>3. Inv /\ [Next]_vars => Inv'
  BY TypeStep, InvStep DEF Inv
<1> QED
  BY <1>2, <1>3, PTL DEF Spec

\* However the answers of the server are ordered, the list that the latest
\* question brought is the list of the tab the user looks at.
THEOREM ShowsItsOwn == Spec => []ShowsItsTab
<1>1. Inv => ShowsItsTab
  BY DEF Inv
<1> QED
  BY <1>1, InvHolds, PTL

\* What is selected in a tab's list is what the store remembers for the tab.
THEOREM SelectionKept == Spec => []SelectionRemembered
<1>1. Inv => SelectionRemembered
  BY DEF Inv
<1> QED
  BY <1>1, InvHolds, PTL

\* A list under the spinner waits for an answer that takes the spinner away.
THEOREM SpinnerEnds == Spec => []SpinnerWaits
<1>1. Inv => SpinnerWaits
  BY DEF Inv
<1> QED
  BY <1>1, InvHolds, PTL
------------------------------------------------------------------------------
(* What a request that changes messages finds.  As long as the user acts on  *)
(* the latest rows and one request changes messages at a time, the rows on   *)
(* the page and on their way to it are of the tab they are shown in, except  *)
(* between the step of the server that moves messages and its answer, and    *)
(* after a step of which the page was told nothing, until it asks again.     *)

\* The messages the operations of a tab are meant for.
Kinds(t) == IF t = "trash" THEN {"trash"} ELSE {"default", "starred"}

Moved == \E i \in Slots : /\ IsAct(i) /\ sent[i].phase = "answered" /\ sent[i].ok
                          /\ sent[i].op \in {"trash", "inbox", "delete"}

\* The page knows of everything done, or asks for the list again before it may not.
Told == ~Moved /\ ~unseen

RowsFit == view.newest /\ Told => \A m \in view.rows : status[m] \in Kinds(view.type)

LoadsFit == Told => \A i \in Slots :
              IsLoad(i) /\ sent[i].newest /\ sent[i].phase \in {"counting", "answered"}
                => \A m \in sent[i].rows : status[m] \in Kinds(sent[i].type)

OneAct == \A i, j \in Slots : IsAct(i) /\ IsAct(j) => i = j

ActsFit == \A i \in Slots : IsAct(i) =>
             /\ sent[i].op = "trash" => sent[i].type # "trash"
             /\ Waits(i) => \A m \in sent[i].msgs : status[m] \in Fits(sent[i].op)

Calm == ~raced
Fitting == RowsFit /\ LoadsFit /\ OneAct /\ ActsFit

\* The rows of a question just asked are yet to come.
LEMMA FittingAsked ==
  ASSUME TypeOK, Fitting, NEW i \in Slots, NEW t \in Tabs, GetMessages(i, t), page'[t] \in Nat,
         view'.newest = FALSE, status' = status
  PROVE  Fitting'
<1>1. /\ IsLoad(i)' /\ sent'[i].phase = "sent" /\ sent'[i].op = "load"
      /\ \A j \in Slots \ {i} : IsLoad(j)' => ~sent'[j].newest
  BY GetMessagesNewest
<1>2. ASSUME NEW j \in Slots, IsAct(j)'
      PROVE  IsAct(j) /\ sent'[j] = sent[j]
  <2>1. j # i
    BY <1>1, <1>2 DEF IsAct
  <2>2. CASE IsLoad(j)
    <3>1. sent[j] \in Loads /\ sent'[j] = [sent[j] EXCEPT !.newest = FALSE]
      BY <2>1, <2>2, RequestKinds DEF GetMessages
    <3>2. sent'[j].op = "load"
      BY <3>1 DEF Loads
    <3> QED
      BY <1>2, <3>2 DEF IsAct
  <2>3. CASE ~IsLoad(j)
    BY <1>2, <2>1, <2>3 DEF GetMessages, IsAct
  <2> QED
    BY <2>2, <2>3
<1>3. RowsFit' /\ LoadsFit'
  BY <1>1 DEF RowsFit, LoadsFit
<1> QED
  BY <1>2, <1>3 DEF Fitting, OneAct, ActsFit, Waits

\* A request that moved nothing is taken off.
LEMMA FittingDone ==
  ASSUME TypeOK, Fitting, NEW i \in Slots, IsAct(i), Done(i), status' = status,
         ~(sent[i].ok /\ sent[i].op \in {"trash", "inbox", "delete"}) \/ unseen',
         view' = view, unseen => unseen'
  PROVE  Fitting'
<1>1. sent'[i] = None /\ \A j \in Slots : j # i => sent'[j] = sent[j]
  BY DEF Done, TypeOK
<1>2. ~Moved \/ unseen'
  BY DEF Fitting, OneAct, Moved
<1>3. RowsFit' /\ LoadsFit'
  BY <1>1, <1>2 DEF Fitting, RowsFit, LoadsFit, Told, IsLoad
<1> QED
  BY <1>1, <1>3 DEF Fitting, OneAct, ActsFit, IsAct, Waits

\* A request sent from the latest rows finds the messages it is meant for.
LEMMA FittingPost ==
  ASSUME Inv, Fitting, NEW op \in Ops, NEW msgs \in SUBSET view.rows, Post(op, msgs), ~raced',
         view.type = "trash" <=> op \in {"inbox", "delete"},
         view'.newest = view.newest, view'.rows = view.rows, view'.type = view.type
  PROVE  Fitting'
<1> DEFINE r == [op |-> op, type |-> tab, msgs |-> msgs, ok |-> FALSE, live |-> TRUE,
                 phase |-> "sent"]
<1>0. TypeOK /\ ShowsItsTab
  BY DEF Inv
<1>1. PICK i \in Slots : sent[i] = None /\ sent' = [sent EXCEPT ![i] = r]
  BY DEF Post
<1>2. sent[i] = None /\ sent'[i] = r /\ \A j \in Slots : j # i => sent'[j] = sent[j]
  BY <1>0, <1>1 DEF TypeOK
<1>3. view.newest /\ ~unseen /\ ~unseen' /\ (\A j \in Slots : ~IsAct(j)) /\ status' = status
  BY <1>0 DEF Post, TypeOK, Views
<1>4. view.type = tab
  BY <1>0, <1>3 DEF ShowsItsTab
<1>5. Told /\ Told'
  BY <1>2, <1>3 DEF Told, Moved, IsAct
<1>6. RowsFit' /\ LoadsFit'
  <2>1. ~IsLoad(i)'
    BY <1>2 DEF IsLoad, Ops
  <2>2. RowsFit'
    BY <1>3, <1>5 DEF Fitting, RowsFit
  <2>3. LoadsFit'
    BY <1>2, <1>3, <1>5, <2>1 DEF Fitting, LoadsFit, IsLoad
  <2> QED
    BY <2>2, <2>3
<1>7. OneAct'
  BY <1>2, <1>3 DEF OneAct, IsAct
<1>8. ActsFit'
  <2>1. \A m \in msgs : status[m] \in Kinds(view.type)
    BY <1>3, <1>5 DEF Fitting, RowsFit
  <2>2. Kinds(view.type) = Fits(op)
    BY DEF Kinds, Fits, Ops
  <2>3. op = "trash" => tab # "trash"
    BY <1>4
  <2>4. \A j \in Slots : IsAct(j)' => j = i
    BY <1>2, <1>3 DEF IsAct
  <2> QED
    BY <1>2, <1>3, <2>1, <2>2, <2>3, <2>4 DEF ActsFit, Waits
<1> QED
  BY <1>6, <1>7, <1>8 DEF Fitting

\* The hub answers a call for a load: everything else stays as it was.
LEMMA LoadServed ==
  ASSUME TypeOK, NEW i \in Slots, NEW failed \in BOOLEAN,
         ReadMessages(i, failed) \/ CountMessages(i, failed)
  PROVE  /\ IsLoad(i) /\ sent[i] \in Loads
         /\ UNCHANGED <<status, tab, view, page, unseen, raced>>
         /\ sent'[i].op = "load" /\ sent'[i].type = sent[i].type
         /\ sent'[i].page = sent[i].page /\ sent'[i].newest = sent[i].newest
         /\ \A j \in Slots : j # i => sent'[j] = sent[j]
         /\ \A j \in Slots : IsAct(j)' <=> IsAct(j)
         /\ \A j \in Slots : IsAct(j) => sent'[j] = sent[j]
         /\ Told' <=> Told
<1>1. /\ IsLoad(i) /\ sent[i] \in Loads /\ sent[i].op = "load"
      /\ sent'[i].op = "load" /\ sent'[i].type = sent[i].type
      /\ sent'[i].page = sent[i].page /\ sent'[i].newest = sent[i].newest
      /\ \A j \in Slots : j # i => sent'[j] = sent[j]
  <2>1. IsLoad(i)
    BY DEF ReadMessages, CountMessages
  <2>2. CASE ReadMessages(i, failed)
    BY <2>1, <2>2, ReadTyped DEF IsLoad
  <2>3. CASE CountMessages(i, failed)
    BY <2>1, <2>3, CountTyped DEF IsLoad
  <2> QED
    BY <2>2, <2>3
<1>2. UNCHANGED <<status, tab, view, page, unseen, raced>>
  BY DEF ReadMessages, CountMessages, store
<1>3. \A j \in Slots : IsAct(j)' <=> IsAct(j)
  BY <1>1 DEF IsAct
<1>4. \A j \in Slots : IsAct(j) => sent'[j] = sent[j]
  BY <1>1 DEF IsAct
<1>5. Told' <=> Told
  BY <1>2, <1>3, <1>4 DEF Told, Moved
<1> QED
  BY <1>1, <1>2, <1>3, <1>4, <1>5

\* The answer of a load is taken off: no other request becomes something else.
LEMMA LoadTakenOff ==
  ASSUME TypeOK, NEW i \in Slots, LoadAnswered(i)
  PROVE  /\ IsLoad(i) /\ sent[i] \in Loads /\ sent[i].phase = "answered"
         /\ \A j \in Slots : IsLoad(j)' => IsLoad(j) /\ sent'[j] = sent[j]
         /\ \A j \in Slots : IsAct(j)' <=> IsAct(j)
         /\ \A j \in Slots : IsAct(j) =>
              /\ sent'[j].op = sent[j].op /\ sent'[j].type = sent[j].type
              /\ sent'[j].msgs = sent[j].msgs /\ sent'[j].ok = sent[j].ok
              /\ sent'[j].phase = sent[j].phase
         /\ Told' <=> Told
<1>1. IsLoad(i) /\ sent[i] \in Loads /\ sent[i].phase = "answered"
  BY RequestKinds DEF LoadAnswered
<1>2. \A j \in Slots : IsLoad(j)' => IsLoad(j) /\ sent'[j] = sent[j]
  BY RequestKinds DEF LoadAnswered, IsLoad, IsAct, Acts, Ops
<1>3. ASSUME NEW j \in Slots, IsAct(j)
      PROVE  /\ sent'[j] # None /\ sent'[j].op = sent[j].op /\ sent'[j].type = sent[j].type
             /\ sent'[j].msgs = sent[j].msgs /\ sent'[j].ok = sent[j].ok
             /\ sent'[j].phase = sent[j].phase
  <2>1. sent[j] \in Acts /\ j # i
    BY <1>1, <1>3, RequestKinds DEF IsAct, IsLoad
  <2>2. sent'[j] = [sent[j] EXCEPT !.live = FALSE]
    BY <1>3, <2>1 DEF LoadAnswered
  <2>3. [sent[j] EXCEPT !.live = FALSE] \in Acts
    BY <2>1 DEF Acts
  <2>4. sent'[j] # None
    BY <2>2, <2>3, NoneAssumption
  <2> QED
    BY <2>1, <2>2, <2>4 DEF Acts
<1>4. \A j \in Slots : IsAct(j)' <=> IsAct(j)
  BY <1>3 DEF LoadAnswered, IsAct
<1>5. Told' <=> Told
  BY <1>3, <1>4 DEF LoadAnswered, Told, Moved
<1> QED
  BY <1>1, <1>2, <1>3, <1>4, <1>5

\* An act that is served is answered, or no longer of interest, and nothing else changes.
LEMMA ActServed ==
  ASSUME TypeOK, NEW i \in Slots, IsAct(i), NEW ok \in BOOLEAN, Served(i, ok)
  PROVE  /\ sent[i] \in Acts
         /\ IsAct(i)' => /\ sent'[i].op = sent[i].op /\ sent'[i].type = sent[i].type
                         /\ sent'[i].msgs = sent[i].msgs /\ sent'[i].ok = ok
                         /\ sent'[i].phase = "answered"
         /\ sent[i].phase # "dropped" => IsAct(i)'
         /\ \A j \in Slots : j # i => sent'[j] = sent[j]
         /\ \A j \in Slots : IsAct(j)' => IsAct(j)
         /\ \A j \in Slots : IsLoad(j)' => IsLoad(j) /\ sent'[j] = sent[j]
<1>1. sent[i] \in Acts
  BY RequestKinds
<1>2. /\ sent'[i] = IF sent[i].phase = "dropped" THEN None
                    ELSE [sent[i] EXCEPT !.phase = "answered", !.ok = ok]
      /\ \A j \in Slots : j # i => sent'[j] = sent[j]
  BY DEF Served, TypeOK
<1>3. CASE sent[i].phase = "dropped"
  BY <1>1, <1>2, <1>3 DEF IsAct, IsLoad
<1>4. CASE sent[i].phase # "dropped"
  <2> DEFINE r == [sent[i] EXCEPT !.phase = "answered", !.ok = ok]
  <2>0. /\ r.op = sent[i].op /\ r.type = sent[i].type /\ r.msgs = sent[i].msgs /\ r.ok = ok
        /\ r.phase = "answered" /\ r \in Acts
    BY <1>1 DEF Acts
  <2>1. /\ sent'[i].op = sent[i].op /\ sent'[i].type = sent[i].type
        /\ sent'[i].msgs = sent[i].msgs /\ sent'[i].ok = ok /\ sent'[i].phase = "answered"
        /\ sent'[i] \in Acts
    BY <2>0, <1>2, <1>4
  <2>2. sent'[i] # None
    BY <2>1, NoneAssumption
  <2> QED
    BY <1>1, <1>2, <2>1, <2>2 DEF IsAct, IsLoad
<1> QED
  BY <1>3, <1>4

\* The inductive step, one case per action.
LEMMA FittingStep ==
  ASSUME Inv, Calm => Fitting, [Next]_vars
  PROVE  Calm' => Fitting'
<1> SUFFICES ASSUME Calm'
             PROVE  Fitting'
  OBVIOUS
<1> USE DEF failures
<1>0. TypeOK /\ ShowsItsTab /\ LoadsForTab
  BY DEF Inv
<1>p. \A t \in Tabs : page'[t] \in Nat
  <2>1. TypeOK' /\ Cardinality(Messages) \in Nat
    BY TypeStep, CountIsNat DEF Inv
  <2> QED
    BY <2>1 DEF TypeOK
<1>t. tab \in Tabs /\ view \in Views /\ view.selected \subseteq view.rows
      /\ raced \in BOOLEAN /\ unseen \in BOOLEAN
  BY <1>0 DEF TypeOK
<1>1. ASSUME NEW t \in Tabs, OpenTab(t)
      PROVE  Fitting'
  BY <1>0, <1>p, <1>t, <1>1, FittingAsked DEF OpenTab, Views, Calm
<1>2. ASSUME NEW p \in 1..Cardinality(Messages), TurnPage(p)
      PROVE  Fitting'
  BY <1>0, <1>p, <1>t, <1>2, FittingAsked DEF TurnPage, Views, Calm
<1>3. ASSUME NEW i \in Slots, Reload(i), Fitting, status' = status
      PROVE  Fitting'
  BY <1>0, <1>p, <1>t, <1>3, FittingAsked DEF Reload, Views
<1>4. ASSUME Fitting, sent' = sent, status' = status, view'.newest = view.newest,
             view'.rows = view.rows, view'.type = view.type, unseen' = unseen
      PROVE  Fitting'
  BY <1>4 DEF Fitting, RowsFit, LoadsFit, OneAct, ActsFit, Told, Moved, Waits, IsAct, IsLoad
<1>5. ASSUME NEW m \in Messages, Toggle(m)
      PROVE  Fitting'
  BY <1>4, <1>5, <1>t DEF Toggle, Calm, Views
<1>6. ASSUME SelectAll
      PROVE  Fitting'
  BY <1>4, <1>6, <1>t DEF SelectAll, Calm, Views
<1>7. ASSUME NEW op, NEW msgs, Post(op, msgs)
      PROVE  Fitting /\ ~raced'
  BY <1>7, <1>t DEF Post, Calm
<1>8. ASSUME NEW m \in Messages, MarkToStarred(m)
      PROVE  Fitting'
  <2>1. PICK op \in {"star", "unstar"} : Post(op, {m})
    BY <1>8 DEF MarkToStarred
  <2>2. op \in Ops /\ {m} \in SUBSET view.rows /\ ~(op \in {"inbox", "delete"})
        /\ view.type # "trash"
    BY <1>8, <2>1 DEF MarkToStarred, Ops
  <2>3. view'.newest = view.newest /\ view'.rows = view.rows /\ view'.type = view.type
    BY <1>8, <1>t DEF MarkToStarred, Views
  <2> QED
    BY <1>7, <2>1, <2>2, <2>3, FittingPost
<1>9. ASSUME NEW op \in {"trash", "inbox"}, Move(op)
      PROVE  Fitting'
  <2>1. op \in Ops /\ Post(op, view.selected) /\ view.selected \in SUBSET view.rows
        /\ (view.type = "trash" <=> op \in {"inbox", "delete"})
    BY <1>9, <1>t DEF Move, Ops
  <2>2. view'.newest = view.newest /\ view'.rows = view.rows /\ view'.type = view.type
    BY <1>9, <1>t DEF Move, Views
  <2> QED
    BY <1>7, <2>1, <2>2, FittingPost
<1>10. ASSUME RemoveMessages
       PROVE  Fitting'
  <2>1. "delete" \in Ops /\ Post("delete", view.selected) /\ view.selected \in SUBSET view.rows
        /\ view.type = "trash" /\ view' = view
    BY <1>10, <1>t DEF RemoveMessages, Ops
  <2> QED
    BY <1>7, <2>1, FittingPost
<1>11. ASSUME NEW i \in Slots, NEW failed \in BOOLEAN,
              ReadMessages(i, failed) \/ CountMessages(i, failed)
       PROVE  Fitting'
  <2> DEFINE t == sent[i].type
  <2>1. Fitting
    BY <1>0, <1>11, LoadServed DEF Calm
  <2>2. RowsFit' /\ OneAct' /\ ActsFit'
    BY <1>0, <1>11, <2>1, LoadServed DEF Fitting, RowsFit, OneAct, ActsFit, Waits
  <2>3. LoadsFit'
    <3> SUFFICES ASSUME Told', NEW j \in Slots, IsLoad(j)', sent'[j].newest,
                        sent'[j].phase \in {"counting", "answered"}, NEW m \in sent'[j].rows
                 PROVE  status'[m] \in Kinds(sent'[j].type)
      BY DEF LoadsFit
    <3>1. CASE j = i /\ ReadMessages(i, failed)
      <4>1. m \in OnPage(t, sent[i].page) /\ sent'[j].type = t /\ t \in Tabs /\ status' = status
        BY <1>0, <1>11, <3>1, LoadServed, ReadTyped DEF Loads
      <4> QED
        BY <4>1 DEF OnPage, InTab, Kinds, Tabs
    <3>2. CASE j = i /\ CountMessages(i, failed)
      <4>1. /\ IsLoad(j) /\ sent[j].phase = "counting" /\ sent'[j].rows = sent[j].rows
            /\ sent[j].newest /\ sent'[j].type = sent[j].type /\ Told /\ status' = status
        <5>1. Told /\ status' = status
          BY <1>0, <1>11, LoadServed
        <5>2. IsLoad(j) /\ sent[j].phase = "counting"
          BY <3>2 DEF CountMessages
        <5>3. sent'[j].rows = sent[j].rows /\ sent[j].newest /\ sent'[j].type = sent[j].type
          BY <1>0, <3>2, CountTyped
        <5> QED
          BY <5>1, <5>2, <5>3
      <4> QED
        BY <2>1, <4>1 DEF Fitting, LoadsFit
    <3>3. CASE j # i
      <4>1. sent'[j] = sent[j] /\ IsLoad(j) /\ Told /\ status' = status
        BY <1>0, <1>11, <3>3, LoadServed DEF IsLoad
      <4> QED
        BY <2>1, <4>1 DEF Fitting, LoadsFit
    <3> QED
      BY <1>11, <3>1, <3>2, <3>3
  <2> QED
    BY <2>2, <2>3 DEF Fitting
<1>12. ASSUME NEW i \in Slots, IsAct(i), NEW ok \in BOOLEAN, Served(i, ok), Fitting
       PROVE  OneAct' /\ ActsFit'
  <2>1. \A j \in Slots : IsAct(j)' => j = i
    BY <1>0, <1>12, ActServed DEF Fitting, OneAct
  <2> QED
    BY <1>0, <1>12, <2>1, ActServed DEF Fitting, OneAct, ActsFit, Waits
<1>13. ASSUME NEW i \in Slots, NEW told \in BOOLEAN, Execute(i, told)
       PROVE  Fitting'
  <2>1. /\ Fitting /\ IsAct(i) /\ Served(i, told) /\ view' = view /\ Waits(i)
        /\ status' = [m \in Messages |-> IF m \in sent[i].msgs THEN StatusAfter(sent[i].op)
                                         ELSE status[m]]
        /\ unseen' = (unseen \/ ~told \/ sent[i].phase = "dropped")
    BY <1>13 DEF Execute, Calm, Waits
  <2>2. sent[i] \in Acts
    BY <1>0, <2>1, RequestKinds
  <2>3. OneAct' /\ ActsFit'
    BY <1>12, <2>1
  <2>u. CASE unseen'
    BY <2>3, <2>u DEF Fitting, RowsFit, LoadsFit, Told
  <2>4. CASE ~unseen' /\ sent[i].op \in {"trash", "inbox", "delete"}
    <3>1. Moved'
      BY <1>0, <2>1, <2>4, ActServed DEF Moved
    <3> QED
      BY <2>3, <3>1 DEF Fitting, RowsFit, LoadsFit, Told
  <2>5. CASE ~unseen' /\ sent[i].op \in {"star", "unstar"}
    <3>1. Told
      BY <2>1, <2>5 DEF Fitting, OneAct, Told, Moved
    <3>2. StatusAfter(sent[i].op) \in {"default", "starred"}
      BY <2>5 DEF StatusAfter
    <3>3. \A m \in sent[i].msgs : status[m] \in {"default", "starred"}
      BY <2>1, <2>5 DEF Fitting, ActsFit, Fits
    <3>4. \A m \in Messages, t \in Tabs : status[m] \in Kinds(t) => status'[m] \in Kinds(t)
      BY <2>1, <3>2, <3>3 DEF Kinds
    <3>5. RowsFit'
      BY <1>t, <2>1, <3>1, <3>4 DEF Fitting, RowsFit, Views
    <3>6. LoadsFit'
      <4> SUFFICES ASSUME NEW j \in Slots, IsLoad(j)', sent'[j].newest,
                          sent'[j].phase \in {"counting", "answered"}, NEW m \in sent'[j].rows
                   PROVE  status'[m] \in Kinds(sent'[j].type)
        BY DEF LoadsFit
      <4>1. IsLoad(j) /\ sent'[j] = sent[j]
        BY <1>0, <2>1, ActServed
      <4>2. sent[j] \in Loads
        BY <1>0, <4>1, RequestKinds
      <4>3. m \in Messages /\ sent[j].type \in Tabs /\ status[m] \in Kinds(sent[j].type)
        BY <2>1, <3>1, <4>1, <4>2 DEF Fitting, LoadsFit, Loads
      <4> QED
        BY <3>4, <4>1, <4>3
    <3> QED
      BY <2>3, <3>5, <3>6 DEF Fitting
  <2> QED
    BY <2>2, <2>u, <2>4, <2>5 DEF Acts, Ops
<1>14. ASSUME NEW i \in Slots, Refuse(i)
       PROVE  Fitting'
  <2>1. /\ Fitting /\ IsAct(i) /\ Served(i, FALSE) /\ view' = view /\ status' = status
        /\ sent[i].phase # "answered" /\ unseen' = unseen
    BY <1>14 DEF Refuse, Calm
  <2>2. Told' => Told
    BY <2>1 DEF Fitting, OneAct, Told, Moved
  <2>3. RowsFit'
    BY <2>1, <2>2 DEF Fitting, RowsFit
  <2>4. LoadsFit'
    BY <1>0, <2>1, <2>2, ActServed DEF Fitting, LoadsFit
  <2> QED
    BY <1>12, <2>1, <2>3, <2>4 DEF Fitting
<1>15. ASSUME NEW i \in Slots, LoadAnswered(i)
       PROVE  Fitting'
  <2>1. Fitting /\ status' = status
    BY <1>15 DEF LoadAnswered, Calm
  <2>2. view'.rows \subseteq sent[i].rows /\ view'.newest = sent[i].newest /\ view'.type = tab
    BY <1>15 DEF LoadAnswered, RowsIn
  <2>3. RowsFit'
    <3>1. sent[i].newest => sent[i].type = tab
      BY <1>0, <1>15, LoadTakenOff DEF LoadsForTab
    <3> QED
      BY <1>0, <1>15, <2>1, <2>2, <3>1, LoadTakenOff DEF Fitting, RowsFit, LoadsFit
  <2>4. LoadsFit'
    <3> SUFFICES ASSUME Told', NEW j \in Slots, IsLoad(j)', sent'[j].newest,
                        sent'[j].phase \in {"counting", "answered"}, NEW m \in sent'[j].rows
                 PROVE  status'[m] \in Kinds(sent'[j].type)
      BY DEF LoadsFit
    <3>1. IsLoad(j) /\ sent'[j] = sent[j] /\ Told
      BY <1>0, <1>15, LoadTakenOff
    <3> QED
      BY <2>1, <3>1 DEF Fitting, LoadsFit
  <2>5. OneAct' /\ ActsFit'
    BY <1>0, <1>15, <2>1, LoadTakenOff DEF Fitting, OneAct, ActsFit, Waits
  <2> QED
    BY <2>3, <2>4, <2>5 DEF Fitting
<1>16. ASSUME NEW i \in Slots, NotDone(i)
       PROVE  Fitting'
  BY <1>0, <1>16, FittingDone DEF NotDone, Answered, Calm
<1>17. ASSUME NEW i \in Slots, StarAnswered(i)
       PROVE  Fitting'
  <2>1. Fitting /\ status' = status /\ IsAct(i)
    BY <1>17 DEF StarAnswered, Calm, Answered
  <2>2. CASE sent[i].type # "starred"
    BY <1>0, <1>17, <2>1, <2>2, FittingDone DEF StarAnswered
  <2>3. CASE sent[i].type = "starred"
    <3>1. GetMessages(i, tab) /\ view'.newest = FALSE
      BY <1>17, <1>t, <2>3 DEF StarAnswered, Views
    <3> QED
      BY <1>0, <1>p, <1>t, <2>1, <3>1, FittingAsked
  <2> QED
    BY <2>2, <2>3
<1>18. ASSUME NEW i \in Slots, TrashAnswered(i)
       PROVE  Fitting'
  <2>1. Fitting /\ status' = status /\ IsAct(i) /\ sent[i].op = "trash"
    BY <1>18 DEF TrashAnswered, Calm, Answered
  <2>2. Reload(i)
    BY <1>18, <2>1 DEF TrashAnswered, Fitting, ActsFit
  <2> QED
    BY <1>3, <2>1, <2>2
<1>19. ASSUME NEW i \in Slots, TrashLeft(i)
       PROVE  Fitting'
  BY <1>3, <1>19 DEF TrashLeft, Calm
<1>20. ASSUME NEW i \in Slots, Fail(i)
       PROVE  Fitting'
  <2>1. /\ Fitting /\ view' = view /\ status' = status /\ sent[i] # None
        /\ unseen' = (unseen \/ (IsAct(i) /\ sent[i].phase = "answered" /\ sent[i].ok))
        /\ \A j \in Slots : j # i => sent'[j] = sent[j]
        /\ sent'[i] = IF IsAct(i) /\ sent[i].phase = "sent"
                      THEN [sent[i] EXCEPT !.phase = "dropped"] ELSE None
    BY <1>0, <1>20 DEF Fail, Calm, TypeOK
  <2>2. CASE IsAct(i) /\ sent[i].phase = "sent"
    <3>1. sent[i] \in Acts /\ sent'[i] \in Acts
      BY <1>0, <2>1, <2>2, RequestKinds DEF Acts
    <3>2. sent'[i].op = sent[i].op /\ sent'[i].type = sent[i].type
          /\ sent'[i].msgs = sent[i].msgs /\ sent'[i].phase = "dropped"
      BY <2>1, <2>2, <3>1 DEF Acts
    <3>3. \A j \in Slots : IsLoad(j)' => IsLoad(j) /\ sent'[j] = sent[j]
      BY <2>1, <2>2, <3>2 DEF IsLoad, IsAct
    <3>4. \A j \in Slots : IsAct(j)' => IsAct(j)
      BY <2>1, <2>2 DEF IsAct
    <3>5. Told' => Told
      BY <2>1, <2>2 DEF Fitting, OneAct, Told, Moved
    <3>6. RowsFit' /\ LoadsFit'
      BY <2>1, <3>3, <3>5 DEF Fitting, RowsFit, LoadsFit
    <3> QED
      BY <2>1, <2>2, <3>2, <3>4, <3>6 DEF Fitting, OneAct, ActsFit, Waits
  <2>3. CASE ~(IsAct(i) /\ sent[i].phase = "sent")
    <3>1. sent'[i] = None
      BY <2>1, <2>3
    <3>2. \A j \in Slots : IsLoad(j)' => IsLoad(j) /\ sent'[j] = sent[j]
      BY <2>1, <3>1 DEF IsLoad
    <3>3. \A j \in Slots : IsAct(j)' => IsAct(j) /\ sent'[j] = sent[j]
      BY <2>1, <3>1 DEF IsAct
    <3>4. ASSUME Told' PROVE Told
      <4>1. SUFFICES ASSUME NEW j \in Slots, IsAct(j), sent[j].phase = "answered", sent[j].ok,
                            sent[j].op \in {"trash", "inbox", "delete"}
                     PROVE  FALSE
        BY <2>1, <3>4 DEF Told, Moved
      <4>2. CASE j = i
        BY <2>1, <3>4, <4>1, <4>2 DEF Told
      <4>3. CASE j # i
        <5>1. IsAct(j)' /\ sent'[j] = sent[j]
          BY <2>1, <4>1, <4>3 DEF IsAct
        <5>2. sent[j] \in Acts
          BY <1>0, <4>1, RequestKinds
        <5> QED
          BY <3>4, <4>1, <5>1, <5>2 DEF Told, Moved
      <4> QED
        BY <4>2, <4>3
    <3>5. RowsFit' /\ LoadsFit'
      BY <2>1, <3>2, <3>4 DEF Fitting, RowsFit, LoadsFit
    <3> QED
      BY <2>1, <3>3, <3>5 DEF Fitting, OneAct, ActsFit, Waits
  <2> QED
    BY <2>2, <2>3
<1>21. ASSUME UNCHANGED vars
       PROVE  Fitting'
  BY <1>4, <1>21 DEF vars, store, Calm
<1> QED
  <2>1. Next => Fitting'
    BY <1>1, <1>2, <1>5, <1>6, <1>8, <1>9, <1>10, <1>11, <1>13, <1>14, <1>15, <1>16,
       <1>17, <1>18, <1>19, <1>20 DEF Next, UserActs, Serve, Answer
  <2> QED
    BY <1>21, <2>1

\* As long as nothing overtook the page, everything on its way fits.
LEMMA FittingInvariance == Spec => [](Calm => Fitting)
<1>1. Init => (Calm => Fitting)
  BY DEF Init, Fitting, RowsFit, LoadsFit, OneAct, ActsFit, IsAct, IsLoad
<1>2. Inv /\ (Calm => Fitting) /\ [Next]_vars => (Calm => Fitting)'
  BY FittingStep
<1> QED
  BY <1>1, <1>2, InvHolds, PTL DEF Spec

\* So does what the hub executes.
LEMMA ExecutesFitting ==
  ASSUME Calm => Fitting, NEW i \in Slots, NEW told \in BOOLEAN, Execute(i, told)
  PROVE  raced \/ \A m \in sent[i].msgs : status[m] \in Fits(sent[i].op)
  BY DEF Execute, Calm, Fitting, ActsFit, Waits

\* A user who acts on the latest rows, one operation at a time and none unknown, deletes
\* for good nothing but what is in the trash, and brings back nothing else, whatever is
\* lost or masked.
THEOREM OperationsFit == Spec => ActsFitStatus
<1>1. (Calm => Fitting) =>
        \/ raced
        \/ \A i \in Slots : (\E told \in BOOLEAN : Execute(i, told))
                           => \A m \in sent[i].msgs : status[m] \in Fits(sent[i].op)
  BY ExecutesFitting
<1> QED
  BY <1>1, FittingInvariance, PTL DEF ActsFitStatus

------------------------------------------------------------------------------
(* The inbox and the trash show what the hub holds, as long as the user acts *)
(* on the latest rows and the reading of the list did not fail unnoticed,    *)
(* but between the step of the server that moves messages and its answer,    *)
(* which asks for the list again, and after a step of which the page was     *)
(* told nothing.  (The starred list is not asked for again when a star of    *)
(* another list is answered.)                                                *)

Lasting == {"inbox", "trash"}

\* What the tab should show.
HubPage == OnPage(tab, page[tab])

RowsCurrent ==
  Told /\ view.newest /\ ~view.masked /\ tab \in Lasting => view.rows = HubPage

\* A load that was not masked has the rows, and counts none only if there are none.
LoadsCurrent == \A i \in Slots : IsLoad(i) /\ sent[i].newest /\ tab \in Lasting =>
  /\ sent[i].page = page[tab]
  /\ Told /\ ~sent[i].masked /\ sent[i].phase \in {"counting", "answered"} =>
       /\ sent[i].rows = HubPage
       /\ sent[i].phase = "answered" => RowsIn(sent[i]) = sent[i].rows

Current == RowsCurrent /\ LoadsCurrent

\* The rows of a question just asked are yet to come, for the page the store names.
LEMMA CurrentAsked ==
  ASSUME TypeOK, NEW i \in Slots, NEW t \in Tabs, GetMessages(i, t), page'[t] \in Nat,
         tab' = t, view'.newest = FALSE
  PROVE  Current'
<1>1. /\ IsLoad(i)' /\ sent'[i].phase = "sent"
      /\ \A j \in Slots \ {i} : IsLoad(j)' => ~sent'[j].newest
  BY GetMessagesNewest
<1>2. sent'[i].page = page'[t]
  BY DEF GetMessages, LoadOf
<1> QED
  BY <1>1, <1>2 DEF Current, RowsCurrent, LoadsCurrent

\* A step that leaves the list, its page and the loads alone leaves them current.
LEMMA CurrentKept ==
  ASSUME Current, Told' => Told, tab' = tab,
         tab \in Lasting => page'[tab] = page[tab] /\ (Told' => HubPage' = HubPage),
         view'.rows = view.rows, view'.newest = view.newest, view'.masked = view.masked,
         \A j \in Slots : IsLoad(j)' => IsLoad(j) /\ sent'[j] = sent[j]
  PROVE  Current'
  BY DEF Current, RowsCurrent, LoadsCurrent, RowsIn

\* The hub's page changes with the messages only, or with the page asked for.
LEMMA HubPageKept ==
  ASSUME tab' = tab, page'[tab] = page[tab],
         \A m \in Messages : \/ status'[m] = status[m]
                             \/ {status[m], status'[m]} \subseteq {"default", "starred"},
         tab \in Lasting
  PROVE  HubPage' = HubPage
<1>1. InTab(tab)' = InTab(tab)
  BY DEF InTab, Lasting
<1> QED
  BY <1>1 DEF HubPage, OnPage

\* The inductive step, one case per action.
LEMMA CurrentStep ==
  ASSUME Inv, Calm => Fitting /\ Current, [Next]_vars
  PROVE  Calm' => Current'
<1> SUFFICES ASSUME Calm'
             PROVE  Current'
  OBVIOUS
<1> USE DEF failures
<1>0. TypeOK /\ ShowsItsTab /\ LoadsForTab
  BY DEF Inv
<1>p. \A t \in Tabs : page'[t] \in Nat
  <2>1. TypeOK' /\ Cardinality(Messages) \in Nat
    BY TypeStep, CountIsNat DEF Inv
  <2> QED
    BY <2>1 DEF TypeOK
<1>t. tab \in Tabs /\ view \in Views /\ raced \in BOOLEAN /\ unseen \in BOOLEAN
      /\ page \in [Tabs -> 1..(Cardinality(Messages) + 1)] /\ view.newest \in BOOLEAN
  BY <1>0 DEF TypeOK, Views
<1>1. ASSUME NEW t \in Tabs, OpenTab(t)
      PROVE  Current'
  BY <1>0, <1>p, <1>t, <1>1, CurrentAsked DEF OpenTab, Views
<1>2. ASSUME NEW p \in 1..Cardinality(Messages), TurnPage(p)
      PROVE  Current'
  BY <1>0, <1>p, <1>t, <1>2, CurrentAsked DEF TurnPage, Views
<1>3. ASSUME NEW i \in Slots, Reload(i), tab' = tab
      PROVE  Current'
  BY <1>0, <1>p, <1>t, <1>3, CurrentAsked DEF Reload, Views
<1>4. ASSUME Current, sent' = sent, status' = status, tab' = tab, page' = page,
             view'.newest = view.newest, view'.rows = view.rows, view'.masked = view.masked,
             unseen' = unseen
      PROVE  Current'
  <2>1. tab \in Lasting => HubPage' = HubPage
    BY <1>4, HubPageKept
  <2>2. (Told' => Told) /\ \A j \in Slots : IsLoad(j)' => IsLoad(j) /\ sent'[j] = sent[j]
    BY <1>4 DEF Told, Moved, IsAct, IsLoad
  <2> QED
    BY <1>4, <2>1, <2>2, CurrentKept
<1>5. ASSUME NEW m \in Messages, Toggle(m)
      PROVE  Current'
  BY <1>4, <1>5, <1>t DEF Toggle, Calm, Views
<1>6. ASSUME SelectAll
      PROVE  Current'
  BY <1>4, <1>6, <1>t DEF SelectAll, Calm, Views
<1>7. ASSUME NEW op \in Ops, NEW msgs, Post(op, msgs), view'.newest = view.newest,
             view'.rows = view.rows, view'.masked = view.masked
      PROVE  Current'
  <2>1. Current /\ status' = status /\ tab' = tab /\ page' = page
    BY <1>7, <1>t DEF Post, Calm
  <2>2. ~unseen /\ \A j \in Slots : ~IsAct(j)
    BY <1>7, <1>t DEF Post, Calm
  <2>3. tab \in Lasting => HubPage' = HubPage
    BY <2>1, HubPageKept
  <2>4. \A j \in Slots : IsLoad(j)' => IsLoad(j) /\ sent'[j] = sent[j]
    BY <1>0, <1>7 DEF Post, IsLoad, Ops, TypeOK
  <2>5. Told
    BY <2>2 DEF Told, Moved
  <2> QED
    BY <1>7, <2>1, <2>3, <2>4, <2>5, CurrentKept
<1>8. ASSUME NEW m \in Messages, MarkToStarred(m)
      PROVE  Current'
  <2>1. PICK op \in Ops : Post(op, {m})
    BY <1>8 DEF MarkToStarred, Ops
  <2>2. view'.newest = view.newest /\ view'.rows = view.rows /\ view'.masked = view.masked
    BY <1>8, <1>t DEF MarkToStarred, Views
  <2> QED
    BY <1>7, <2>1, <2>2
<1>9. ASSUME NEW op \in {"trash", "inbox"}, Move(op)
      PROVE  Current'
  <2>1. op \in Ops /\ Post(op, view.selected)
    BY <1>9 DEF Move, Ops
  <2>2. view'.newest = view.newest /\ view'.rows = view.rows /\ view'.masked = view.masked
    BY <1>9, <1>t DEF Move, Views
  <2> QED
    BY <1>7, <2>1, <2>2
<1>10. ASSUME RemoveMessages
       PROVE  Current'
  BY <1>7, <1>10 DEF RemoveMessages, Ops
<1>11. ASSUME NEW i \in Slots, NEW failed \in BOOLEAN,
              ReadMessages(i, failed) \/ CountMessages(i, failed)
       PROVE  Current'
  <2>1. /\ Current /\ tab' = tab /\ page' = page /\ view' = view /\ (Told' <=> Told)
        /\ IsLoad(i) /\ sent'[i].type = sent[i].type /\ sent'[i].page = sent[i].page
        /\ sent'[i].newest = sent[i].newest
        /\ \A j \in Slots : j # i => sent'[j] = sent[j]
    BY <1>0, <1>11, LoadServed DEF Calm
  <2>2. tab \in Lasting => HubPage' = HubPage
    BY <1>0, <1>11, <2>1, LoadServed, HubPageKept
  <2>3. RowsCurrent'
    BY <2>1, <2>2 DEF Current, RowsCurrent
  <2>4. LoadsCurrent'
    <3> SUFFICES ASSUME NEW j \in Slots, IsLoad(j)', sent'[j].newest, tab' \in Lasting
                 PROVE  /\ sent'[j].page = page'[tab']
                        /\ Told' /\ ~sent'[j].masked /\ sent'[j].phase \in {"counting", "answered"} =>
                             /\ sent'[j].rows = HubPage'
                             /\ sent'[j].phase = "answered" => RowsIn(sent'[j]) = sent'[j].rows
      BY DEF LoadsCurrent
    <3>1. CASE j # i
      <4>1. sent'[j] = sent[j] /\ IsLoad(j)
        BY <2>1, <3>1 DEF IsLoad
      <4> QED
        BY <2>1, <2>2, <4>1 DEF Current, LoadsCurrent
    <3>2. ASSUME j = i
          PROVE  sent[i].newest /\ sent[i].type = tab /\ sent[i].page = page[tab]
      BY <1>0, <2>1, <3>2 DEF LoadsForTab, Current, LoadsCurrent
    <3>3. CASE j = i /\ ReadMessages(i, failed)
      <4>1. /\ sent'[i].phase = "counting" /\ sent'[i].masked = failed
            /\ sent'[i].rows = IF failed THEN {} ELSE OnPage(sent[i].type, sent[i].page)
        BY <1>0, <3>3, ReadTyped
      <4> QED
        BY <2>1, <2>2, <3>2, <3>3, <4>1 DEF HubPage
    <3>4. CASE j = i /\ CountMessages(i, failed)
      <4>1. /\ sent'[i].rows = sent[i].rows /\ sent'[i].masked = (sent[i].masked \/ failed)
            /\ sent'[i].total = IF failed \/ sent[i].masked THEN 0
                                ELSE Cardinality(InTab(sent[i].type))
        BY <1>0, <3>4, CountTyped
      <4>2. sent[i].phase = "counting"
        BY <3>4 DEF CountMessages
      <4>3. ASSUME Told', ~sent'[i].masked
            PROVE  sent[i].rows = HubPage /\ sent'[i].total = Cardinality(InTab(tab))
        BY <2>1, <3>2, <3>4, <4>1, <4>2, <4>3 DEF Current, LoadsCurrent
      <4>4. Cardinality(InTab(tab)) = 0 => HubPage = {}
        <5>1. IsFiniteSet(InTab(tab))
          BY InboxAssumption, FS_Subset DEF InTab
        <5> QED
          BY <5>1, FS_EmptySet DEF HubPage, OnPage
      <4> QED
        BY <2>1, <2>2, <3>2, <3>4, <4>1, <4>3, <4>4 DEF RowsIn
    <3> QED
      BY <1>11, <3>1, <3>3, <3>4
  <2> QED
    BY <2>3, <2>4 DEF Current
<1>12. ASSUME NEW i \in Slots, NEW told \in BOOLEAN, Execute(i, told)
       PROVE  Current'
  <2>1. /\ Fitting /\ Current /\ IsAct(i) /\ Served(i, told) /\ view' = view /\ tab' = tab
        /\ page' = page /\ Waits(i)
        /\ status' = [m \in Messages |-> IF m \in sent[i].msgs THEN StatusAfter(sent[i].op)
                                         ELSE status[m]]
        /\ unseen' = (unseen \/ ~told \/ sent[i].phase = "dropped")
    BY <1>12 DEF Execute, Calm, Waits, store
  <2>2. sent[i] \in Acts
    BY <1>0, <2>1, RequestKinds
  <2>3. \A j \in Slots : IsLoad(j)' => IsLoad(j) /\ sent'[j] = sent[j]
    BY <1>0, <2>1, ActServed
  <2>4. Told' => Told
    BY <2>1 DEF Fitting, OneAct, Told, Moved, Waits
  <2>5. ASSUME Told', tab \in Lasting PROVE HubPage' = HubPage
    <3>1. sent[i].op \in {"star", "unstar"}
      <4>1. SUFFICES ASSUME sent[i].op \in {"trash", "inbox", "delete"} PROVE FALSE
        BY <2>2 DEF Acts, Ops
      <4>2. sent[i].phase # "dropped" /\ told
        BY <2>1, <2>5 DEF Told
      <4> QED
        BY <1>0, <2>1, <2>5, <4>1, <4>2, ActServed DEF Told, Moved
    <3>2. StatusAfter(sent[i].op) \in {"default", "starred"}
      BY <3>1 DEF StatusAfter
    <3>3. \A m \in sent[i].msgs : status[m] \in {"default", "starred"}
      BY <2>1, <3>1 DEF Fitting, ActsFit, Fits
    <3> QED
      BY <2>1, <2>5, <3>2, <3>3, HubPageKept
  <2> QED
    BY <2>1, <2>3, <2>4, <2>5, CurrentKept
<1>13. ASSUME NEW i \in Slots, Refuse(i)
       PROVE  Current'
  <2>1. /\ Fitting /\ Current /\ IsAct(i) /\ Served(i, FALSE) /\ view' = view /\ tab' = tab
        /\ page' = page /\ status' = status /\ sent[i].phase # "answered" /\ unseen' = unseen
    BY <1>13 DEF Refuse, Calm, store
  <2>2. Told' => Told
    BY <2>1 DEF Fitting, OneAct, Told, Moved
  <2>3. tab \in Lasting => HubPage' = HubPage
    BY <2>1, HubPageKept
  <2>4. \A j \in Slots : IsLoad(j)' => IsLoad(j) /\ sent'[j] = sent[j]
    BY <1>0, <2>1, ActServed
  <2> QED
    BY <2>1, <2>2, <2>3, <2>4, CurrentKept
<1>14. ASSUME NEW i \in Slots, LoadAnswered(i)
       PROVE  Current'
  <2>1. /\ Current /\ tab' = tab /\ page' = page /\ status' = status
        /\ view'.rows = RowsIn(sent[i]) /\ view'.newest = sent[i].newest
        /\ view'.masked = sent[i].masked
    BY <1>14 DEF LoadAnswered, Calm, store
  <2>2. tab \in Lasting => HubPage' = HubPage
    BY <2>1, HubPageKept
  <2>3. RowsCurrent'
    BY <1>0, <1>14, <2>1, <2>2, LoadTakenOff DEF Current, RowsCurrent, LoadsCurrent
  <2>4. LoadsCurrent'
    BY <1>0, <1>14, <2>1, <2>2, LoadTakenOff DEF Current, LoadsCurrent
  <2> QED
    BY <2>3, <2>4 DEF Current
<1>15. ASSUME NEW i \in Slots, IsAct(i), Done(i), Calm, view' = view, status' = status,
              tab' = tab, tab \in Lasting => page'[tab] = page[tab],
              ~(sent[i].ok /\ sent[i].op \in {"trash", "inbox", "delete"}), unseen' = unseen
       PROVE  Current'
  <2>1. Told' => Told
    BY <1>15 DEF Fitting, OneAct, Told, Moved
  <2>2. tab \in Lasting => HubPage' = HubPage
    BY <1>15, HubPageKept
  <2>3. \A j \in Slots : IsLoad(j)' => IsLoad(j) /\ sent'[j] = sent[j]
    BY <1>0, <1>15 DEF Done, IsLoad, TypeOK
  <2> QED
    BY <1>15, <2>1, <2>2, <2>3, CurrentKept
<1>16. ASSUME NEW i \in Slots, NotDone(i)
       PROVE  Current'
  BY <1>15, <1>16 DEF NotDone, Answered, Calm, store
<1>17. ASSUME NEW i \in Slots, StarAnswered(i)
       PROVE  Current'
  <2>1. Calm /\ status' = status /\ IsAct(i) /\ tab' = tab
        /\ sent[i].op \in {"star", "unstar"}
    BY <1>17 DEF StarAnswered, Calm, Answered
  <2>2. CASE sent[i].type # "starred"
    <3>1. Done(i) /\ view' = view /\ unseen' = unseen /\ page' = [page EXCEPT !["starred"] = 1]
      BY <1>17, <2>2 DEF StarAnswered
    <3>2. tab \in Lasting => page'[tab] = page[tab]
      BY <1>t, <3>1 DEF Lasting, Tabs
    <3> QED
      BY <1>15, <2>1, <3>1, <3>2
  <2>3. CASE sent[i].type = "starred"
    <3>1. GetMessages(i, tab) /\ view'.newest = FALSE
      BY <1>17, <1>t, <2>3 DEF StarAnswered, Views
    <3> QED
      BY <1>0, <1>p, <1>t, <2>1, <3>1, CurrentAsked
  <2> QED
    BY <2>2, <2>3
<1>18. ASSUME NEW i \in Slots, TrashAnswered(i)
       PROVE  Current'
  <2>1. Fitting /\ tab' = tab /\ IsAct(i) /\ sent[i].op = "trash"
    BY <1>18 DEF TrashAnswered, Calm, Answered
  <2>2. Reload(i)
    BY <1>18, <2>1 DEF TrashAnswered, Fitting, ActsFit
  <2> QED
    BY <1>3, <2>1, <2>2
<1>19. ASSUME NEW i \in Slots, TrashLeft(i)
       PROVE  Current'
  BY <1>3, <1>19 DEF TrashLeft
<1>20. ASSUME NEW i \in Slots, Fail(i)
       PROVE  Current'
  <2>1. /\ Current /\ view' = view /\ tab' = tab /\ page' = page /\ status' = status
        /\ unseen' = (unseen \/ (IsAct(i) /\ sent[i].phase = "answered" /\ sent[i].ok))
        /\ \A j \in Slots : j # i => sent'[j] = sent[j]
        /\ sent'[i] = IF IsAct(i) /\ sent[i].phase = "sent"
                      THEN [sent[i] EXCEPT !.phase = "dropped"] ELSE None
    BY <1>0, <1>20 DEF Fail, Calm, TypeOK, store
  <2>2. \A j \in Slots : IsLoad(j)' => IsLoad(j) /\ sent'[j] = sent[j]
    BY <1>0, <2>1, RequestKinds DEF IsLoad, IsAct, Acts, Ops
  <2>3. ASSUME Told' PROVE Told
    <3>1. SUFFICES ASSUME NEW j \in Slots, IsAct(j), sent[j].phase = "answered", sent[j].ok,
                          sent[j].op \in {"trash", "inbox", "delete"}
                   PROVE  FALSE
      BY <2>1, <2>3 DEF Told, Moved
    <3>2. j # i
      BY <2>1, <2>3, <3>1 DEF Told
    <3>3. IsAct(j)' /\ sent'[j] = sent[j]
      BY <2>1, <3>1, <3>2 DEF IsAct
    <3> QED
      BY <2>3, <3>1, <3>3 DEF Told, Moved
  <2>4. tab \in Lasting => HubPage' = HubPage
    BY <2>1, HubPageKept
  <2> QED
    BY <2>1, <2>2, <2>3, <2>4, CurrentKept
<1>21. ASSUME UNCHANGED vars
       PROVE  Current'
  BY <1>4, <1>21 DEF vars, store, Calm
<1> QED
  <2>1. Next => Current'
    BY <1>1, <1>2, <1>5, <1>6, <1>8, <1>9, <1>10, <1>11, <1>12, <1>13, <1>14, <1>16,
       <1>17, <1>18, <1>19, <1>20 DEF Next, UserActs, Serve, Answer
  <2> QED
    BY <1>21, <2>1

\* As long as nothing overtook the page, what is shown is current.
LEMMA CurrentInvariance == Spec => [](Calm => Current)
<1>1. Init => Current
  <2> SUFFICES ASSUME Init
               PROVE  Current
    OBVIOUS
  <2>1. \A i \in Slots : IsLoad(i) => sent[i].page = 1 /\ sent[i].phase = "sent"
    <3>1. PICK first \in Slots :
            sent = [i \in Slots |-> IF i = first
                      THEN [op |-> "load", type |-> tab, page |-> 1, rows |-> {}, stars |-> {},
                            total |-> 0, newest |-> TRUE, masked |-> FALSE, phase |-> "sent"]
                      ELSE None]
      BY DEF Init
    <3>2. sent[first].page = 1 /\ sent[first].phase = "sent"
      BY <3>1
    <3>3. \A i \in Slots : i # first => sent[i] = None
      BY <3>1
    <3> QED
      BY <3>2, <3>3 DEF IsLoad
  <2>2. page[tab] = 1 /\ ~view.newest
    BY DEF Init
  <2> QED
    BY <2>1, <2>2 DEF Current, RowsCurrent, LoadsCurrent
<1>2. Inv /\ (Calm => Fitting) /\ (Calm => Current) /\ [Next]_vars => (Calm => Current)'
  BY CurrentStep
<1> QED
  BY <1>1, <1>2, InvHolds, FittingInvariance, PTL DEF Spec

\* However loads and operations are interleaved, and whichever are lost, the inbox and the
\* trash end up showing their page of what the hub holds, if the reading of the list did
\* not fail on the server and the page was told of what was done.
THEOREM PageShowsTheHub == Spec => []ShowsTheHub
<1>1. (Calm => Current) => ShowsTheHub
  BY DEF Calm, Current, RowsCurrent, ShowsTheHub, Lasting, HubPage, Told, Moved, IsAct
<1> QED
  BY <1>1, CurrentInvariance, PTL

\* A nonempty set of numbers has a least one.
LEMMA LeastNumber ==
  ASSUME NEW S \in SUBSET Nat, S # {}
  PROVE  \E x \in S : \A y \in S : x <= y
<1> DEFINE Less == {p \in Nat \X Nat : p[1] < p[2]}
<1>1. IsWellFoundedOn(Less, Nat)
  BY NatLessThanWellFounded DEF OpToRel
<1> HIDE DEF Less
<1>2. PICK x \in S : \A y \in S : <<y, x>> \notin Less
  BY <1>1, WFMin
<1>3. ASSUME NEW y \in S PROVE x <= y
  <2>1. x \in Nat /\ y \in Nat /\ (y < x => <<y, x>> \in Less)
    BY DEF Less
  <2> QED
    BY <2>1, <1>2
<1> QED
  BY <1>3

\* The first page is empty only if there is nothing to show.
LEMMA FirstPage ==
  ASSUME NEW t \in Tabs, OnPage(t, 1) = {}
  PROVE  InTab(t) = {}
<1> SUFFICES ASSUME InTab(t) # {} PROVE FALSE
  OBVIOUS
<1>1. InTab(t) \subseteq Nat
  BY InboxAssumption DEF InTab
<1>2. PICK m \in InTab(t) : \A k \in InTab(t) : m <= k
  BY <1>1, LeastNumber
<1>3. {k \in InTab(t) : k < m} = {}
  BY <1>1, <1>2
<1>4. Cardinality({k \in InTab(t) : k < m}) = 0
  BY <1>3, FS_EmptySet
<1>5. 0 \div PageSize = 1 - 1
  BY InboxAssumption
<1> QED
  BY <1>2, <1>4, <1>5 DEF OnPage

\* On its first page the inbox says that there are no messages only when there are none:
\* what EmptyInboxIsEmpty promises fails only on pages the inbox no longer has.
THEOREM FirstPageTellsEmptiness == Spec => [](page["inbox"] = 1 => EmptyInboxIsEmpty)
<1>1. ShowsTheHub /\ page["inbox"] = 1 => EmptyInboxIsEmpty
  BY FirstPage DEF ShowsTheHub, EmptyInboxIsEmpty, Tabs
<1> QED
  BY <1>1, PageShowsTheHub, PTL

------------------------------------------------------------------------------
(* The hub as Mailbox describes it.                                          *)

\* What Fits allows is what the mailbox allows, and both put messages in the same place.
LEMMA OperationsAgree ==
  ASSUME NEW op \in Ops
  PROVE  op \in DOMAIN Box!From /\ Box!From[op] = Fits(op) /\ Box!To[op] = StatusAfter(op)
<1>1. op \in {"star", "unstar", "trash", "inbox", "delete"}
  BY DEF Ops
<1>2. DOMAIN Box!From = {"star", "unstar", "trash", "inbox", "delete"}
  BY DEF Box!From
<1>3. Box!From[op] = Fits(op)
  BY <1>1 DEF Box!From, Box!Kept, Fits
<1>4. Box!To[op] = StatusAfter(op)
  BY <1>1 DEF Box!To, StatusAfter
<1> QED
  BY <1>1, <1>2, <1>3, <1>4

\* A step that leaves what the hub was asked for alone.
KeepsAsked ==
  \A j \in Slots :
    /\ Waits(j)' <=> Waits(j)
    /\ Waits(j) => sent'[j].op = sent[j].op /\ sent'[j].msgs = sent[j].msgs

LEMMA AskedKept ==
  ASSUME KeepsAsked
  PROVE  Waiting' = Waiting
<1>1. \A j \in Slots :
        (IF Waits(j)' THEN [op |-> sent'[j].op, msgs |-> sent'[j].msgs] ELSE None)
          = (IF Waits(j) THEN [op |-> sent[j].op, msgs |-> sent[j].msgs] ELSE None)
  <2> SUFFICES ASSUME NEW j \in Slots
               PROVE  (IF Waits(j)' THEN [op |-> sent'[j].op, msgs |-> sent'[j].msgs] ELSE None)
                        = (IF Waits(j) THEN [op |-> sent[j].op, msgs |-> sent[j].msgs] ELSE None)
    OBVIOUS
  <2>1. CASE Waits(j)
    BY <2>1 DEF KeepsAsked
  <2>2. CASE ~Waits(j)
    BY <2>2 DEF KeepsAsked
  <2> QED
    BY <2>1, <2>2
<1> QED
  BY <1>1 DEF Waiting

\* A question for messages asks nothing of the kind.
LEMMA LoadAsksNothing ==
  ASSUME TypeOK, NEW i \in Slots, NEW t \in Tabs, GetMessages(i, t), page'[t] \in Nat, ~Waits(i)
  PROVE  Waiting' = Waiting
<1>1. sent'[i].op = "load"
  BY GetMessagesNewest
<1>2. ASSUME NEW j \in Slots, j # i
      PROVE  IF IsLoad(j) THEN sent'[j].op = "load" ELSE sent'[j] = sent[j]
  BY <1>2, RequestKinds DEF GetMessages, Loads
<1>3. KeepsAsked
  BY <1>1, <1>2 DEF KeepsAsked, Waits, IsAct, IsLoad
<1> QED
  BY <1>3, AskedKept

\* Neither does an answer that is taken off the page.
LEMMA DoneAsksNothing ==
  ASSUME TypeOK, NEW i \in Slots, Done(i), ~Waits(i)
  PROVE  Waiting' = Waiting
<1>1. sent'[i] = None /\ \A j \in Slots : j # i => sent'[j] = sent[j]
  BY DEF Done, TypeOK
<1>2. KeepsAsked
  BY <1>1 DEF KeepsAsked, Waits, IsAct
<1> QED
  BY <1>2, AskedKept

\* A request sent is an operation asked for.
LEMMA PostAsks ==
  ASSUME TypeOK, raced' \in BOOLEAN, ~raced' => Fitting', NEW op \in Ops,
         NEW msgs \in SUBSET Messages, Post(op, msgs)
  PROVE  Box!Next
<1> DEFINE r == [op |-> op, type |-> tab, msgs |-> msgs, ok |-> FALSE, live |-> TRUE,
                 phase |-> "sent"]
<1>1. PICK i \in Slots : sent[i] = None /\ sent' = [sent EXCEPT ![i] = r]
  BY DEF Post
<1>2. sent'[i] = r /\ \A j \in Slots : j # i => sent'[j] = sent[j]
  BY <1>1 DEF TypeOK
<1>3. r # None /\ r.op # "load"
  <2>1. r \in Acts
    BY DEF Acts, TypeOK
  <2> QED
    BY <2>1, NoneAssumption DEF Ops
<1>4. Waits(i)' /\ ~Waits(i) /\ \A j \in Slots : j # i => (Waits(j)' <=> Waits(j))
  BY <1>1, <1>2, <1>3 DEF Waits, IsAct
<1>5. Waiting[i] = None /\ Waiting'[i] = [op |-> op, msgs |-> msgs]
  BY <1>2, <1>4 DEF Waiting
<1>6. \A j \in Slots \ {i} : Waiting'[j] = Waiting[j]
  BY <1>2, <1>4 DEF Waiting
<1>7. [op |-> op, msgs |-> msgs] \in Box!Operations
  BY OperationsAgree DEF Box!Operations
<1>8. raced' \in {raced, TRUE} /\ status' = status
  <2>1. (raced => raced') /\ status' = status /\ raced \in BOOLEAN
    BY DEF Post, TypeOK
  <2> QED
    BY <2>1
<1>9. ASSUME ~raced'
      PROVE  /\ \A j \in Slots : Waiting[j] = None
             /\ \A m \in msgs : status[m] \in Box!From[op]
  <2>1. \A j \in Slots : ~IsAct(j)
    BY <1>9 DEF Post
  <2>2. \A m \in msgs : status[m] \in Fits(op)
    BY <1>2, <1>4, <1>8, <1>9 DEF Fitting, ActsFit, Waits
  <2> QED
    BY <2>1, <2>2, OperationsAgree DEF Waiting, Waits
<1>10. raced' \/ /\ \A j \in Slots : Waiting[j] = None
                 /\ \A m \in Waiting'[i].msgs : status[m] \in Box!From[Waiting'[i].op]
  BY <1>5, <1>9
<1>11. Box!Ask(i)
  BY <1>5, <1>6, <1>7, <1>8, <1>10 DEF Box!Ask
<1> QED
  BY <1>11 DEF Box!Next

\* A request served is no longer waiting.
LEMMA ServedIsAnswered ==
  ASSUME TypeOK, NEW i \in Slots, Waits(i), NEW ok \in BOOLEAN, Served(i, ok)
  PROVE  Waiting[i] # None /\ Waiting' = [Waiting EXCEPT ![i] = None]
<1>1. ~Waits(i)' /\ \A j \in Slots : j # i => sent'[j] = sent[j] /\ (Waits(j)' <=> Waits(j))
  BY ActServed DEF Waits, IsAct
<1>2. Waiting'[i] = None /\ \A j \in Slots : j # i => Waiting'[j] = Waiting[j]
  BY <1>1 DEF Waiting
<1>3. sent[i] \in Acts
  BY RequestKinds DEF Waits
<1>4. [op |-> sent[i].op, msgs |-> sent[i].msgs] \in Tasks
  BY <1>3 DEF Acts, Tasks
<1>5. Waiting[i] # None
  BY <1>4, NoneAssumption DEF Waiting
<1> QED
  BY <1>2, <1>5 DEF Waiting

\* Every step is one of the mailbox.
LEMMA MailboxStep ==
  ASSUME TypeOK, TypeOK', Calm' => Fitting', [Next]_vars
  PROVE  [Box!Next]_(Box!vars)
<1> USE DEF failures
<1>p. tab \in Tabs /\ \A t \in Tabs : page'[t] \in Nat
  BY CountIsNat DEF TypeOK
<1>r. raced \in BOOLEAN /\ raced' \in BOOLEAN /\ (~raced' => Fitting')
  BY DEF TypeOK, Calm
<1>1. ASSUME Waiting' = Waiting, status' = status, raced' \in {raced, TRUE}
      PROVE  [Box!Next]_(Box!vars)
  BY <1>1 DEF Box!vars, Box!Next, Box!Overtake
<1>2. ASSUME NEW t \in Tabs, OpenTab(t)
      PROVE  [Box!Next]_(Box!vars)
  BY <1>p, <1>1, <1>2, LoadAsksNothing DEF OpenTab, Waits, IsAct
<1>3. ASSUME NEW p \in 1..Cardinality(Messages), TurnPage(p)
      PROVE  [Box!Next]_(Box!vars)
  <2>1. PICK i \in Slots : sent[i] = None /\ GetMessages(i, tab)
    BY <1>3 DEF TurnPage
  <2>2. status' = status /\ (raced => raced')
    BY <1>3 DEF TurnPage
  <2>3. Waiting' = Waiting
    BY <1>p, <2>1, LoadAsksNothing DEF Waits, IsAct
  <2> QED
    BY <1>r, <1>1, <2>2, <2>3
<1>4. ASSUME sent' = sent
      PROVE  Waiting' = Waiting
  BY <1>4 DEF Waiting, Waits, IsAct
<1>5. ASSUME NEW m \in Messages, Toggle(m)
      PROVE  [Box!Next]_(Box!vars)
  BY <1>1, <1>4, <1>5 DEF Toggle
<1>6. ASSUME SelectAll
      PROVE  [Box!Next]_(Box!vars)
  BY <1>1, <1>4, <1>6 DEF SelectAll
<1>7. ASSUME NEW m \in Messages, MarkToStarred(m)
      PROVE  [Box!Next]_(Box!vars)
  <2>1. PICK op \in Ops : Post(op, {m}) /\ {m} \in SUBSET Messages
    BY <1>7 DEF MarkToStarred, Ops
  <2> QED
    BY <1>r, <2>1, PostAsks
<1>8. ASSUME NEW op \in {"trash", "inbox"}, Move(op)
      PROVE  [Box!Next]_(Box!vars)
  <2>1. op \in Ops /\ Post(op, view.selected) /\ view.selected \in SUBSET Messages
    BY <1>8 DEF Move, Ops, TypeOK, Views
  <2> QED
    BY <1>r, <2>1, PostAsks
<1>9. ASSUME RemoveMessages
      PROVE  [Box!Next]_(Box!vars)
  <2>1. "delete" \in Ops /\ Post("delete", view.selected) /\ view.selected \in SUBSET Messages
    BY <1>9 DEF RemoveMessages, Ops, TypeOK, Views
  <2> QED
    BY <1>r, <2>1, PostAsks
<1>10. ASSUME NEW i \in Slots, NEW failed \in BOOLEAN,
              ReadMessages(i, failed) \/ CountMessages(i, failed)
       PROVE  [Box!Next]_(Box!vars)
  <2>1. KeepsAsked
    BY <1>10, LoadServed DEF KeepsAsked, Waits
  <2> QED
    BY <1>1, <1>10, <2>1, AskedKept, LoadServed
<1>11. ASSUME NEW i \in Slots, NEW told \in BOOLEAN, Execute(i, told)
       PROVE  [Box!Next]_(Box!vars)
  <2>1. Waits(i) /\ Served(i, told) /\ raced' = raced
    BY <1>11 DEF Execute, Waits
  <2>2. Waiting[i] # None /\ Waiting' = [Waiting EXCEPT ![i] = None]
    BY <2>1, ServedIsAnswered
  <2>3. Waiting[i].op = sent[i].op /\ Waiting[i].msgs = sent[i].msgs
    BY <2>1 DEF Waiting
  <2>4. sent[i].op \in Ops
    BY <2>1, RequestKinds DEF Waits, Acts
  <2>5. Box!CarryOut(i)
    BY <1>11, <2>1, <2>2, <2>3, <2>4, OperationsAgree DEF Execute, Box!CarryOut
  <2> QED
    BY <2>5 DEF Box!Next
<1>12. ASSUME NEW i \in Slots, Refuse(i)
       PROVE  [Box!Next]_(Box!vars)
  <2>1. Waits(i) /\ Served(i, FALSE) /\ raced' = raced /\ status' = status
    BY <1>12 DEF Refuse, Waits
  <2>2. Box!Refuse(i)
    BY <2>1, ServedIsAnswered DEF Box!Refuse
  <2> QED
    BY <2>2 DEF Box!Next
<1>13. ASSUME NEW i \in Slots, LoadAnswered(i)
       PROVE  [Box!Next]_(Box!vars)
  <2>1. KeepsAsked
    BY <1>13, LoadTakenOff DEF KeepsAsked, Waits
  <2> QED
    BY <1>1, <1>13, <2>1, AskedKept DEF LoadAnswered
<1>14. ASSUME NEW i \in Slots, NotDone(i)
       PROVE  [Box!Next]_(Box!vars)
  BY <1>1, <1>14, DoneAsksNothing DEF NotDone, Answered, Waits
<1>15. ASSUME NEW i \in Slots, Answered(i), status' = status, raced' = raced,
              Done(i) \/ GetMessages(i, tab)
       PROVE  [Box!Next]_(Box!vars)
  <2>1. ~Waits(i)
    BY <1>15 DEF Answered, Waits
  <2> QED
    BY <1>p, <1>1, <1>15, <2>1, DoneAsksNothing, LoadAsksNothing
<1>16. ASSUME NEW i \in Slots, StarAnswered(i)
       PROVE  [Box!Next]_(Box!vars)
  BY <1>15, <1>16 DEF StarAnswered
<1>17. ASSUME NEW i \in Slots, TrashAnswered(i)
       PROVE  [Box!Next]_(Box!vars)
  BY <1>15, <1>17 DEF TrashAnswered, Reload
<1>18. ASSUME NEW i \in Slots, TrashLeft(i)
       PROVE  [Box!Next]_(Box!vars)
  BY <1>15, <1>18 DEF TrashLeft, Reload
<1>19. ASSUME NEW i \in Slots, Fail(i)
       PROVE  [Box!Next]_(Box!vars)
  <2>1. /\ \A j \in Slots : j # i => sent'[j] = sent[j]
        /\ sent'[i] = IF IsAct(i) /\ sent[i].phase = "sent"
                      THEN [sent[i] EXCEPT !.phase = "dropped"] ELSE None
        /\ sent[i].phase # "dropped"
    BY <1>19 DEF Fail, TypeOK
  <2>2. CASE IsAct(i) /\ sent[i].phase = "sent"
    <3>1. sent[i] \in Acts /\ sent'[i] \in Acts
      BY <2>1, <2>2, RequestKinds DEF Acts
    <3>2. /\ sent'[i].op = sent[i].op /\ sent'[i].msgs = sent[i].msgs
          /\ sent'[i].phase = "dropped" /\ sent'[i] # None
      BY <2>1, <2>2, <3>1, NoneAssumption DEF Acts
    <3>3. KeepsAsked
      BY <2>1, <2>2, <3>2 DEF KeepsAsked, Waits, IsAct
    <3> QED
      BY <1>1, <1>19, <3>3, AskedKept DEF Fail
  <2>3. CASE ~(IsAct(i) /\ sent[i].phase = "sent")
    <3>1. KeepsAsked
      BY <2>1, <2>3 DEF KeepsAsked, Waits, IsAct
    <3> QED
      BY <1>1, <1>19, <3>1, AskedKept DEF Fail
  <2> QED
    BY <2>2, <2>3
<1>20. ASSUME UNCHANGED vars
       PROVE  [Box!Next]_(Box!vars)
  BY <1>1, <1>4, <1>20 DEF vars
<1> QED
  <2>1. Next => [Box!Next]_(Box!vars)
    BY <1>2, <1>3, <1>5, <1>6, <1>7, <1>8, <1>9, <1>10, <1>11, <1>12, <1>13, <1>14,
       <1>16, <1>17, <1>18, <1>19 DEF Next, UserActs, Serve, Answer
  <2> QED
    BY <1>20, <2>1

\* Whatever is lost, masked or overtaken, the hub's messages are a mailbox whose operations
\* are carried out once or never, and, as long as the user acts on the latest rows, one at
\* a time and from the folder they are meant for.
THEOREM PageIsMailbox == Spec => ImplementsMailbox
<1>1. Init => Box!Init
  <2> SUFFICES ASSUME Init
               PROVE  Box!Init
    OBVIOUS
  <2>1. \A i \in Slots : ~Waits(i)
    <3>1. PICK first \in Slots : sent[first].op = "load"
                                /\ \A i \in Slots : i # first => sent[i] = None
      BY DEF Init
    <3> QED
      BY <3>1 DEF Waits, IsAct
  <2>2. Waiting = [i \in Slots |-> None]
    BY <2>1 DEF Waiting
  <2> QED
    BY <2>2 DEF Init, Box!Init, Box!Kept, Statuses
<1>2. TypeOK /\ TypeOK' /\ (Calm => Fitting)' /\ [Next]_vars => [Box!Next]_(Box!vars)
  BY MailboxStep
<1> QED
  BY <1>1, <1>2, FittingInvariance, TypeInvariance, PTL DEF Spec, ImplementsMailbox, Box!Spec
===============================================================================
