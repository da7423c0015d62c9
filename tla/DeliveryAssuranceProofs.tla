------------------------ MODULE DeliveryAssuranceProofs ------------------------
(***************************************************************************)
(* What the delivery assurance wizard keeps for any number of tabs,        *)
(* assurances, terms and submits.                                          *)
(***************************************************************************)
EXTENDS DeliveryAssurance, TLAPS

\* What a list is rendered with is a list.
LEMMA RowsTyped ==
  ASSUME TypeOK
  PROVE  [i \in {j \in Lines : status[j] # "gone"} |-> terms[i]] \in Lists
<1> DEFINE S == {j \in Lines : status[j] # "gone"}
<1>1. S \in SUBSET Lines
  OBVIOUS
<1>2. [i \in S |-> terms[i]] \in [S -> Terms]
  BY <1>1 DEF TypeOK
<1> QED
  BY <1>1, <1>2 DEF Lists

\* Going back to the list keeps the pages and the lists typed.
LEMMA IndexTyped ==
  ASSUME TypeOK, NEW t \in Tabs, Index(t)
  PROVE  page' \in [Tabs -> Pages] /\ listed' \in [Tabs -> Lists]
<1>1. ListPage \in Pages
  BY DEF ListPage, Pages, Actions
<1> QED
  BY <1>1, RowsTyped DEF Index, TypeOK

\* The keys are made of an action and a number.
LEMMA KeysTyped ==
  ASSUME NEW act \in Actions, NEW line \in Lines \union {None}
  PROVE  FormKey(act, line) \in Keys /\ SaveKey(act, line) \in Keys
<1>1. NumberOf(line) \in Numbers \union {None}
  BY NumberAssumption DEF NumberOf
<1> QED
  BY <1>1 DEF FormKey, SaveKey, Keys

\* Building a form keeps the pages and the drafts typed, and the drafts under
\* their keys.
LEMMA FormTyped ==
  ASSUME TypeOK, NEW t \in Tabs, NEW act \in Actions, NEW line \in Lines \union {None},
         NEW chosen \in SUBSET Lines, BuildForm(t, act, line, chosen)
  PROVE  /\ page' \in [Tabs -> Pages]
         /\ draft' \in [Keys -> Drafts \union {None}]
         /\ \A k \in Keys : draft'[k] # None => draft'[k] = draft[k]
<1> DEFINE d == draft[FormKey(act, line)]
<1>1. FormKey(act, line) \in Keys
  BY KeysTyped
<1>2. d \in Drafts \union {None}
  BY <1>1 DEF TypeOK
<1>3. (IF d = None THEN 0 ELSE d.v) \in Versions \union {0}
  BY <1>2 DEF Drafts
<1>4. FormLine(act, line) \in Lines \union {None}
  BY <1>2 DEF FormLine, Drafts
<1>5. page' \in [Tabs -> Pages]
  BY <1>3, <1>4 DEF BuildForm, TypeOK, Pages
<1> QED
  BY <1>1, <1>5 DEF BuildForm, TypeOK

\* The changes made elsewhere stay within their bound.
LEMMA MoveTyped ==
  ASSUME TypeOK, Move
  PROVE  moves' \in 0..MaxMoves
BY BoundsAssumption DEF TypeOK, Move

\* The wizard's state keeps its types, and a draft lies under the key of what it
\* is for.
THEOREM TypeInvariance == Spec => []TypeOK
<1>1. Init => TypeOK
  <2> SUFFICES ASSUME Init PROVE TypeOK
    OBVIOUS
  <2>1. ListPage \in Pages
    BY DEF ListPage, Pages, Actions
  <2>2. terms \in Lists
    BY DEF Init, Lists
  <2>3. submits \in 0..MaxSubmits /\ moves \in 0..MaxMoves
    BY BoundsAssumption DEF Init
  <2> QED
    BY <2>1, <2>2, <2>3 DEF Init, TypeOK, Statuses, Versions
<1>2. TypeOK /\ [Next]_vars => TypeOK'
  <2> SUFFICES ASSUME TypeOK, [Next]_vars PROVE TypeOK'
    OBVIOUS
  <2>1. ASSUME NEW t \in Tabs, ShowList(t) PROVE TypeOK'
    <3>1. page' \in [Tabs -> Pages] /\ listed' \in [Tabs -> Lists]
      BY <2>1, IndexTyped DEF ShowList
    <3> QED
      BY <2>1, <3>1 DEF ShowList, TypeOK, session, history
  <2>2. ASSUME NEW t \in Tabs, NEW S \in SUBSET Lines, MultiApprove(t, S) PROVE TypeOK'
    <3>1. PICK first \in S :
            page' = [page EXCEPT ![t] = [@ EXCEPT !.at = "redirect", !.act = "approve",
                                                  !.line = first, !.chosen = S]]
      BY <2>2 DEF MultiApprove
    <3>2. page[t] \in Pages /\ first \in Lines /\ "approve" \in Actions
      BY <2>2, <3>1 DEF TypeOK, Actions
    <3>3. [page[t] EXCEPT !.at = "redirect", !.act = "approve",
                          !.line = first, !.chosen = S] \in Pages
      BY <3>2 DEF Pages
    <3>4. page' \in [Tabs -> Pages]
      BY <3>1, <3>3 DEF TypeOK
    <3> QED
      BY <2>2, <3>4 DEF MultiApprove, TypeOK, history
  <2>3. ASSUME NEW t \in Tabs, NEW line \in Lines \union {None}, Create(t, line) PROVE TypeOK'
    <3>1. BuildForm(t, "create", line, {}) /\ "create" \in Actions
      BY <2>3 DEF Create, Actions
    <3>2. /\ page' \in [Tabs -> Pages]
          /\ draft' \in [Keys -> Drafts \union {None}]
          /\ \A k \in Keys : draft'[k] # None => draft'[k] = draft[k]
      BY <3>1, FormTyped
    <3> QED
      BY <2>3, <3>2 DEF Create, TypeOK, history
  <2>4. ASSUME NEW t \in Tabs, NEW line \in Lines, Change(t, line) PROVE TypeOK'
    <3>1. BuildForm(t, "change", line, {}) /\ "change" \in Actions
      BY <2>4 DEF Change, Actions
    <3>2. /\ page' \in [Tabs -> Pages]
          /\ draft' \in [Keys -> Drafts \union {None}]
          /\ \A k \in Keys : draft'[k] # None => draft'[k] = draft[k]
      BY <3>1, FormTyped
    <3> QED
      BY <2>4, <3>2 DEF Change, TypeOK, history
  <2>5. ASSUME NEW t \in Tabs, NEW line \in Lines \union {None}, NEW chosen \in SUBSET Lines,
               Approve(t, line, chosen)
        PROVE  TypeOK'
    <3>1. /\ page' \in [Tabs -> Pages] /\ listed' \in [Tabs -> Lists]
          /\ draft' \in [Keys -> Drafts \union {None}]
          /\ \A k \in Keys : draft'[k] # None => draft'[k] = draft[k]
      <4>1. CASE BuildForm(t, "approve", line, chosen) /\ UNCHANGED listed
        <5>1. "approve" \in Actions
          BY DEF Actions
        <5> QED
          BY <4>1, <5>1, FormTyped DEF TypeOK
      <4>2. CASE Index(t) /\ UNCHANGED draft
        BY <4>2, IndexTyped DEF TypeOK
      <4> QED
        BY <2>5, <4>1, <4>2 DEF Approve
    <3>2. chooser' \in Tabs \union {None} /\ approving' \subseteq Lines /\ following' \subseteq Lines
      BY <2>5 DEF Approve, TakeList, TypeOK
    <3> QED
      BY <2>5, <3>1, <3>2 DEF Approve, TypeOK
  <2>6. ASSUME NEW t \in Tabs, NEW about \in Terms, Submit(t, about) PROVE TypeOK'
    <3> DEFINE act == page[t].act
               line == page[t].line
               d == [v |-> submits + 1, by |-> t, act |-> act, line |-> line, terms |-> about]
    <3>1. act \in Actions /\ line \in Lines \union {None} /\ page[t] \in Pages
      BY DEF TypeOK, Pages
    <3>2. submits + 1 \in Versions /\ submits' \in 0..MaxSubmits
      BY <2>6, BoundsAssumption DEF Submit, TypeOK, Versions
    <3>3. d \in Drafts
      BY <3>1, <3>2 DEF Drafts
    <3>4. /\ SaveKey(act, line) = <<d.act, IF d.act = "create" THEN None ELSE NumberOf(d.line)>>
          /\ SaveKey(act, line) \in Keys
      BY <3>1, KeysTyped DEF SaveKey
    <3>5. draft' = [draft EXCEPT ![SaveKey(act, line)] = d]
      BY <2>6 DEF Submit
    <3>6. draft' \in [Keys -> Drafts \union {None}]
      BY <3>3, <3>5 DEF TypeOK
    <3>7. \A k \in Keys : draft'[k] # None =>
            k = <<draft'[k].act, IF draft'[k].act = "create" THEN None ELSE NumberOf(draft'[k].line)>>
      BY <3>4, <3>5 DEF TypeOK
    <3>8. page' \in [Tabs -> Pages]
      BY <2>6, <3>1, <3>2 DEF Submit, TypeOK, Pages
    <3> QED
      BY <2>6, <3>2, <3>6, <3>7, <3>8 DEF Submit, TypeOK, history
  <2>7. ASSUME NEW t \in Tabs, NEW accepted \in BOOLEAN, SaveDraft(t, accepted)
        PROVE  TypeOK'
    <3> DEFINE k == SaveKey(page[t].act, page[t].line)
               d == draft[k]
    <3>1. k \in Keys
      BY KeysTyped DEF TypeOK, Pages
    <3>2. d \in Drafts
      BY <2>7, <3>1 DEF SaveDraft, TypeOK
    <3>3. terms' \in [Lines -> Terms]
      BY <2>7, <3>2 DEF SaveDraft, Updated, TypeOK, Drafts
    <3>4. sends' \in [Versions -> Nat]
      BY <2>7, <3>2 DEF SaveDraft, TypeOK, Drafts
    <3>5. draft' = [draft EXCEPT ![k] = None]
      BY <2>7 DEF SaveDraft, Remove
    <3>6. [ListPage EXCEPT !.at = "confirmation"] \in Pages
      BY DEF ListPage, Pages, Actions
    <3>7. page' \in [Tabs -> Pages]
      BY <2>7, <3>6 DEF SaveDraft, TypeOK
    <3>8. draft' \in [Keys -> Drafts \union {None}]
      BY <3>5 DEF TypeOK
    <3>9. \A j \in Keys : draft'[j] # None =>
            j = <<draft'[j].act, IF draft'[j].act = "create" THEN None ELSE NumberOf(draft'[j].line)>>
      BY <3>5 DEF TypeOK
    <3>10. approving' \subseteq Lines /\ chooser' \in Tabs \union {None}
      BY <2>7 DEF SaveDraft, TypeOK
    <3> QED
      BY <2>7, <3>3, <3>4, <3>7, <3>8, <3>9, <3>10 DEF SaveDraft, TypeOK
  <2>8. ASSUME NEW t \in Tabs, SaveNothing(t) PROVE TypeOK'
    <3>1. page' \in [Tabs -> Pages] /\ listed' \in [Tabs -> Lists]
      BY <2>8, IndexTyped DEF SaveNothing
    <3> QED
      BY <2>8, <3>1 DEF SaveNothing, TypeOK, session, history
  <2>9. ASSUME NEW i \in Lines, Delete(i) \/ Plan(i) PROVE TypeOK'
    <3>1. moves' \in 0..MaxMoves
      BY <2>9, MoveTyped DEF Delete, Plan
    <3>2. status' \in [Lines -> Statuses]
      BY <2>9 DEF Delete, Plan, TypeOK, Statuses
    <3> QED
      BY <2>9, <3>1, <3>2 DEF Delete, Plan, TypeOK, session, history
  <2>10. ASSUME NEW i \in Lines, NEW about \in Terms, ChangedElsewhere(i, about) PROVE TypeOK'
    <3>1. moves' \in 0..MaxMoves
      BY <2>10, MoveTyped DEF ChangedElsewhere
    <3> QED
      BY <2>10, <3>1 DEF ChangedElsewhere, TypeOK, session, history
  <2>11. ASSUME NEW t \in Tabs, FollowRedirect(t) PROVE TypeOK'
    <3>1. page[t].line \in Lines \union {None} /\ page[t].chosen \in SUBSET Lines
      BY DEF TypeOK, Pages
    <3> QED
      BY <2>5, <2>11, <3>1 DEF FollowRedirect
  <2>12. ASSUME NEW t \in Tabs, NEW line \in Lines, ApproveOne(t, line) PROVE TypeOK'
    BY <2>5, <2>12 DEF ApproveOne
  <2>13. CASE UNCHANGED vars
    BY <2>13 DEF vars, session, history, TypeOK
  <2> QED
    BY <2>1, <2>2, <2>3, <2>4, <2>6, <2>7, <2>8, <2>9, <2>10, <2>11, <2>12, <2>13
       DEF Next, TabStep, Elsewhere
<1> QED
  BY <1>1, <1>2, PTL DEF Spec

-----------------------------------------------------------------------------
(* What the steps do to the drafts and the overviews: all but Submit and     *)
(* SaveDraft only take drafts away and leave or keep overviews.               *)

Quiet ==
  /\ \A k \in Keys : draft'[k] # None => draft'[k] = draft[k]
  /\ \A t \in Tabs : page'[t].at = "overview" => page'[t] = page[t]
  /\ UNCHANGED <<sends, submits>>

\* Going back to the list leaves the other pages alone.
LEMMA IndexQuiet ==
  ASSUME TypeOK, NEW t \in Tabs, Index(t)
  PROVE  \A u \in Tabs : page'[u].at = "overview" => page'[u] = page[u]
BY DEF Index, ListPage, TypeOK

\* Opening a form takes a draft away at most, and leaves the other pages alone.
LEMMA FormQuiet ==
  ASSUME TypeOK, NEW t \in Tabs, NEW act, NEW line, NEW chosen, BuildForm(t, act, line, chosen)
  PROVE  /\ \A k \in Keys : draft'[k] # None => draft'[k] = draft[k]
         /\ \A u \in Tabs : page'[u].at = "overview" => page'[u] = page[u]
BY DEF BuildForm, TypeOK

\* Every step is quiet, submits a form or saves a draft.
LEMMA StepKinds ==
  ASSUME TypeOK, [Next]_vars
  PROVE  \/ Quiet
         \/ \E t \in Tabs, about \in Terms : Submit(t, about)
         \/ \E t \in Tabs, accepted \in BOOLEAN : SaveDraft(t, accepted)
<1>1. ASSUME NEW t \in Tabs, ShowList(t) \/ SaveNothing(t) PROVE Quiet
  BY <1>1, IndexQuiet DEF ShowList, SaveNothing, Quiet, session, history
<1>2. ASSUME NEW t \in Tabs, NEW S \in SUBSET Lines, MultiApprove(t, S) PROVE Quiet
  BY <1>2 DEF MultiApprove, Quiet, TypeOK, Pages, history
<1>3. ASSUME NEW t \in Tabs, NEW line \in Lines \union {None}, Create(t, line) PROVE Quiet
  BY <1>3, FormQuiet DEF Create, Quiet, history
<1>4. ASSUME NEW t \in Tabs, NEW line \in Lines, Change(t, line) PROVE Quiet
  BY <1>4, FormQuiet DEF Change, Quiet, history
<1>5. ASSUME NEW t \in Tabs, NEW line, NEW chosen, Approve(t, line, chosen) PROVE Quiet
  <2>1. CASE BuildForm(t, "approve", line, chosen)
    BY <1>5, <2>1, FormQuiet DEF Approve, Quiet
  <2>2. CASE Index(t) /\ UNCHANGED draft
    BY <1>5, <2>2, IndexQuiet DEF Approve, Quiet
  <2> QED
    BY <1>5, <2>1, <2>2 DEF Approve
<1>6. ASSUME NEW t \in Tabs, FollowRedirect(t) PROVE Quiet
  BY <1>5, <1>6 DEF FollowRedirect
<1>7. ASSUME NEW t \in Tabs, NEW line \in Lines, ApproveOne(t, line) PROVE Quiet
  BY <1>5, <1>7 DEF ApproveOne
<1>8. CASE Elsewhere \/ UNCHANGED vars
  BY <1>8 DEF Elsewhere, Delete, Plan, ChangedElsewhere, Quiet, vars, session, history
<1> QED
  BY <1>1, <1>2, <1>3, <1>4, <1>6, <1>7, <1>8 DEF Next, TabStep

-----------------------------------------------------------------------------
(* Nothing submitted is sent twice.                                          *)

\* A draft of the session was submitted and not sent yet, no two keys hold the
\* same one, and nothing was sent before it was submitted.
SendInv ==
  /\ \A k \in Keys : draft[k] # None => draft[k].v <= submits /\ sends[draft[k].v] = 0
  /\ \A j, k \in Keys :
       draft[j] # None /\ draft[k] # None /\ draft[j].v = draft[k].v => j = k
  /\ \A v \in Versions : v > submits => sends[v] = 0
  /\ SentOnce

\* Every step keeps the drafts unsent and apart.
LEMMA SendInvariance == Spec => []SendInv
<1>1. Init => SendInv
  BY DEF Init, SendInv, SentOnce, Versions
<1>2. TypeOK /\ SendInv /\ [Next]_vars => SendInv'
  <2> SUFFICES ASSUME TypeOK, SendInv, [Next]_vars PROVE SendInv'
    OBVIOUS
  <2>1. CASE Quiet
    BY <2>1 DEF Quiet, SendInv, SentOnce
  <2>2. ASSUME NEW t \in Tabs, NEW about \in Terms, Submit(t, about) PROVE SendInv'
    <3> DEFINE act == page[t].act
               line == page[t].line
               key == SaveKey(act, line)
               d == [v |-> submits + 1, by |-> t, act |-> act, line |-> line, terms |-> about]
    <3>1. draft' = [draft EXCEPT ![key] = d] /\ submits' = submits + 1 /\ sends' = sends
      BY <2>2 DEF Submit, history
    <3>2. submits \in Nat /\ submits + 1 \in Versions
      BY <2>2, BoundsAssumption DEF Submit, TypeOK, Versions
    <3>3. d.v = submits + 1 /\ sends[submits + 1] = 0
      BY <3>2 DEF SendInv
    <3>4. \A k \in Keys : draft[k] # None => draft[k].v \in Versions /\ draft[k].v <= submits
      BY DEF SendInv, TypeOK, Drafts
    <3>5. \A k \in Keys : k # key => draft'[k] = draft[k]
      BY <3>1 DEF TypeOK
    <3>6. \A k \in Keys : k = key => draft'[k] = d
      BY <3>1 DEF TypeOK
    <3>7. \A k \in Keys : draft'[k] # None => draft'[k].v <= submits' /\ sends'[draft'[k].v] = 0
      BY <3>1, <3>2, <3>3, <3>4, <3>5, <3>6 DEF SendInv, Versions
    <3>8. \A j, k \in Keys :
            draft'[j] # None /\ draft'[k] # None /\ draft'[j].v = draft'[k].v => j = k
      <4>1. \A k \in Keys : k # key /\ draft'[k] # None => draft'[k].v # submits + 1
        BY <3>2, <3>4, <3>5 DEF Versions
      <4> QED
        BY <3>3, <3>5, <3>6, <4>1 DEF SendInv
    <3>9. \A v \in Versions : v > submits' => sends'[v] = 0
      BY <3>1, <3>2 DEF SendInv, Versions
    <3> QED
      BY <3>1, <3>7, <3>8, <3>9 DEF SendInv, SentOnce
  <2>3. ASSUME NEW t \in Tabs, NEW accepted \in BOOLEAN, SaveDraft(t, accepted)
        PROVE  SendInv'
    <3> DEFINE key == SaveKey(page[t].act, page[t].line)
               d == draft[key]
    <3>1. key \in Keys
      BY KeysTyped DEF TypeOK, Pages
    <3>2. d \in Drafts /\ d # None
      BY <2>3, <3>1 DEF SaveDraft, TypeOK
    <3>3. d.v \in Versions /\ d.v <= submits /\ sends[d.v] = 0
      BY <3>1, <3>2 DEF SendInv, Drafts
    <3>4. /\ draft' = [draft EXCEPT ![key] = None] /\ submits' = submits
          /\ sends' = [sends EXCEPT ![d.v] = @ + 1]
      BY <2>3 DEF SaveDraft, Remove
    <3>5. \A k \in Keys : draft'[k] # None => k # key /\ draft'[k] = draft[k]
      BY <3>4 DEF TypeOK
    <3>6. \A k \in Keys : draft'[k] # None => draft'[k].v # d.v
      BY <3>1, <3>2, <3>5 DEF SendInv
    <3>7. \A v \in Versions : sends'[v] = IF v = d.v THEN 1 ELSE sends[v]
      BY <3>3, <3>4 DEF TypeOK
    <3>8. \A k \in Keys : draft'[k] # None => draft'[k].v <= submits' /\ sends'[draft'[k].v] = 0
      BY <3>4, <3>5, <3>6, <3>7 DEF SendInv, TypeOK, Drafts
    <3>9. \A v \in Versions : v > submits' => sends'[v] = 0
      BY <3>3, <3>4, <3>7 DEF SendInv, Versions, TypeOK
    <3> QED
      BY <3>5, <3>7, <3>8, <3>9 DEF SendInv, SentOnce
  <2> QED
    BY <2>1, <2>2, <2>3, StepKinds
<1> QED
  BY <1>1, <1>2, TypeInvariance, PTL DEF Spec

\* What was submitted once is sent to the back end at most once.
THEOREM SentOnceHolds == Spec => []SentOnce
<1>1. SendInv => SentOnce
  BY DEF SendInv
<1> QED
  BY <1>1, SendInvariance, PTL

-----------------------------------------------------------------------------
(* A save sends what its overview shows.                                     *)

\* The draft under the key of an overview is the one the overview shows, or one that
\* another tab has submitted since.
Shows(t) == \/ Sent(t).v = page[t].v /\ Sent(t).line = page[t].line
            \/ Sent(t).v > page[t].v /\ Sent(t).by # t

ShownInv ==
  \A t \in Tabs : page[t].at = "overview" =>
    page[t].v <= submits /\ (Sent(t) # None => Shows(t))

\* Every step keeps the overviews in line with the drafts under their keys.
LEMMA ShownInvariance == Spec => []ShownInv
<1>1. Init => ShownInv
  BY DEF Init, ShownInv, ListPage
<1>2. TypeOK /\ ShownInv /\ [Next]_vars => ShownInv'
  <2> DEFINE KeyOf(p) == SaveKey(p.act, p.line)
             Good(t) == page[t].v <= submits /\ (Sent(t) # None => Shows(t))
  <2> SUFFICES ASSUME TypeOK, ShownInv, [Next]_vars, NEW t \in Tabs, page'[t].at = "overview"
               PROVE  Good(t)'
    BY DEF ShownInv
  <2>0. page[t].at = "overview" => Good(t)
    BY DEF ShownInv
  <2>1. \A p \in Pages : KeyOf(p) \in Keys
    BY KeysTyped DEF Pages
  <2>2. Sent(t) = draft[KeyOf(page[t])] /\ Sent(t)' = draft'[KeyOf(page'[t])]
    BY DEF Sent, SaveKey, NumberOf
  <2>3. CASE Quiet
    <3>1. page'[t] = page[t] /\ submits' = submits
      BY <2>3 DEF Quiet
    <3>2. Sent(t)' # None => Sent(t)' = Sent(t)
      BY <2>1, <2>2, <2>3, <3>1 DEF Quiet, TypeOK
    <3> QED
      BY <2>0, <3>1, <3>2 DEF Shows
  <2>4. ASSUME NEW u \in Tabs, NEW about \in Terms, Submit(u, about)
        PROVE  Good(t)'
    <3> DEFINE act == page[u].act
               line == page[u].line
               key == SaveKey(act, line)
               d == [v |-> submits + 1, by |-> u, act |-> act, line |-> line, terms |-> about]
    <3>1. draft' = [draft EXCEPT ![key] = d] /\ submits' = submits + 1 /\ submits \in Nat
      BY <2>4, BoundsAssumption DEF Submit, TypeOK
    <3>2. page' = [page EXCEPT ![u] =
            [@ EXCEPT !.at = "overview", !.v = submits + 1]]
      BY <2>4 DEF Submit
    <3>3. CASE u = t
      <4>1. page'[t].act = act /\ page'[t].line = line /\ page'[t].v = submits + 1
        BY <3>2, <3>3 DEF TypeOK, Pages
      <4>2. KeyOf(page'[t]) = key /\ key \in Keys
        BY <2>1, <3>3, <4>1 DEF TypeOK
      <4>3. Sent(t)' = d
        BY <2>2, <3>1, <4>2 DEF TypeOK
      <4>4. Shows(t)'
        BY <4>1, <4>3 DEF Shows
      <4> QED
        BY <3>1, <4>1, <4>4
    <3>4. CASE u # t
      <4>1. page'[t] = page[t]
        BY <3>2, <3>4 DEF TypeOK
      <4>2. page[t].v \in Nat /\ page[t].v <= submits
        BY <2>0, <4>1 DEF TypeOK, Pages, Versions
      <4>3. page'[t].v <= submits' /\ submits + 1 > page'[t].v
        BY <3>1, <4>1, <4>2
      <4>4. CASE KeyOf(page[t]) = key
        <5>1. Sent(t)' = d
          BY <2>1, <2>2, <3>1, <4>1, <4>4 DEF TypeOK
        <5>2. Sent(t)'.v = submits + 1 /\ Sent(t)'.by = u
          BY <5>1
        <5> QED
          BY <3>4, <4>3, <5>2 DEF Shows
      <4>5. CASE KeyOf(page[t]) # key
        <5>1. Sent(t)' = Sent(t)
          BY <2>1, <2>2, <3>1, <4>1, <4>5 DEF TypeOK
        <5> QED
          BY <2>0, <4>1, <4>3, <5>1 DEF Shows
      <4> QED
        BY <4>4, <4>5
    <3> QED
      BY <3>3, <3>4
  <2>5. ASSUME NEW u \in Tabs, NEW accepted \in BOOLEAN, SaveDraft(u, accepted)
        PROVE  Good(t)'
    <3>1. page'[t] = page[t] /\ submits' = submits
      BY <2>5 DEF SaveDraft, ListPage, TypeOK
    <3>2. draft' = [draft EXCEPT ![KeyOf(page[u])] = None]
      BY <2>5 DEF SaveDraft, Remove
    <3>3. Sent(t)' # None => Sent(t)' = Sent(t)
      BY <2>1, <2>2, <3>1, <3>2 DEF TypeOK
    <3> QED
      BY <2>0, <3>1, <3>3 DEF Shows
  <2> QED
    BY <2>3, <2>4, <2>5, StepKinds
<1> QED
  BY <1>1, <1>2, TypeInvariance, PTL DEF Spec

\* The draft a save sends is of the action and the number of its overview.
LEMMA SentUnderItsKey ==
  ASSUME TypeOK, NEW t \in Tabs, Saves(t)
  PROVE  /\ page[t].at = "overview" /\ Sent(t) \in Drafts /\ Sent(t) # None
         /\ Sent(t).act = page[t].act
         /\ page[t].act # "create" => NumberOf(Sent(t).line) = NumberOf(page[t].line)
<1>1. page[t] \in Pages /\ page[t].at = "overview" /\ Sent(t) # None
  BY DEF Saves, SaveDraft, Sent, TypeOK
<1>2. PICK k \in Keys : k = SaveKey(page[t].act, page[t].line)
  BY <1>1, KeysTyped DEF Pages
<1>3. PICK d \in Drafts : d = Sent(t)
  BY <1>1, <1>2 DEF Sent, TypeOK
<1>4. k = <<d.act, IF d.act = "create" THEN None ELSE NumberOf(d.line)>>
  BY <1>1, <1>2, <1>3 DEF Sent, TypeOK
<1>5. /\ d.act = page[t].act
      /\ page[t].act # "create" => NumberOf(d.line) = NumberOf(page[t].line)
  BY <1>2, <1>4 DEF SaveKey
<1> QED
  BY <1>1, <1>3, <1>5

\* A save sends what its own overview shows, or what another tab has submitted
\* since for the same action under the same number.
THEOREM SavesWhatItShowsHolds == Spec => SavesWhatItShows
<1> DEFINE Right(t) == /\ Sent(t).act = page[t].act
                       /\ page[t].act # "create" => NumberOf(Sent(t).line) = NumberOf(page[t].line)
                       /\ \/ Sent(t).v = page[t].v /\ Sent(t).line = page[t].line
                          \/ Sent(t).v > page[t].v /\ Sent(t).by # t
<1>1. ASSUME TypeOK, ShownInv, NEW t \in Tabs, Saves(t) PROVE Right(t)
  BY <1>1, SentUnderItsKey DEF ShownInv, Shows
<1>2. TypeOK /\ ShownInv => [\A t \in Tabs : Saves(t) => Right(t)]_vars
  BY <1>1
<1> QED
  BY <1>2, TypeInvariance, ShownInvariance, PTL DEF SavesWhatItShows

-----------------------------------------------------------------------------
(* An approval is for what was chosen.                                       *)

\* What the session will approve for page p is what the user chose there.
Agrees(p) == approving = p.chosen \/ (approving = {} /\ p.chosen = {p.line})

\* An approval has a choice, and while a tab is the latest chooser the session's
\* list is its choice.
ChoiceInv ==
  \A t \in Tabs :
    /\ page[t].act = "approve" \/ page[t].at = "redirect" => page[t].chosen # {}
    /\ page[t].act = "approve" /\ page[t].at \in {"form", "overview"} /\ chooser = t
         => Agrees(page[t])

\* The step leaves the list alone, and every page as far as the choice goes, or
\* replaces it by one that approves nothing yet.
Unchosen ==
  /\ \A t \in Tabs :
       \/ /\ page'[t].act = page[t].act /\ page'[t].line = page[t].line
          /\ page'[t].chosen = page[t].chosen
          /\ page'[t].at = "redirect" => page[t].at = "redirect"
          /\ page'[t].at \in {"form", "overview"} => page[t].at \in {"form", "overview"}
       \/ page'[t].act # "approve" /\ page'[t].at # "redirect"
       \/ page'[t].at = "redirect" /\ page'[t].chosen # {}
  /\ UNCHANGED <<approving, chooser>>

\* Such a step keeps the choices.
LEMMA UnchosenKeeps ==
  ASSUME ChoiceInv, Unchosen
  PROVE  ChoiceInv'
<1> SUFFICES ASSUME NEW t \in Tabs, page'[t].act = "approve" \/ page'[t].at = "redirect"
             PROVE  /\ page'[t].chosen # {}
                    /\ page'[t].at \in {"form", "overview"} /\ chooser' = t
                         => Agrees(page[t])'
  BY DEF ChoiceInv
<1>1. CASE /\ page'[t].act = page[t].act /\ page'[t].line = page[t].line
           /\ page'[t].chosen = page[t].chosen
           /\ page'[t].at = "redirect" => page[t].at = "redirect"
           /\ page'[t].at \in {"form", "overview"} => page[t].at \in {"form", "overview"}
  BY <1>1 DEF ChoiceInv, Unchosen, Agrees
<1>2. CASE page'[t].at = "redirect" /\ page'[t].chosen # {}
  BY <1>2
<1> QED
  BY <1>1, <1>2 DEF Unchosen

\* An approval form puts the choice of its tab into the session, or has no
\* chooser.
LEMMA ApproveKeeps ==
  ASSUME TypeOK, ChoiceInv, NEW t \in Tabs, NEW line \in Lines \union {None},
         NEW chosen \in SUBSET Lines, chosen # {}, Approve(t, line, chosen)
  PROVE  ChoiceInv'
<1>1. ASSUME NEW u \in Tabs, u # t PROVE page'[u] = page[u] /\ chooser' # u
  BY <1>1, NoneAssumption DEF Approve, BuildForm, Index, TypeOK
<1>2. approving' = following
  BY DEF Approve, TakeList
<1>3. CASE BuildForm(t, "approve", line, chosen)
  <2>1. page'[t].chosen = chosen /\ page'[t].line = FormLine("approve", line)
    BY <1>3 DEF BuildForm, TypeOK
  <2>2. chooser' = t => Agrees(page[t])'
    <3>1. chooser' = t => /\ following = chosen \/ (following = {} /\ chosen = {line})
                          /\ FormLine("approve", line) \in chosen
      BY NoneAssumption DEF Approve
    <3> QED
      BY <1>2, <2>1, <3>1 DEF Agrees
  <2> QED
    BY <1>1, <2>1, <2>2 DEF ChoiceInv
<1>4. CASE Index(t)
  <2>1. page'[t].act = "create" /\ page'[t].at = "list"
    BY <1>4 DEF Index, ListPage, TypeOK
  <2> QED
    BY <1>1, <2>1 DEF ChoiceInv
<1> QED
  BY <1>3, <1>4 DEF Approve

\* Every step keeps the choices.
LEMMA ChoiceInvariance == Spec => []ChoiceInv
<1>1. Init => ChoiceInv
  <2> SUFFICES ASSUME Init PROVE ChoiceInv
    OBVIOUS
  <2>1. ASSUME NEW t \in Tabs PROVE page[t].at = "list" /\ page[t].act = "create"
    BY DEF Init, ListPage
  <2> QED
    BY <2>1 DEF ChoiceInv
<1>2. TypeOK /\ ChoiceInv /\ [Next]_vars => ChoiceInv'
  <2> SUFFICES ASSUME TypeOK, ChoiceInv, [Next]_vars PROVE ChoiceInv'
    OBVIOUS
  <2>1. ASSUME NEW t \in Tabs, ShowList(t) \/ SaveNothing(t) PROVE Unchosen
    BY <2>1 DEF ShowList, SaveNothing, Index, ListPage, Unchosen, TypeOK, session, history
  <2>2. ASSUME NEW t \in Tabs, NEW S \in SUBSET Lines, MultiApprove(t, S) PROVE Unchosen
    BY <2>2 DEF MultiApprove, Unchosen, TypeOK, Pages, history
  <2>3. ASSUME NEW t \in Tabs, NEW line \in Lines \union {None}, Create(t, line) PROVE Unchosen
    BY <2>3 DEF Create, BuildForm, Unchosen, TypeOK, history
  <2>4. ASSUME NEW t \in Tabs, NEW line \in Lines, Change(t, line) PROVE Unchosen
    BY <2>4 DEF Change, BuildForm, Unchosen, TypeOK, history
  <2>5. ASSUME NEW t \in Tabs, FollowRedirect(t) PROVE ChoiceInv'
    <3>1. page[t].line \in Lines \union {None} /\ page[t].chosen \in SUBSET Lines
      BY DEF TypeOK, Pages
    <3>2. page[t].chosen # {}
      BY <2>5 DEF FollowRedirect, ChoiceInv
    <3> QED
      BY <2>5, <3>1, <3>2, ApproveKeeps DEF FollowRedirect
  <2>6. ASSUME NEW t \in Tabs, NEW line \in Lines, ApproveOne(t, line) PROVE ChoiceInv'
    BY <2>6, ApproveKeeps DEF ApproveOne
  <2>7. ASSUME NEW t \in Tabs, NEW about \in Terms, Submit(t, about) PROVE Unchosen
    BY <2>7 DEF Submit, Unchosen, TypeOK, Pages, history
  <2>8. ASSUME NEW t \in Tabs, NEW accepted \in BOOLEAN, SaveDraft(t, accepted)
        PROVE  ChoiceInv'
    <3> DEFINE d == Sent(t)
    <3>1. \A u \in Tabs :
            page'[u] = page[u] \/ (page'[u].act = "create" /\ page'[u].at = "confirmation")
      BY <2>8 DEF SaveDraft, ListPage, TypeOK
    <3>2. CASE d.act = "approve"
      <4>1. chooser' = None
        BY <2>8, <3>2 DEF SaveDraft, Sent
      <4> QED
        BY <3>1, <4>1, NoneAssumption DEF ChoiceInv
    <3>3. CASE d.act # "approve"
      <4>1. approving' = approving /\ chooser' = chooser
        BY <2>8, <3>3 DEF SaveDraft, Sent
      <4> QED
        BY <3>1, <4>1 DEF ChoiceInv, Agrees
    <3> QED
      BY <3>2, <3>3
  <2>9. CASE Elsewhere \/ UNCHANGED vars
    BY <2>9 DEF Elsewhere, Delete, Plan, ChangedElsewhere, ChoiceInv, Agrees, vars, session, history
  <2> QED
    BY <2>1, <2>2, <2>3, <2>4, <2>5, <2>6, <2>7, <2>8, <2>9, UnchosenKeeps DEF Next, TabStep
<1> QED
  BY <1>1, <1>2, TypeInvariance, PTL DEF Spec

\* An approval is for the assurances the user chose for this form, unless another
\* tab has approved since or the form took a list meant for another one.
THEOREM ApprovesWhatWasChosenHolds == Spec => ApprovesWhatWasChosen
<1> DEFINE Mine(t) == Saves(t) /\ page[t].act = "approve" /\ chooser = t /\ Sent(t).by = t
<1>1. ASSUME TypeOK, ShownInv, ChoiceInv, NEW t \in Tabs, Mine(t)
      PROVE  Targets(Sent(t)) = page[t].chosen
  <2>1. page[t].at = "overview" /\ Sent(t).act = "approve"
    BY <1>1, SentUnderItsKey
  <2>2. Sent(t).line = page[t].line
    BY <1>1, SentUnderItsKey DEF ShownInv, Shows
  <2>3. page[t].chosen # {} /\ Agrees(page[t])
    BY <1>1, <2>1 DEF ChoiceInv
  <2> QED
    BY <2>1, <2>2, <2>3 DEF Targets, Agrees
<1>2. TypeOK /\ ShownInv /\ ChoiceInv
        => [\A t \in Tabs : Mine(t) => Targets(Sent(t)) = page[t].chosen]_vars
  BY <1>1
<1> QED
  BY <1>2, TypeInvariance, ShownInvariance, ChoiceInvariance, PTL DEF ApprovesWhatWasChosen

-----------------------------------------------------------------------------
(* The user's changes come back to the form.                                 *)

\* What an overview shows was submitted, and lies nowhere but under its own key.
HeldInv ==
  \A t \in Tabs : page[t].at = "overview" =>
    /\ page[t].v <= submits
    /\ \A k \in Keys : draft[k] # None /\ draft[k].v = page[t].v
                        => k = SaveKey(page[t].act, page[t].line)

\* Every step keeps what the overviews show under their keys.
LEMMA HeldInvariance == Spec => []HeldInv
<1>1. Init => HeldInv
  BY DEF Init, HeldInv, ListPage
<1>2. TypeOK /\ SendInv /\ HeldInv /\ [Next]_vars => HeldInv'
  <2> SUFFICES ASSUME TypeOK, SendInv, HeldInv, [Next]_vars, NEW t \in Tabs,
                      page'[t].at = "overview"
               PROVE  /\ page'[t].v <= submits'
                      /\ \A k \in Keys : draft'[k] # None /\ draft'[k].v = page'[t].v
                                          => k = SaveKey(page'[t].act, page'[t].line)
    BY DEF HeldInv, SaveKey
  <2>1. CASE Quiet
    BY <2>1 DEF Quiet, HeldInv
  <2>2. ASSUME NEW u \in Tabs, NEW about \in Terms, Submit(u, about)
        PROVE  /\ page'[t].v <= submits'
               /\ \A k \in Keys : draft'[k] # None /\ draft'[k].v = page'[t].v
                                   => k = SaveKey(page'[t].act, page'[t].line)
    <3> DEFINE act == page[u].act
               line == page[u].line
               key == SaveKey(act, line)
               d == [v |-> submits + 1, by |-> u, act |-> act, line |-> line, terms |-> about]
    <3>1. draft' = [draft EXCEPT ![key] = d] /\ submits' = submits + 1 /\ submits \in Nat
      BY <2>2, BoundsAssumption DEF Submit, TypeOK
    <3>2. page' = [page EXCEPT ![u] =
            [@ EXCEPT !.at = "overview", !.v = submits + 1]]
      BY <2>2 DEF Submit
    <3>3. \A k \in Keys : draft'[k] # None =>
            \/ k = key /\ draft'[k].v = submits + 1
            \/ draft'[k] = draft[k] /\ draft[k].v # submits + 1
      <4>1. \A k \in Keys : draft[k] # None => draft[k].v \in Nat /\ draft[k].v <= submits
        BY DEF SendInv, TypeOK, Drafts, Versions
      <4>2. \A k \in Keys : draft'[k] = IF k = key THEN d ELSE draft[k]
        BY <3>1 DEF TypeOK
      <4>3. \A k \in Keys : draft[k] # None => draft[k].v # submits + 1
        BY <3>1, <4>1
      <4> QED
        BY <4>2, <4>3
    <3>4. CASE u = t
      <4>1. page'[t].act = act /\ page'[t].line = page[t].line /\ page'[t].v = submits + 1
        BY <3>2, <3>4 DEF TypeOK, Pages
      <4>2. SaveKey(page'[t].act, page'[t].line) = key
        BY <3>4, <4>1 DEF SaveKey
      <4> QED
        BY <3>1, <3>3, <4>1, <4>2
    <3>5. CASE u # t
      <4>1. page'[t] = page[t]
        BY <3>2, <3>5 DEF TypeOK
      <4>2. page[t].v \in Nat /\ page[t].v <= submits
        BY <4>1 DEF HeldInv, TypeOK, Pages, Versions
      <4>3. page[t].v # submits + 1 /\ page[t].v <= submits + 1
        BY <3>1, <4>2
      <4> QED
        BY <3>1, <3>3, <4>1, <4>3 DEF HeldInv
    <3> QED
      BY <3>4, <3>5
  <2>3. ASSUME NEW u \in Tabs, NEW accepted \in BOOLEAN, SaveDraft(u, accepted)
        PROVE  /\ page'[t].v <= submits'
               /\ \A k \in Keys : draft'[k] # None /\ draft'[k].v = page'[t].v
                                   => k = SaveKey(page'[t].act, page'[t].line)
    <3>1. page'[t] = page[t] /\ submits' = submits
      BY <2>3 DEF SaveDraft, ListPage, TypeOK
    <3>2. \A k \in Keys : draft'[k] # None => draft'[k] = draft[k]
      BY <2>3 DEF SaveDraft, Remove, TypeOK
    <3> QED
      BY <3>1, <3>2 DEF HeldInv
  <2> QED
    BY <2>1, <2>2, <2>3, StepKinds
<1> QED
  BY <1>1, <1>2, TypeInvariance, SendInvariance, PTL DEF Spec

\* A form takes its place only by being built, by a page of the same tab.
LEMMA FormsAreBuilt ==
  ASSUME TypeOK, Next, NEW t \in Tabs, page'[t].at = "form", page[t].at # "form"
  PROVE  \E act \in Actions, line \in Lines \union {None}, chosen \in SUBSET Lines :
           BuildForm(t, act, line, chosen)
<1> DEFINE Built(u) == \E act \in Actions, line \in Lines \union {None}, chosen \in SUBSET Lines :
                         BuildForm(u, act, line, chosen)
<1>1. {"create", "change", "approve"} \subseteq Actions
  BY DEF Actions
<1>2. ASSUME NEW u \in Tabs, Built(u) PROVE u = t
  BY <1>2 DEF BuildForm, TypeOK
<1>3. ASSUME NEW u \in Tabs, Index(u) PROVE FALSE
  BY <1>3 DEF Index, ListPage, TypeOK
<1>4. ASSUME NEW u \in Tabs, NEW line \in Lines \union {None}, NEW chosen \in SUBSET Lines,
             Approve(u, line, chosen)
      PROVE  Built(u)
  BY <1>1, <1>3, <1>4 DEF Approve
<1>5. ASSUME NEW u \in Tabs, TabStep(u) PROVE Built(u)
  <2>1. ASSUME ShowList(u) \/ SaveNothing(u) PROVE FALSE
    BY <1>3, <2>1 DEF ShowList, SaveNothing
  <2>2. ASSUME NEW S \in SUBSET Lines, MultiApprove(u, S) PROVE FALSE
    BY <2>2 DEF MultiApprove, TypeOK, Pages
  <2>3. CASE FollowRedirect(u)
    BY <1>4, <2>3 DEF FollowRedirect, TypeOK, Pages
  <2>4. ASSUME NEW line \in Lines \union {None}, Create(u, line) PROVE Built(u)
    BY <1>1, <2>4 DEF Create
  <2>5. ASSUME NEW line \in Lines, Change(u, line) \/ ApproveOne(u, line) PROVE Built(u)
    BY <1>1, <1>4, <2>5 DEF Change, ApproveOne
  <2>6. ASSUME NEW about \in Terms, Submit(u, about) PROVE FALSE
    BY <2>6 DEF Submit, TypeOK, Pages
  <2>7. ASSUME NEW accepted \in BOOLEAN, SaveDraft(u, accepted) PROVE FALSE
    BY <2>7 DEF SaveDraft, ListPage, TypeOK
  <2> QED
    BY <1>5, <2>1, <2>2, <2>3, <2>4, <2>5, <2>6, <2>7 DEF TabStep
<1>6. ~Elsewhere
  BY DEF Elsewhere, Delete, Plan, ChangedElsewhere
<1> QED
  BY <1>2, <1>5, <1>6 DEF Next

\* "Change" on the overview brings back what the user submitted, as long as the
\* session still holds it and the assurance is not a copy.
THEOREM EditsComeBackHolds == Spec => EditsComeBack
<1> DEFINE Reopens(t) == /\ page[t].at = "overview" /\ page'[t].at = "form"
                         /\ page'[t].act = page[t].act /\ page'[t].line = page[t].line
                         /\ page[t].act = "create" => page[t].line = None
                         /\ \E k \in Keys : draft[k] # None /\ draft[k].v = page[t].v
<1>1. ASSUME TypeOK, HeldInv, Next, NEW t \in Tabs, Reopens(t) PROVE page'[t].v = page[t].v
  <2>1. PICK act \in Actions, line \in Lines \union {None}, chosen \in SUBSET Lines :
          BuildForm(t, act, line, chosen)
    BY <1>1, FormsAreBuilt
  <2>2. page'[t].act = act /\ page'[t].line = FormLine(act, line)
        /\ page'[t].v = IF draft[FormKey(act, line)] = None THEN 0 ELSE draft[FormKey(act, line)].v
    BY <1>1, <2>1 DEF BuildForm, TypeOK
  <2>3. FormKey(act, line) = SaveKey(page[t].act, page[t].line)
    <3>1. CASE draft[FormKey(act, line)] = None
      BY <1>1, <2>2, <3>1 DEF FormKey, FormLine, SaveKey, NumberOf
    <3>2. CASE draft[FormKey(act, line)] # None
      <4>1. PICK k \in Keys : k = FormKey(act, line)
        BY KeysTyped
      <4>2. PICK d \in Drafts : d = draft[k] /\ d # None
        BY <1>1, <3>2, <4>1 DEF TypeOK
      <4>3. k = <<d.act, IF d.act = "create" THEN None ELSE NumberOf(d.line)>>
        <5>1. \A j \in Keys : draft[j] # None =>
                j = <<draft[j].act, IF draft[j].act = "create" THEN None ELSE NumberOf(draft[j].line)>>
          BY <1>1 DEF TypeOK
        <5> QED
          BY <4>2, <5>1
      <4>4. d.act = act
        BY <4>1, <4>3 DEF FormKey
      <4>5. d.line = page[t].line /\ act = page[t].act
        BY <1>1, <2>2, <4>1, <4>2 DEF FormLine
      <4> QED
        BY <4>1, <4>3, <4>4, <4>5 DEF SaveKey
    <3> QED
      BY <3>1, <3>2
  <2>4. PICK k \in Keys : draft[k] # None /\ draft[k].v = page[t].v
    BY <1>1
  <2>5. k = SaveKey(page[t].act, page[t].line)
    BY <1>1, <2>4 DEF HeldInv
  <2> QED
    BY <2>2, <2>3, <2>4, <2>5
<1>2. TypeOK /\ HeldInv /\ [Next]_vars
        => [\A t \in Tabs : Reopens(t) => page'[t].v = page[t].v]_vars
  BY <1>1
<1> QED
  BY <1>2, TypeInvariance, HeldInvariance, PTL DEF EditsComeBack, Spec
-----------------------------------------------------------------------------
(* The session as Submissions describes it.                                  *)

\* Whoever changes or approves does it to an assurance.
NamedInv ==
  /\ \A t \in Tabs : page[t].act # "create" \/ page[t].at = "redirect" => page[t].line \in Lines
  /\ \A k \in Keys : draft[k] # None /\ draft[k].act # "create" => draft[k].line \in Lines

\* The form of an assurance shows one, be it that of a draft.
LEMMA FormLineNamed ==
  ASSUME TypeOK, NamedInv, NEW act \in Actions, NEW line \in Lines, act # "create"
  PROVE  FormLine(act, line) \in Lines
<1>1. PICK k \in Keys : k = FormKey(act, line)
  BY KeysTyped
<1>2. CASE draft[k] # None
  <2>1. draft[k].act = act
    BY <1>1, <1>2 DEF TypeOK, FormKey
  <2> QED
    BY <1>1, <1>2, <2>1 DEF NamedInv, FormLine
<1> QED
  BY <1>1, <1>2 DEF FormLine

\* Every step keeps the assurances named.
LEMMA NamedStep ==
  ASSUME TypeOK, TypeOK', NamedInv, [Next]_vars
  PROVE  NamedInv'
<1> DEFINE PagesNamed == \A t \in Tabs :
             page[t].act # "create" \/ page[t].at = "redirect" => page[t].line \in Lines
           DraftsNamed == \A k \in Keys :
             draft[k] # None /\ draft[k].act # "create" => draft[k].line \in Lines
<1>1. ASSUME NEW t \in Tabs, Index(t) PROVE PagesNamed'
  BY <1>1 DEF Index, ListPage, NamedInv, TypeOK
<1>2. ASSUME NEW t \in Tabs, NEW act \in Actions, NEW line, NEW chosen,
             BuildForm(t, act, line, chosen), act # "create" => line \in Lines
      PROVE  PagesNamed'
  <2>1. act # "create" => FormLine(act, line) \in Lines
    BY <1>2, FormLineNamed
  <2>2. page' = [page EXCEPT ![t] = page'[t]] /\ page'[t].act = act /\ page'[t].at = "form"
        /\ page'[t].line = FormLine(act, line)
    BY <1>2 DEF BuildForm, TypeOK
  <2> QED
    BY <2>1, <2>2 DEF NamedInv, TypeOK
<1>3. ASSUME NEW t \in Tabs, NEW S \in SUBSET Lines, MultiApprove(t, S) PROVE PagesNamed'
  BY <1>3 DEF MultiApprove, NamedInv, TypeOK, Pages
<1>4. ASSUME NEW t \in Tabs, NEW line \in Lines, NEW chosen, Approve(t, line, chosen) PROVE PagesNamed'
  BY <1>1, <1>2, <1>4 DEF Approve, Actions
<1>5. ASSUME NEW t \in Tabs, NEW about \in Terms, Submit(t, about) PROVE NamedInv'
  <2> DEFINE act == page[t].act
             line == page[t].line
             d == [v |-> submits + 1, by |-> t, act |-> act, line |-> line, terms |-> about]
  <2>1. draft' = [draft EXCEPT ![SaveKey(act, line)] = d]
    BY <1>5 DEF Submit
  <2>2. d.act # "create" => d.line \in Lines
    BY DEF NamedInv
  <2>3. \A k \in Keys : draft'[k] = draft[k] \/ draft'[k] = d
    BY <2>1 DEF TypeOK
  <2> HIDE DEF d
  <2>4. DraftsNamed'
    BY <2>2, <2>3 DEF NamedInv
  <2>5. PagesNamed'
    BY <1>5 DEF Submit, NamedInv, TypeOK, Pages
  <2> QED
    BY <2>4, <2>5 DEF NamedInv
<1>6. ASSUME NEW t \in Tabs, NEW accepted \in BOOLEAN, SaveDraft(t, accepted) PROVE NamedInv'
  <2>1. \A k \in Keys : draft'[k] # None => draft'[k] = draft[k]
    BY <1>6 DEF SaveDraft, Remove, TypeOK
  <2>2. PagesNamed'
    BY <1>6 DEF SaveDraft, ListPage, NamedInv, TypeOK
  <2> QED
    BY <2>1, <2>2 DEF NamedInv
<1>7. Quiet => DraftsNamed'
  BY DEF Quiet, NamedInv
<1>8. ASSUME NEW t \in Tabs, TabStep(t),
             ~\E about \in Terms : Submit(t, about),
             ~\E accepted \in BOOLEAN : SaveDraft(t, accepted)
      PROVE  PagesNamed'
  <2>1. ASSUME FollowRedirect(t) PROVE PagesNamed'
    BY <1>4, <2>1 DEF FollowRedirect, NamedInv
  <2> QED
    BY <1>1, <1>2, <1>3, <1>4, <1>8, <2>1
       DEF TabStep, ShowList, SaveNothing, Create, Change, ApproveOne, Actions
<1>9. CASE Elsewhere \/ UNCHANGED vars
  BY <1>9 DEF Elsewhere, Delete, Plan, ChangedElsewhere, vars, session, NamedInv
<1> QED
  BY <1>5, <1>6, <1>7, <1>8, <1>9, StepKinds DEF Next, NamedInv

HeldNow == {HeldIn(k) : k \in {j \in Keys : draft[j] # None}}

\* A draft lies in the place of what it is for.
LEMMA HeldFor ==
  ASSUME TypeOK, NEW k \in Keys, draft[k] # None
  PROVE  /\ HeldIn(k).number = draft[k].v /\ HeldIn(k).terms = draft[k].terms
         /\ HeldIn(k).purpose = Purpose(draft[k]) /\ Purpose(draft[k]) \in Purposes
         /\ PlaceFor[Purpose(draft[k])] = k /\ draft[k] \in Drafts
<1>1. PICK d \in Drafts : d = draft[k]
  BY DEF TypeOK
<1>2. Purpose(d) \in Purposes /\ d.act \in Actions
  BY <1>1 DEF Purpose, Purposes, Drafts
<1>3. k = <<d.act, IF d.act = "create" THEN None ELSE NumberOf(d.line)>>
  BY <1>1 DEF TypeOK
<1>4. PlaceFor[Purpose(d)] = <<Purpose(d)[1], NumberOf(Purpose(d)[2])>>
  BY <1>2 DEF PlaceFor
<1>5. PlaceFor[Purpose(d)] = k
  BY <1>3, <1>4 DEF Purpose, NumberOf
<1> QED
  BY <1>1, <1>2, <1>5 DEF HeldIn

\* To remove a key is to take what it held, and no more.
LEMMA TakenAway ==
  ASSUME TypeOK, NEW k \in Keys, draft[k] # None, draft' = [draft EXCEPT ![k] = None]
  PROVE  HeldIn(k) \in HeldNow /\ HeldNow' = HeldNow \ {HeldIn(k)}
<1>1. \A j \in Keys : draft'[j] = IF j = k THEN None ELSE draft[j]
  BY DEF TypeOK
<1>2. \A j \in Keys : j # k => HeldIn(j)' = HeldIn(j)
  BY <1>1 DEF HeldIn
<1>3. \A j \in Keys : draft[j] # None /\ j # k => HeldIn(j) # HeldIn(k)
  <2> SUFFICES ASSUME NEW j \in Keys, draft[j] # None, HeldIn(j) = HeldIn(k)
               PROVE  j = k
    OBVIOUS
  <2>1. Purpose(draft[j]) = Purpose(draft[k])
    BY HeldFor
  <2> QED
    BY <2>1, HeldFor
<1> QED
  BY <1>1, <1>2, <1>3 DEF HeldNow

\* The overview of a form submits it for its purpose, in its place.
LEMMA SubmitIsSubmission ==
  ASSUME TypeOK, NEW t \in Tabs, NEW about \in Terms, Submit(t, about)
  PROVE  Held!Next
<1> DEFINE act == page[t].act
           line == page[t].line
<1>1. PICK n : n = submits + 1
  OBVIOUS
<1>2. PICK k : k = SaveKey(act, line)
  OBVIOUS
<1>3. act \in Actions /\ line \in Lines \union {None}
  BY DEF TypeOK, Pages
<1>4. k \in Keys
  BY <1>2, <1>3, KeysTyped
<1>5. PICK d : d = [v |-> n, by |-> t, act |-> act, line |-> line, terms |-> about]
  OBVIOUS
<1>6. /\ draft' = [draft EXCEPT ![k] = d] /\ submits' = n /\ sends' = sends /\ terms' = terms
  BY <1>1, <1>2, <1>5 DEF Submit, history
<1>7. d # None
  <2>1. n \in Versions
    BY <1>1, BoundsAssumption DEF Submit, TypeOK, Versions
  <2>2. d \in Drafts
    BY <1>3, <1>5, <2>1 DEF Drafts
  <2> QED
    BY <2>2, NoDraftAssumption
<1>8. PICK p \in Purposes : p = Purpose(d)
  <2>1. d.act \in Actions /\ d.line \in Lines \union {None}
    BY <1>3, <1>5
  <2>2. <<d.act, IF d.act = "create" THEN None ELSE d.line>> \in Purposes
    BY <2>1 DEF Purposes
  <2> QED
    BY <2>2 DEF Purpose
<1>9. PlaceFor[p] = k
  <2>1. PlaceFor[p] = <<p[1], NumberOf(p[2])>>
    BY DEF PlaceFor
  <2>2. p[1] = act /\ p[2] = IF act = "create" THEN None ELSE line
    BY <1>5, <1>8 DEF Purpose
  <2> QED
    BY <1>2, <2>1, <2>2 DEF SaveKey, NumberOf
<1>10. \A j \in Keys : draft'[j] = IF j = k THEN d ELSE draft[j]
  BY <1>6 DEF TypeOK
<1>11. HeldIn(k)' = [number |-> n, purpose |-> p, terms |-> about]
  <2>1. HeldIn(k)' = [number |-> d.v, purpose |-> Purpose(d), terms |-> d.terms]
    BY <1>4, <1>10 DEF HeldIn, Purpose
  <2> QED
    BY <1>5, <1>8, <2>1
<1>12. \A j \in Keys : j # k => HeldIn(j)' = HeldIn(j)
  BY <1>10 DEF HeldIn
<1>13. \A j \in Keys : draft[j] # None => PlaceFor[HeldIn(j).purpose] = j
  BY HeldFor
<1>14. HeldNow' = {s \in HeldNow : PlaceFor[s.purpose] # PlaceFor[p]}
                  \union {[number |-> n, purpose |-> p, terms |-> about]}
  <2>1. \A j \in Keys : draft'[j] # None <=> (j = k \/ draft[j] # None)
    BY <1>7, <1>10
  <2> QED
    BY <1>4, <1>9, <1>11, <1>12, <1>13, <2>1 DEF HeldNow
<1>15. Held!Submit(p, about)
  BY <1>1, <1>6, <1>14 DEF Held!Submit, HeldNow
<1> QED
  BY <1>15 DEF Held!Next

\* Saving sends what is held for the purpose of the overview, for the assurances it may be
\* sent for.
LEMMA SaveIsSending ==
  ASSUME TypeOK, SendInv, NamedInv, NEW t \in Tabs, NEW accepted \in BOOLEAN,
         SaveDraft(t, accepted)
  PROVE  Held!Next
<1>0. SaveKey(page[t].act, page[t].line) \in Keys
  BY KeysTyped DEF TypeOK, Pages
<1>1. PICK k \in Keys : k = SaveKey(page[t].act, page[t].line)
  BY <1>0
<1>2. PICK d \in Drafts : d = draft[k] /\ d # None
  BY <1>1 DEF SaveDraft, TypeOK
<1>3. /\ draft' = [draft EXCEPT ![k] = None] /\ submits' = submits
      /\ sends' = [sends EXCEPT ![d.v] = @ + 1]
      /\ Updated(d) \/ terms' = terms
  BY <1>1, <1>2 DEF SaveDraft, Remove
<1>4. d.v \in Versions /\ sends[d.v] = 0 /\ d.act \in Actions
  BY <1>2 DEF SendInv, Drafts
<1>5. {v \in Versions : sends'[v] > 0} = {v \in Versions : sends[v] > 0} \union {d.v}
  BY <1>3, <1>4 DEF TypeOK
<1>6. PICK S \in SUBSET Lines : S = Targets(d)
  <2>1. d.act # "create" => d.line \in Lines
    BY <1>2 DEF NamedInv
  <2> QED
    BY <2>1 DEF Targets, TypeOK
<1>7. S \in AboutFor[Purpose(d)]
  <2>1. Purpose(d) \in Purposes /\ Purpose(d)[1] = d.act
        /\ (d.act # "create" => Purpose(d)[2] = d.line)
    BY <1>2, HeldFor DEF Purpose
  <2>2. S = {} <=> d.act = "create"
    BY <1>6 DEF Targets
  <2>3. d.act = "change" => S = {d.line}
    BY <1>6 DEF Targets
  <2> QED
    BY <2>1, <2>2, <2>3 DEF AboutFor
<1>8. PICK s : s = HeldIn(k)
  OBVIOUS
<1>9. s.number = d.v /\ s.purpose = Purpose(d) /\ s.terms = d.terms
  BY <1>2, <1>8, HeldFor
<1>10. s \in HeldNow /\ HeldNow' = HeldNow \ {s}
  BY <1>2, <1>3, <1>8, TakenAway
<1>11. \/ terms' = [i \in Lines |-> IF i \in S THEN s.terms ELSE terms[i]]
       \/ terms' = terms
  BY <1>3, <1>6, <1>9 DEF Updated
<1>12. Held!Send(s, S)
  BY <1>3, <1>4, <1>5, <1>9, <1>10, <1>11 DEF Held!Send, HeldNow
<1> QED
  BY <1>7, <1>9, <1>10, <1>12 DEF Held!Next, HeldNow

\* A form that is opened takes back what is held for its purpose.
LEMMA FormTakesBack ==
  ASSUME TypeOK, NEW t \in Tabs, NEW act \in Actions, NEW line \in Lines \union {None},
         NEW chosen, BuildForm(t, act, line, chosen), UNCHANGED <<submits, sends, terms>>
  PROVE  [Held!Next]_(Held!vars)
<1>1. PICK k \in Keys : k = FormKey(act, line)
  BY KeysTyped
<1>2. draft' = [draft EXCEPT ![k] = None]
  BY <1>1 DEF BuildForm
<1>3. CASE draft[k] = None
  <2>1. draft' = draft
    BY <1>2, <1>3 DEF TypeOK
  <2> QED
    BY <2>1 DEF Held!vars, HeldIn
<1>4. CASE draft[k] # None
  <2>1. PICK s : s = HeldIn(k)
    OBVIOUS
  <2>2. s \in HeldNow /\ HeldNow' = HeldNow \ {s}
    BY <1>2, <1>4, <2>1, TakenAway
  <2>3. Held!TakeBack(s)
    BY <2>2 DEF Held!TakeBack, HeldNow
  <2> QED
    BY <2>2, <2>3 DEF Held!Next, HeldNow
<1> QED
  BY <1>3, <1>4

\* Every step of the wizard is one of the submissions, of others, or none.
LEMMA SubmissionsStep ==
  ASSUME TypeOK, SendInv, NamedInv, [Next]_vars
  PROVE  [Held!Next]_(Held!vars)
<1>1. ASSUME UNCHANGED <<draft, submits, sends, terms>>
      PROVE  [Held!Next]_(Held!vars)
  BY <1>1 DEF Held!vars, HeldIn
<1>2. ASSUME NEW t \in Tabs, NEW line \in Lines, NEW chosen, Approve(t, line, chosen)
      PROVE  [Held!Next]_(Held!vars)
  <2>1. CASE BuildForm(t, "approve", line, chosen)
    BY <1>2, <2>1, FormTakesBack DEF Approve, Actions
  <2>2. CASE UNCHANGED draft
    BY <1>1, <1>2, <2>2 DEF Approve
  <2> QED
    BY <1>2, <2>1, <2>2 DEF Approve
<1>3. ASSUME NEW t \in Tabs, FollowRedirect(t)
      PROVE  [Held!Next]_(Held!vars)
  BY <1>2, <1>3 DEF FollowRedirect, NamedInv
<1>4. ASSUME NEW t \in Tabs, NEW line \in Lines \union {None}, Create(t, line)
      PROVE  [Held!Next]_(Held!vars)
  BY <1>4, FormTakesBack DEF Create, history, Actions
<1>5. ASSUME NEW t \in Tabs, NEW line \in Lines, Change(t, line)
      PROVE  [Held!Next]_(Held!vars)
  BY <1>5, FormTakesBack DEF Change, history, Actions
<1>6. ASSUME NEW t \in Tabs, ShowList(t) \/ SaveNothing(t) \/ \E S \in SUBSET Lines : MultiApprove(t, S)
      PROVE  [Held!Next]_(Held!vars)
  BY <1>1, <1>6 DEF ShowList, SaveNothing, MultiApprove, session, history
<1>7. ASSUME NEW i \in Lines, NEW about \in Terms, ChangedElsewhere(i, about)
      PROVE  [Held!Next]_(Held!vars)
  <2>1. /\ terms' = [terms EXCEPT ![i] = about]
        /\ UNCHANGED <<draft, submits, sends>>
    BY <1>7 DEF ChangedElsewhere, session, history
  <2>2. Held!ByOthers(i, about)
    BY <2>1 DEF Held!ByOthers, HeldIn
  <2> QED
    BY <2>2 DEF Held!Next
<1>8. ASSUME NEW i \in Lines, Delete(i) \/ Plan(i)
      PROVE  [Held!Next]_(Held!vars)
  BY <1>1, <1>8 DEF Delete, Plan, session, history
<1>9. CASE UNCHANGED vars
  BY <1>1, <1>9 DEF vars, session, history
<1>10. CASE Elsewhere
  BY <1>7, <1>8, <1>10 DEF Elsewhere
<1>11. ASSUME NEW t \in Tabs, TabStep(t)
       PROVE  [Held!Next]_(Held!vars)
  BY <1>2, <1>3, <1>4, <1>5, <1>6, <1>11, SubmitIsSubmission, SaveIsSending
     DEF TabStep, ApproveOne
<1> QED
  BY <1>9, <1>10, <1>11 DEF Next

\* Whatever the tabs of a session do to its keys, it holds and sends submissions.
THEOREM WizardImplementsSubmissions == Spec => ImplementsSubmissions
<1>1. Init => Held!Init
  BY DEF Init, Held!Init
<1>2. Init => NamedInv
  BY DEF Init, NamedInv, ListPage
<1> QED
  BY <1>1, <1>2, NamedStep, SubmissionsStep, SendInvariance, TypeInvariance, PTL
     DEF Spec, ImplementsSubmissions, Held!Spec
=============================================================================
