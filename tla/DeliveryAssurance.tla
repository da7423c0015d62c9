--------------------------- MODULE DeliveryAssurance ---------------------------
(***************************************************************************)
(* The wizard in which a supplier creates, changes and approves delivery   *)
(* assurances (DeliveryAssurancePageController): list, form, overview,     *)
(* save.  The overview shows what the user submitted; the submitted draft  *)
(* itself stays in the ASP.NET session, and saving posts its key only.  An *)
(* assurance is a line of an order with a number, the key is made of the   *)
(* action and the number: the lines of one number share their drafts.      *)
(* Several assurances are approved with one form: the list of them travels *)
(* through TempData to the form and through the session to the save.       *)
(*                                                                         *)
(* One session is modelled, with the browser tabs that share it.  ASP.NET  *)
(* locks the session for the whole of a request, awaited calls included,   *)
(* so a handler is one step; everybody else reaches the assurances through *)
(* the back end between two steps.  The pages are not cached: a tab that   *)
(* goes back asks for the page again.                                      *)
(***************************************************************************)
EXTENDS Naturals

CONSTANTS
  Tabs,        \* the browser tabs of the session
  Lines,       \* the assurances: the lines of the orders (IONumber, LineNumber)
  Numbers,     \* the numbers of the orders (IONumber)
  Number,      \* Number[line]: the number of the order of a line
  Terms,       \* what must be equal to approve together: article, date, pickup
  MaxSubmits,  \* bound: the number of forms submitted
  MaxMoves,    \* bound: the number of changes made elsewhere
  None         \* no number, no draft, no tab, nothing saved

ASSUME NumberAssumption == Number \in [Lines -> Numbers]
ASSUME NoneAssumption == None \notin Lines \union Numbers \union Tabs
ASSUME BoundsAssumption == MaxSubmits \in Nat /\ MaxMoves \in Nat

VARIABLES
  status,      \* back end: "open" to changes, "planned" (too late) or "gone"
  terms,       \* back end: terms[i], what i is about
  draft,       \* Session: the draft under every key
  approving,   \* Session["MultiApprove"], {} when it is not set
  following,   \* TempData["MultiApprove"], {} when it is not set
  page,        \* page[t]: the page tab t shows
  listed,      \* listed[t]: the rows of the list of tab t, with their terms
  submits,     \* the number of forms submitted (bounded by MaxSubmits)
  moves,       \* the number of changes made elsewhere (bounded by MaxMoves)
  sends,       \* history: sends[v]: how often draft v was sent to the back end
  chooser      \* history: the tab whose latest approval form set approving; None
               \* when that form took a list which was not sent to it, or the
               \* draft of an assurance that was not chosen

session == <<draft, approving, following>>
history == <<sends, chooser>>
vars == <<status, terms, session, page, listed, submits, moves, history>>

Actions == {"create", "change", "approve"}
Statuses == {"open", "planned", "gone"}
Versions == 1..MaxSubmits
Keys == Actions \X (Numbers \union {None})
Drafts == [v : Versions, by : Tabs, act : Actions, line : Lines \union {None}, terms : Terms]
Pages == [at : {"list", "redirect", "form", "overview", "confirmation"},
          act : Actions, line : Lines \union {None}, v : Versions \union {0},
          chosen : SUBSET Lines]

ASSUME NoDraftAssumption == None \notin Drafts

\* A new assurance has no number yet.
NumberOf(line) == IF line = None THEN None ELSE Number[line]

Lists == UNION {[S -> Terms] : S \in SUBSET Lines}

TypeOK ==
  /\ status \in [Lines -> Statuses] /\ terms \in [Lines -> Terms]
  /\ draft \in [Keys -> Drafts \union {None}]
  /\ approving \subseteq Lines /\ following \subseteq Lines
  /\ page \in [Tabs -> Pages] /\ listed \in [Tabs -> Lists]
  /\ submits \in 0..MaxSubmits /\ moves \in 0..MaxMoves
  /\ sends \in [Versions -> Nat]
  /\ chooser \in Tabs \union {None}
  /\ \A k \in Keys : draft[k] # None =>
       k = <<draft[k].act, IF draft[k].act = "create" THEN None ELSE NumberOf(draft[k].line)>>

ListPage == [at |-> "list", act |-> "create", line |-> None, v |-> 0,
             chosen |-> {}]

Init ==
  /\ status = [i \in Lines |-> "open"] /\ terms \in [Lines -> Terms]
  /\ draft = [k \in Keys |-> None]
  /\ approving = {} /\ following = {}
  /\ page = [t \in Tabs |-> ListPage] /\ listed = [t \in Tabs |-> terms]
  /\ submits = 0 /\ moves = 0 /\ sends = [v \in Versions |-> 0]
  /\ chooser = None

-----------------------------------------------------------------------------
(* The list.                                                                 *)

Index(t) ==
  /\ page' = [page EXCEPT ![t] = ListPage]
  /\ listed' = [listed EXCEPT ![t] = [i \in {j \in Lines : status[j] # "gone"} |-> terms[i]]]

\* Any page leads back to the list; so does a form that is refused.
ShowList(t) ==
  /\ Index(t)
  /\ UNCHANGED <<status, terms, session, submits, moves, history>>

\* The posted list must be about the same thing, as the page was rendered.
Alike(S, about) == \A i, j \in S : about[i] = about[j]

\* The selected assurances are put into TempData, and the answer redirects to
\* the form of the first of them.
MultiApprove(t, S) ==
  /\ page[t].at = "list" /\ S # {} /\ S \subseteq DOMAIN listed[t]
  /\ Alike(S, listed[t])
  /\ following' = S
  /\ \E first \in S :
       page' = [page EXCEPT ![t] = [@ EXCEPT !.at = "redirect", !.act = "approve",
                                             !.line = first, !.chosen = S]]
  /\ UNCHANGED <<status, terms, draft, approving, listed, submits, moves, history>>

-----------------------------------------------------------------------------
(* The form.                                                                 *)

\* Variant: the form looks for the draft of any action.
FormKeyShared(act, line) == <<"create", NumberOf(line)>>
\* Variant: the draft is stored by number only.
SaveKeyShared(act, line) == <<"change", IF act = "create" THEN None ELSE NumberOf(line)>>

\* The key the form looks the user's own draft up by, and the key the overview
\* stores it under: the form of a copy is filled from the copied assurance, but
\* does not post its number.
FormKey(act, line) == <<act, NumberOf(line)>>
SaveKey(act, line) == <<act, IF act = "create" THEN None ELSE NumberOf(line)>>

\* The form is the draft's, with its assurance, if there is one under the key.
FormLine(act, line) ==
  LET d == draft[FormKey(act, line)] IN IF d = None THEN line ELSE d.line

\* The form is filled from the draft if there is one, and takes it away.
BuildForm(t, act, line, chosen) ==
  LET d == draft[FormKey(act, line)] IN
  /\ page' = [page EXCEPT ![t] =
       [at |-> "form", act |-> act, line |-> FormLine(act, line),
        v |-> IF d = None THEN 0 ELSE d.v, chosen |-> chosen]]
  /\ draft' = [draft EXCEPT ![FormKey(act, line)] = None]

\* A new assurance, or a copy of an existing one.
Create(t, line) ==
  /\ line \in Lines => status[line] # "gone"
  /\ BuildForm(t, "create", line, {})
  /\ UNCHANGED <<status, terms, approving, following, listed, submits, moves, history>>

Change(t, line) ==
  /\ status[line] \notin {"gone", "planned"}
  /\ BuildForm(t, "change", line, {})
  /\ UNCHANGED <<status, terms, approving, following, listed, submits, moves, history>>

\* Variant: the session keeps the list of an earlier approval.
TakeListKept == IF following = {} THEN approving ELSE following

\* The list in TempData replaces the one in the session; without one the list in
\* the session is removed.  That is done before the assurance is read, which may
\* fail or find nothing: back to the list.
TakeList == following

Approve(t, line, chosen) ==
  /\ approving' = TakeList /\ following' = {}
  /\ chooser' = IF /\ following = chosen \/ (following = {} /\ chosen = {line})
                   /\ FormLine("approve", line) \in chosen
                  THEN t ELSE None
  /\ \/ status[line] # "gone" /\ BuildForm(t, "approve", line, chosen) /\ UNCHANGED listed
     \/ Index(t) /\ UNCHANGED draft
  /\ UNCHANGED <<status, terms, submits, moves, sends>>

\* The link of a row (or "change" on the overview): one assurance.
ApproveOne(t, line) == Approve(t, line, {line})

\* The browser follows the redirect of MultiApprove.
FollowRedirect(t) == page[t].at = "redirect" /\ Approve(t, page[t].line, page[t].chosen)

-----------------------------------------------------------------------------
(* The overview.                                                             *)

\* Submit: the draft goes to the session, and the overview is shown.  The user may
\* have changed the terms.  To reload the overview is to post the form once more.
Submit(t, about) ==
  /\ page[t].at \in {"form", "overview"} /\ submits < MaxSubmits
  /\ submits' = submits + 1
  /\ LET act == page[t].act
         line == page[t].line IN
       /\ draft' = [draft EXCEPT ![SaveKey(act, line)] =
            [v |-> submits + 1, by |-> t, act |-> act, line |-> line, terms |-> about]]
       /\ page' = [page EXCEPT ![t] =
            [@ EXCEPT !.at = "overview", !.v = submits + 1]]
  /\ UNCHANGED <<status, terms, approving, following, listed, moves, history>>

-----------------------------------------------------------------------------
(* Saving.                                                                   *)

\* The assurances the update names: the list, or the one of the draft.
Targets(d) ==
  IF d.act = "create" THEN {}
  ELSE IF d.act = "approve" /\ approving # {} THEN approving ELSE {d.line}

\* The back end executes the update (external): what the draft says is recorded
\* for every assurance it names.
Updated(d) == terms' = [i \in Lines |-> IF i \in Targets(d) THEN d.terms ELSE terms[i]]

\* Variant: the draft is removed only when the back end has accepted it.
RemoveAccepted(k, accepted) ==
  draft' = IF accepted THEN [draft EXCEPT ![k] = None] ELSE draft

\* Session.Remove, before the update.
Remove(k, accepted) == draft' = [draft EXCEPT ![k] = None]

\* The draft under the posted key is sent.  The back end may fail, with or
\* without effect.  The tab gets the confirmation, or stays where it is and may
\* post again (a double click, a lost answer).
SaveDraft(t, accepted) ==
  LET k == SaveKey(page[t].act, page[t].line)
      d == draft[k] IN
  /\ page[t].at = "overview" /\ d # None
  /\ d.act # "create" => status[d.line] # "gone"
  /\ Remove(k, accepted)
  /\ approving' = IF d.act = "approve" THEN {} ELSE approving
  /\ Updated(d) \/ (~accepted /\ UNCHANGED terms)
  /\ page' \in {page, [page EXCEPT ![t] = [ListPage EXCEPT !.at = "confirmation"]]}
  /\ sends' = [sends EXCEPT ![d.v] = @ + 1]
  /\ chooser' = IF d.act = "approve" THEN None ELSE chooser
  /\ UNCHANGED <<status, following, listed, submits, moves>>

\* There is no draft any more: back to the list.
SaveNothing(t) ==
  /\ page[t].at = "overview"
  /\ draft[SaveKey(page[t].act, page[t].line)] = None
  /\ Index(t)
  /\ UNCHANGED <<status, terms, session, submits, moves, history>>

\* (When the assurance cannot be read again, because it is gone or the service
\* fails, the handler throws before it has changed anything: no step.)

-----------------------------------------------------------------------------
(* Deleting a row, here or elsewhere; the transport planning; colleagues.    *)

Move == moves < MaxMoves /\ moves' = moves + 1

Delete(i) ==
  /\ Move
  /\ status' = [status EXCEPT ![i] = "gone"]
  /\ UNCHANGED <<terms, session, page, listed, submits, history>>

Plan(i) ==
  /\ Move /\ status[i] = "open"
  /\ status' = [status EXCEPT ![i] = "planned"]
  /\ UNCHANGED <<terms, session, page, listed, submits, history>>

ChangedElsewhere(i, about) ==
  /\ Move /\ status[i] # "gone" /\ about # terms[i]
  /\ terms' = [terms EXCEPT ![i] = about]
  /\ UNCHANGED <<status, session, page, listed, submits, history>>

TabStep(t) ==
  \/ ShowList(t)
  \/ \E S \in SUBSET Lines : MultiApprove(t, S)
  \/ FollowRedirect(t)
  \/ \E line \in Lines \union {None} : Create(t, line)
  \/ \E line \in Lines : Change(t, line) \/ ApproveOne(t, line)
  \/ \E about \in Terms : Submit(t, about)
  \/ \E accepted \in BOOLEAN : SaveDraft(t, accepted)
  \/ SaveNothing(t)

Elsewhere ==
  \E i \in Lines : \/ Delete(i) \/ Plan(i)
                 \/ \E about \in Terms : ChangedElsewhere(i, about)

Next == Elsewhere \/ \E t \in Tabs : TabStep(t)

Spec == Init /\ [][Next]_vars

-----------------------------------------------------------------------------
(* Properties.                                                               *)

\* What was submitted once is sent to the back end at most once, through double
\* clicks, posts repeated after a failure, and other tabs that save under the
\* same key.
SentOnce == \A v \in Versions : sends[v] <= 1

Saves(t) == \E accepted \in BOOLEAN : SaveDraft(t, accepted)
\* The draft that saving sends from the overview of t.
Sent(t) == draft[SaveKey(page[t].act, page[t].line)]

\* A save sends what its own overview shows, or what another tab has submitted
\* since for the same action under the same number; never what was submitted
\* before the overview, for another action, or under another number.
SavesWhatItShows ==
  [][\A t \in Tabs : Saves(t) =>
       /\ Sent(t).act = page[t].act
       /\ page[t].act # "create" => NumberOf(Sent(t).line) = NumberOf(page[t].line)
       /\ \/ Sent(t).v = page[t].v /\ Sent(t).line = page[t].line
          \/ Sent(t).v > page[t].v /\ Sent(t).by # t]_vars

\* An approval is for the assurances the user chose for this form, whatever was
\* approved or given up before in the session, unless another tab has approved
\* since, or the form took a list that was meant for another one or the draft of
\* an assurance that was not chosen.
ApprovesWhatWasChosen ==
  [][\A t \in Tabs :
       Saves(t) /\ page[t].act = "approve" /\ chooser = t /\ Sent(t).by = t
         => Targets(Sent(t)) = page[t].chosen]_vars

\* "Change" on the overview brings back what the user submitted, as long as the
\* session still holds it and the assurance is not a copy.
EditsComeBack ==
  [][\A t \in Tabs :
       /\ page[t].at = "overview" /\ page'[t].at = "form"
       /\ page'[t].act = page[t].act /\ page'[t].line = page[t].line
       /\ page[t].act = "create" => page[t].line = None
       /\ \E k \in Keys : draft[k] # None /\ draft[k].v = page[t].v
       => page'[t].v = page[t].v]_vars

\* Whatever the tabs do to the keys of the session, it holds what was submitted for a
\* purpose (an action on an assurance) until that is sent, taken back into a form, or
\* replaced by a submission for the same action under the same number, and sends it for
\* what its purpose allows: the lines of a number share their place, but a change of one
\* is not recorded for another, nor lost to an approval, a new one or another number's.
Purpose(d) == <<d.act, IF d.act = "create" THEN None ELSE d.line>>
HeldIn(k) == [number |-> draft[k].v, purpose |-> Purpose(draft[k]), terms |-> draft[k].terms]

Purposes == Actions \X (Lines \union {None})
PlaceFor == [p \in Purposes |-> <<p[1], NumberOf(p[2])>>]
AboutFor == [p \in Purposes |-> {S \in SUBSET Lines : /\ S = {} <=> p[1] = "create"
                                                     /\ p[1] = "change" => S = {p[2]}}]

Held == INSTANCE Submissions WITH
  Assurances <- Lines,
  Place <- PlaceFor,
  About <- AboutFor,
  held <- {HeldIn(k) : k \in {j \in Keys : draft[j] # None}},
  last <- submits,
  sent <- {v \in Versions : sends[v] > 0},
  record <- terms

ImplementsSubmissions == Held!Spec

\* "Du kan endast godkänna leveransförsäkran med samma artikel, datum och
\* leveransvillkor": what the form of an assurance approves is about the same
\* article, date and terms of delivery as that assurance.
ApprovedAreAlike ==
  [][\A t \in Tabs :
       Saves(t) /\ page[t].act = "approve"
         => Alike(Targets(Sent(t)) \union {page[t].line}, terms)]_vars
=============================================================================
