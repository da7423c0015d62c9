----------------------------- MODULE MessageInbox -----------------------------
(***************************************************************************)
(* The list of a user's messages: one browser page with three tabs (inbox, *)
(* starred, trash), the store that remembers per tab the page and the      *)
(* messages selected, and the message hub behind UserMessagingController.  *)
(* The page talks to the server by requests that are executed and answered *)
(* in any order; a request that fails is never heard of again              *)
(* (messageServices.tsx), although the server may still execute it.  A     *)
(* call of the hub that fails is masked on the server: a list comes out    *)
(* empty, and an operation is answered as not done, done or not.           *)
(* A message is its rank in the hub's order.  Left out: categories, the    *)
(* read mark, the archive (no operation of the page leads there), the view *)
(* of one message, and the phone layout that appends pages.                *)
(***************************************************************************)
EXTENDS Naturals, FiniteSets

CONSTANTS
  Messages,    \* the messages of the user, as numbers in the order of the hub
  PageSize,    \* messages on a page
  Slots,       \* bound: places for the requests under way at once
  MaxActs,     \* bound: requests that change messages
  MaxFails,    \* bound: requests, and calls of the hub, that fail
  None         \* no request

ASSUME InboxAssumption ==
  /\ Messages \subseteq Nat /\ IsFiniteSet(Messages)
  /\ PageSize \in Nat \ {0} /\ MaxActs \in Nat /\ MaxFails \in Nat

VARIABLES
  status,      \* message hub: status[m]
  tab,         \* the tab of the route, this.props of MessageTabContent
  loaded,      \* isLoaded: the components render again
  view,        \* what is rendered: a list, see Views
  disabled,    \* the list shows the spinner and takes no clicks
  page,        \* globalStore: page[t], the page of tab t
  remembered,  \* globalStore: remembered[t], the messages selected in tab t
  sent,        \* sent[i]: a request under way, see Loads and Acts, or None
  acts,        \* the number of requests that change messages (by MaxActs)
  fails,       \* the number of failures (bounded by MaxFails)
  lost,        \* history: a request failed
  unseen,      \* history: since messages were asked for last, an operation was done and
               \* the page was, or will be, told nothing of it
  raced        \* history: such a request was sent while another was under way, or the
               \* user went on from rows that were not the latest asked for, or unseen

store == <<page, remembered>>
failures == <<fails, lost>>
vars == <<status, tab, loaded, view, disabled, store, sent, acts, failures, unseen, raced>>

Tabs == {"inbox", "starred", "trash"}
Statuses == {"default", "starred", "trash", "deleted"}
Ops == {"star", "unstar", "trash", "inbox", "delete"}

\* A rendered list: the tab it has its buttons from, the tab its messages were
\* asked for, whether that was the latest time messages were asked for, and whether
\* the answer hid that a call of the hub had failed (history).
Views == [type : Tabs, of : Tabs, rows : SUBSET Messages, stars : SUBSET Messages,
          selected : SUBSET Messages, total : Nat, newest : BOOLEAN, masked : BOOLEAN]
\* The messages are read, then counted.
Loads == [op : {"load"}, type : Tabs, page : Nat, rows : SUBSET Messages,
          stars : SUBSET Messages, total : Nat, newest : BOOLEAN, masked : BOOLEAN,
          phase : {"sent", "counting", "answered"}]
\* "type" is the tab at the click; "live" tells that the rows of the click are
\* still the ones shown.
Acts == [op : Ops, type : Tabs, msgs : SUBSET Messages, ok : BOOLEAN,
         live : BOOLEAN, phase : {"sent", "answered", "dropped"}]

\* What the hub is asked for.
Tasks == [op : Ops, msgs : SUBSET Messages]

ASSUME NoneAssumption == None \notin Loads \union Acts \union Tasks

TypeOK ==
  /\ status \in [Messages -> Statuses]
  /\ tab \in Tabs /\ loaded \in BOOLEAN /\ disabled \in BOOLEAN
  /\ view \in Views /\ view.selected \subseteq view.rows /\ view.stars \subseteq view.rows
  /\ page \in [Tabs -> 1..(Cardinality(Messages) + 1)]
  /\ remembered \in [Tabs -> SUBSET Messages]
  /\ sent \in [Slots -> Loads \union Acts \union {None}]
  /\ acts \in 0..MaxActs /\ fails \in 0..MaxFails
  /\ lost \in BOOLEAN /\ unseen \in BOOLEAN /\ raced \in BOOLEAN

IsLoad(i) == sent[i] # None /\ sent[i].op = "load"
IsAct(i) == sent[i] # None /\ sent[i].op # "load"

------------------------------------------------------------------------------
(* The message hub, as UserMessagingController asks it.                      *)

InTab(t) == {m \in Messages :
               status[m] \in CASE t = "inbox" -> {"default", "starred"}
                               [] t = "starred" -> {"starred"}
                               [] t = "trash" -> {"trash"}}

OnPage(t, p) == {m \in InTab(t) :
                   Cardinality({k \in InTab(t) : k < m}) \div PageSize = p - 1}

StatusAfter(op) == CASE op = "star" -> "starred"
                     [] op = "trash" -> "trash"
                     [] op = "delete" -> "deleted"
                     [] op \in {"unstar", "inbox"} -> "default"

MayFail(failed) ==
  /\ failed => fails < MaxFails
  /\ fails' = IF failed THEN fails + 1 ELSE fails
  /\ UNCHANGED lost

\* The two calls of the hub.  One that fails gives no messages, or none counted
\* (`masked`); without messages the answer has no total either.
ReadMessages(i, failed) ==
  /\ IsLoad(i) /\ sent[i].phase = "sent"
  /\ sent' = [sent EXCEPT ![i].phase = "counting",
                          ![i].rows = IF failed THEN {} ELSE OnPage(sent[i].type, sent[i].page),
                          ![i].stars = {m \in OnPage(sent[i].type, sent[i].page) :
                                          status[m] = "starred"},
                          ![i].masked = failed]
  /\ MayFail(failed)
  /\ UNCHANGED <<status, tab, loaded, view, disabled, store, acts, unseen, raced>>

CountMessages(i, failed) ==
  /\ IsLoad(i) /\ sent[i].phase = "counting"
  /\ sent' = [sent EXCEPT ![i].phase = "answered",
                          ![i].total = IF failed \/ sent[i].masked THEN 0
                                       ELSE Cardinality(InTab(sent[i].type)),
                          ![i].masked = sent[i].masked \/ failed]
  /\ MayFail(failed)
  /\ UNCHANGED <<status, tab, loaded, view, disabled, store, acts, unseen, raced>>

\* The page no longer waits for a dropped request.
Served(i, ok) ==
  sent' = [sent EXCEPT ![i] = IF @.phase = "dropped" THEN None
                              ELSE [@ EXCEPT !.phase = "answered", !.ok = ok]]

\* The operation is done, and the page told so; or the hub's answer is lost, and the
\* operation is answered as not done.  (Without an answer to the removal of a star the
\* request fails: see Fail.)
Execute(i, told) ==
  /\ IsAct(i) /\ sent[i].phase \in {"sent", "dropped"}
  /\ sent[i].op = "unstar" => told
  /\ status' = [m \in Messages |-> IF m \in sent[i].msgs THEN StatusAfter(sent[i].op)
                                   ELSE status[m]]
  /\ Served(i, told)
  /\ unseen' = (unseen \/ ~told \/ sent[i].phase = "dropped")
  /\ MayFail(~told)
  /\ UNCHANGED <<tab, loaded, view, disabled, store, acts, raced>>

Refuse(i) ==
  /\ IsAct(i) /\ sent[i].phase \in {"sent", "dropped"}
  /\ Served(i, FALSE)
  /\ UNCHANGED <<status, tab, loaded, view, disabled, store, acts, failures, unseen, raced>>

------------------------------------------------------------------------------
(* MessageTabContent: asking for messages.                                   *)

LoadOf(t) == [op |-> "load", type |-> t, page |-> page'[t], rows |-> {}, stars |-> {},
              total |-> 0, newest |-> TRUE, masked |-> FALSE, phase |-> "sent"]

\* The messages of tab t are asked for with request i; what is shown, and every
\* earlier request for messages, is no longer the latest.
GetMessages(i, t) ==
  /\ sent' = [j \in Slots |-> IF j = i THEN LoadOf(t)
                              ELSE IF IsLoad(j) THEN [sent[j] EXCEPT !.newest = FALSE]
                              ELSE sent[j]]
  /\ disabled' = TRUE
  /\ unseen' = FALSE

OpenTab(t) ==
  /\ t # tab
  /\ tab' = t
  /\ loaded' = FALSE
  /\ view' = [view EXCEPT !.newest = FALSE]
  /\ \E i \in Slots : sent[i] = None /\ page' = page /\ GetMessages(i, t)
  /\ UNCHANGED <<status, remembered, acts, failures, raced>>

PagesOf(total) == (total + PageSize - 1) \div PageSize

\* The pager lists every page; a list without messages has no pager.
TurnPage(p) ==
  /\ ~disabled /\ view.rows # {}
  /\ p \in 1..PagesOf(view.total)
  /\ page' = [page EXCEPT ![tab] = p]
  /\ view' = [view EXCEPT !.newest = FALSE]
  /\ \E i \in Slots : sent[i] = None /\ GetMessages(i, tab)
  /\ raced' = (raced \/ ~view.newest \/ unseen)
  /\ UNCHANGED <<status, tab, loaded, remembered, acts, failures>>

\* An answer without a total is an empty list.
RowsIn(r) == IF r.total = 0 THEN {} ELSE r.rows

\* Variant: whatever is remembered for the tab is selected.
LoadAnsweredAll(i) ==
  /\ IsLoad(i) /\ sent[i].phase = "answered"
  /\ LET r == sent[i] IN
       view' = [type |-> tab, of |-> r.type, rows |-> RowsIn(r),
                stars |-> RowsIn(r) \intersect r.stars, selected |-> remembered[r.type],
                total |-> r.total, newest |-> r.newest, masked |-> r.masked]
  /\ loaded' = TRUE /\ disabled' = FALSE
  /\ sent' = [sent EXCEPT ![i] = None]
  /\ UNCHANGED <<status, tab, store, acts, failures, unseen, raced>>

\* The answer is put on the page whichever tab is shown by now; the messages
\* remembered are those of the tab it was asked for.
LoadAnswered(i) ==
  /\ IsLoad(i) /\ sent[i].phase = "answered"
  /\ LET r == sent[i] IN
       view' = [type |-> tab, of |-> r.type, rows |-> RowsIn(r),
                stars |-> RowsIn(r) \intersect r.stars,
                selected |-> RowsIn(r) \intersect remembered[r.type],
                total |-> r.total, newest |-> r.newest, masked |-> r.masked]
  /\ loaded' = TRUE
  /\ disabled' = FALSE
  /\ sent' = [j \in Slots |-> IF j = i THEN None
                              ELSE IF IsAct(j) THEN [sent[j] EXCEPT !.live = FALSE]
                              ELSE sent[j]]
  /\ UNCHANGED <<status, tab, store, acts, failures, unseen, raced>>

------------------------------------------------------------------------------
(* MessageList: selecting, and the requests that change messages.            *)

Toggle(m) ==
  /\ ~disabled /\ m \in view.rows
  /\ LET flip(S) == IF m \in view.selected THEN S \ {m} ELSE S \union {m} IN
       /\ view' = [view EXCEPT !.selected = flip(@)]
       /\ remembered' = [remembered EXCEPT ![view.type] = flip(@)]
  /\ UNCHANGED <<status, tab, loaded, disabled, page, sent, acts, failures, unseen, raced>>

SelectAll ==
  /\ ~disabled /\ view.rows # {}
  /\ LET on == IF view.rows \subseteq view.selected THEN {} ELSE view.rows IN
       /\ view' = [view EXCEPT !.selected = on]
       /\ remembered' = [remembered EXCEPT ![view.type] = (@ \ view.rows) \union on]
  /\ UNCHANGED <<status, tab, loaded, disabled, page, sent, acts, failures, unseen, raced>>

Post(op, msgs) ==
  /\ acts < MaxActs /\ acts' = acts + 1
  /\ raced' = (raced \/ ~view.newest \/ unseen \/ \E j \in Slots : IsAct(j))
  /\ \E i \in Slots :
       /\ sent[i] = None
       /\ sent' = [sent EXCEPT ![i] = [op |-> op, type |-> tab, msgs |-> msgs,
                     ok |-> FALSE, live |-> TRUE, phase |-> "sent"]]
  /\ UNCHANGED <<status, tab, loaded, page, failures, unseen>>

\* Variant: stars may be given in the trash as well.
MarkToStarredAnywhere(m) ==
  /\ ~disabled /\ m \in view.rows
  /\ LET on == m \notin view.stars IN
       /\ view' = [view EXCEPT !.stars = IF on THEN @ \union {m} ELSE @ \ {m}]
       /\ Post(IF on THEN "star" ELSE "unstar", {m})
  /\ UNCHANGED <<disabled, remembered>>

\* The star of a row turns at once, whatever the server will say.
MarkToStarred(m) ==
  /\ ~disabled /\ view.type # "trash" /\ m \in view.rows
  /\ LET on == m \notin view.stars IN
       /\ view' = [view EXCEPT !.stars = IF on THEN @ \union {m} ELSE @ \ {m}]
       /\ Post(IF on THEN "star" ELSE "unstar", {m})
  /\ UNCHANGED <<disabled, remembered>>

\* Variant: the messages stay selected in the store.
MoveForgetful(op) ==
  /\ ~disabled /\ view.selected # {}
  /\ view.type = "trash" <=> op = "inbox"
  /\ view' = [view EXCEPT !.selected = {}]
  /\ Post(op, view.selected)
  /\ disabled' = TRUE
  /\ UNCHANGED remembered

\* Move the messages selected to the trash, or from there to the inbox.
Move(op) ==
  /\ ~disabled /\ view.selected # {}
  /\ view.type = "trash" <=> op = "inbox"
  /\ view' = [view EXCEPT !.selected = {}]
  /\ remembered' = [remembered EXCEPT ![view.type] = @ \ view.selected]
  /\ Post(op, view.selected)
  /\ disabled' = TRUE

\* "Ja, ta bort": the selection stays.
RemoveMessages ==
  /\ ~disabled /\ view.selected # {}
  /\ view.type = "trash"
  /\ Post("delete", view.selected)
  /\ disabled' = TRUE
  /\ UNCHANGED <<view, remembered>>

------------------------------------------------------------------------------
(* MessageTabContent: the answers.  "type" is the tab of the click, the      *)
(* messages asked for again are those of the tab of now.                     *)

Answered(i) == IsAct(i) /\ sent[i].phase = "answered"

Done(i) == sent' = [sent EXCEPT ![i] = None]

Reload(i) == GetMessages(i, tab) /\ view' = [view EXCEPT !.newest = FALSE]

\* A request answered as not done: the spinner of a move is hidden.
\* Variant: it is not.
NotDoneSpinning(i) ==
  /\ Answered(i) /\ ~sent[i].ok
  /\ Done(i)
  /\ UNCHANGED <<status, tab, loaded, view, disabled, store, acts, failures, unseen, raced>>

NotDone(i) ==
  /\ Answered(i) /\ ~sent[i].ok
  /\ disabled' = (disabled /\ sent[i].op \in {"star", "unstar"})
  /\ Done(i)
  /\ UNCHANGED <<status, tab, loaded, view, store, acts, failures, unseen, raced>>

StarAnswered(i) ==
  /\ Answered(i) /\ sent[i].ok /\ sent[i].op \in {"star", "unstar"}
  /\ page' = [page EXCEPT !["starred"] = 1]
  /\ IF sent[i].type # "starred"
     THEN Done(i) /\ UNCHANGED <<view, disabled, remembered, unseen>>
     ELSE LET off == IF sent[i].op = "unstar" THEN sent[i].msgs ELSE {} IN
            /\ remembered' = [remembered EXCEPT !["starred"] = @ \ off]
            /\ GetMessages(i, tab)
            /\ view' = [view EXCEPT !.newest = FALSE,
                          !.selected = IF sent[i].live THEN @ \ off ELSE @]
  /\ UNCHANGED <<status, tab, loaded, acts, failures, raced>>

\* Variant: the tab of the click is loaded.
TrashAnsweredThere(i) ==
  /\ Answered(i) /\ sent[i].ok /\ sent[i].op = "trash"
  /\ page' = [t \in Tabs |-> IF t \in {sent[i].type, "starred"} THEN 1 ELSE page[t]]
  /\ GetMessages(i, sent[i].type) /\ view' = [view EXCEPT !.newest = FALSE]
  /\ UNCHANGED <<status, tab, loaded, remembered, acts, failures, raced>>

TrashAnswered(i) ==
  /\ Answered(i) /\ sent[i].ok /\ sent[i].op = "trash"
  /\ LET type == sent[i].type
         first == {type, "starred"} \union (IF type = "inbox" THEN {tab} ELSE {}) IN
       /\ page' = [t \in Tabs |-> IF t \in first THEN 1 ELSE page[t]]
       /\ IF type = "trash" THEN Done(i) /\ UNCHANGED <<view, disabled, unseen>> ELSE Reload(i)
  /\ UNCHANGED <<status, tab, loaded, remembered, acts, failures, raced>>

\* Variant: the rows stay until the user asks for others.
TrashLeftSameRows(i) ==
  /\ Answered(i) /\ sent[i].ok /\ sent[i].op \in {"inbox", "delete"}
  /\ page' = [page EXCEPT ![sent[i].type] = 1]
  /\ disabled' = FALSE
  /\ Done(i)
  /\ UNCHANGED <<status, tab, loaded, view, remembered, acts, failures, unseen, raced>>

\* moveToInbox and removeMessages.
TrashLeft(i) ==
  /\ Answered(i) /\ sent[i].ok /\ sent[i].op \in {"inbox", "delete"}
  /\ page' = [page EXCEPT ![sent[i].type] = 1]
  /\ Reload(i)
  /\ UNCHANGED <<status, tab, loaded, remembered, acts, failures, raced>>

\* A request fails: its promise is never settled and the spinner is left as it
\* is.  The server may still execute one that changes messages.
Fail(i) ==
  /\ sent[i] # None /\ sent[i].phase # "dropped"
  /\ fails < MaxFails /\ fails' = fails + 1 /\ lost' = TRUE
  /\ sent' = [sent EXCEPT ![i] = IF IsAct(i) /\ @.phase = "sent"
                                 THEN [@ EXCEPT !.phase = "dropped"] ELSE None]
  /\ unseen' = (unseen \/ (IsAct(i) /\ sent[i].phase = "answered" /\ sent[i].ok))
  /\ UNCHANGED <<status, tab, loaded, view, disabled, store, acts, raced>>

------------------------------------------------------------------------------
Init ==
  /\ status \in [Messages -> Statuses \ {"deleted"}]
  /\ tab \in Tabs
  /\ loaded = FALSE
  /\ view = [type |-> tab, of |-> tab, rows |-> {}, stars |-> {}, selected |-> {},
             total |-> 0, newest |-> FALSE, masked |-> FALSE]
  /\ disabled = TRUE
  /\ page = [t \in Tabs |-> 1]
  /\ remembered = [t \in Tabs |-> {}]
  /\ \E first \in Slots :
       sent = [i \in Slots |-> IF i = first
               THEN [op |-> "load", type |-> tab, page |-> 1, rows |-> {}, stars |-> {},
                     total |-> 0, newest |-> TRUE, masked |-> FALSE, phase |-> "sent"]
               ELSE None]
  /\ acts = 0
  /\ fails = 0 /\ lost = FALSE
  /\ unseen = FALSE
  /\ raced = FALSE

UserActs ==
  \/ \E t \in Tabs : OpenTab(t)
  \/ \E p \in 1..Cardinality(Messages) : TurnPage(p)
  \/ \E m \in Messages : Toggle(m)
  \/ SelectAll
  \/ \E m \in Messages : MarkToStarred(m)
  \/ \E op \in {"trash", "inbox"} : Move(op)
  \/ RemoveMessages

Serve(i) ==
  \/ \E failed \in BOOLEAN : ReadMessages(i, failed) \/ CountMessages(i, failed)
  \/ \E told \in BOOLEAN : Execute(i, told)
  \/ Refuse(i)

Answer(i) == LoadAnswered(i) \/ NotDone(i) \/ StarAnswered(i) \/ TrashAnswered(i)
             \/ TrashLeft(i)

Next == UserActs \/ \E i \in Slots : Serve(i) \/ Answer(i) \/ Fail(i)

Spec == Init /\ [][Next]_vars

------------------------------------------------------------------------------
(* Properties.                                                               *)

\* What is shown is what the store remembers: in a list of a tab's own messages
\* exactly those are selected that are remembered for the tab, so what an
\* operation will take is what the user picked.  A reload may be under way, and
\* one that failed leaves the old rows.
SelectionRemembered ==
  \/ view.of = view.type => view.selected = view.rows \intersect remembered[view.type]
  \/ \E i \in Slots : IsLoad(i) /\ sent[i].newest
  \/ lost

\* Messages of another tab are shown only by an answer that was overtaken by a
\* later question: the answer to the latest one belongs to the tab shown.
ShowsItsTab == view.newest => view.type = tab /\ view.of = tab

Fits(op) == CASE op \in {"star", "unstar"} -> {"default", "starred"}
              [] op = "trash" -> {"default", "starred"}
              [] op \in {"inbox", "delete"} -> {"trash"}

\* The server takes whatever it is given: that messages are deleted for good only out
\* of the trash, return only from there and never after, and get no star there, is up
\* to the page, which offers an operation on the rows it shows.  It holds, whatever is
\* lost or masked, as long as the user clicks on the latest rows while no operation is
\* under way, and none was done that the page does not know of.
ActsFitStatus ==
  [][\/ raced
     \/ \A i \in Slots : (\E told \in BOOLEAN : Execute(i, told))
                        => \A m \in sent[i].msgs : status[m] \in Fits(sent[i].op)]_vars

\* Seen from the hub, the page with its tabs, selections, late answers and lost requests
\* is a user of a mailbox: what is done to messages was asked for, once, for messages in
\* a folder the operation is for, and is what was asked for.
Waits(i) == IsAct(i) /\ sent[i].phase \in {"sent", "dropped"}

Waiting == [i \in Slots |-> IF Waits(i) THEN [op |-> sent[i].op, msgs |-> sent[i].msgs]
                           ELSE None]

Box == INSTANCE Mailbox WITH folder <- status, asked <- Waiting, overtaken <- raced

ImplementsMailbox == Box!Spec

\* "Get message displaying incase there is no message belonging to the selected
\* category/messagetype": an inbox that shows the text has no messages, if no call of
\* the hub failed when it was read.
EmptyInboxIsEmpty ==
  (/\ tab = "inbox" /\ loaded /\ view.newest /\ view.rows = {} /\ ~view.masked
   /\ \A i \in Slots : sent[i] = None
   /\ ~raced /\ ~unseen)
  => InTab("inbox") = {}

\* When nothing is under way, the inbox and the trash show their page of what the hub
\* holds, however the answers of loads and operations were interleaved and whichever
\* were lost: every operation that changes them asks for the list again.  Excepted are
\* a list whose reading failed, unnoticed, on the server, and one that an operation
\* changed of which the page was told nothing.  (The starred list may lack a message
\* whose star was on its way when the list was asked for.)
ShowsTheHub ==
  (/\ tab \in {"inbox", "trash"} /\ view.newest /\ ~view.masked
   /\ \A i \in Slots : sent[i] = None
   /\ ~raced /\ ~unseen)
  => view.rows = OnPage(tab, page[tab])

\* The list is not left without clicks: as long as it shows the spinner it waits
\* for an answer that hides it or asks for messages again, or a request failed.
Hides(r) == \/ r.op \in {"load", "inbox", "delete"}
            \/ r.op = "trash" /\ r.type # "trash"

SpinnerWaits ==
  disabled => \/ \E i \in Slots : /\ sent[i] # None /\ sent[i].phase # "dropped"
                                 /\ Hides(sent[i])
              \/ lost
=============================================================================
