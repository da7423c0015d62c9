------------------------------ MODULE TimeBooking ------------------------------
(***************************************************************************)
(* The booking of times at a facility: the browser pages of                *)
(* time-booking.js (TimeBookingPage, which looks a purchase order up,      *)
(* shows the free times of a day and reserves some, and ListingBookingPage,*)
(* which lists bookings to change and delete them), the requests they have *)
(* under way, and the bookings, which the back end keeps.                  *)
(*                                                                         *)
(* Every request but the check for an existing booking is asynchronous:    *)
(* the server executes it at any time, and the page gets its answers in    *)
(* any order, while its user goes on.  A message over the page is closed   *)
(* before the user does anything else, so closing it is no action.         *)
(*                                                                         *)
(* Data: a day stands for a facility, a date and a direction; the contact  *)
(* of a booking (customer, telephone, e-mail, registration number) is      *)
(* named by the order it was looked up with, and so are the load (article, *)
(* vehicle) and the line number.  Searches by other numbers than that of a *)
(* purchase order, the number of the delivery assurance, and what the user *)
(* types over the looked up fields, are left out.                          *)
(***************************************************************************)
EXTENDS Naturals, FiniteSets

CONSTANTS
  BookingPages,  \* pages that run TimeBookingPage
  ListPages,     \* pages that run ListingBookingPage
  Orders, Days, Slots,
  OrderDay,      \* [Orders -> Days]: the delivery date of an order
  Known,         \* orders the back end finds
  Closed,        \* known orders of status 40 and above
  None,          \* no order, day or value
  MaxReserved,   \* bound: reservation requests
  MaxWaiting     \* bound: requests one page has under way when its user sends another
                 \* (a reservation is bounded by MaxReserved)

Pages == BookingPages \union ListPages

ASSUME PagesAssumption == BookingPages \intersect ListPages = {}
ASSUME OrdersAssumption == Closed \subseteq Known /\ Known \subseteq Orders
ASSUME OrderDayAssumption == OrderDay \in [Orders -> Days]
ASSUME NoneAssumption == None \notin Orders \union Days
ASSUME BoundsAssumption == MaxReserved \in Nat /\ MaxWaiting \in Nat

VARIABLES
  bookings,      \* back end: the bookings there are
  page,          \* page[p]: the fields, the table and the buttons of p
  lookups,       \* CustomerSearch requests under way
  searches,      \* SearchAvailbleSlots and SearchBookings requests under way
  reservations,  \* MakeReservation requests under way
  changes,       \* UpdateReservation and DeleteReservation requests under way
  reserved       \* the number of reservation requests (bounded by MaxReserved)

vars == <<bookings, page, lookups, searches, reservations, changes, reserved>>

Maybe(S) == S \union {None}
BookingIds == (0..MaxReserved) \X Slots
\* clear: no other reservation of the same order and day came between the check
\* of this one and its execution (history; see ExecuteReservation).
Bookings == [id : BookingIds, order : Maybe(Orders), day : Days, contact : Maybe(Orders),
             load : Orders, line : Maybe(Orders), clear : BOOLEAN]
Rows == [id : BookingIds, contact : Maybe(Orders)]
Tables == [day : Maybe(Days), free : SUBSET Slots, rows : SUBSET Rows]
NoTable == [day |-> None, free |-> {}, rows |-> {}]
Buttons == {"none", "save", "update"}
\* text: the search field; who, load, line: the orders the customer, the article
\* and the line number come from; contact: where the contact fields come from;
\* id: ReservationID; opened: what the contact fields held when it was opened (history);
\* unnamed: the answer the load came with named no customer (history).
PageStates ==
  [text : Maybe(Orders), who : Maybe(Orders), load : Maybe(Orders), line : Maybe(Orders),
   day : Days, table : Tables, checked : SUBSET Slots, contact : Maybe(Orders),
   id : Maybe(BookingIds), opened : Maybe(Orders), button : Buttons, unnamed : BOOLEAN]
Lookups == [page : BookingPages, order : Orders]
Searches == [page : Pages, day : Maybe(Days), done : BOOLEAN, table : Tables]
Reservations ==
  [seq : 1..MaxReserved, page : Pages, order : Maybe(Orders), day : Days, slots : SUBSET Slots,
   who : Maybe(Orders), contact : Maybe(Orders), load : Orders, line : Maybe(Orders),
   clear : BOOLEAN, done : BOOLEAN]
Changes == [kind : {"update", "delete"}, page : Pages, id : BookingIds,
            contact : Maybe(Orders), line : Maybe(Orders), done : BOOLEAN]

TypeOK ==
  /\ bookings \subseteq Bookings
  /\ page \in [Pages -> PageStates]
  /\ lookups \subseteq Lookups /\ searches \subseteq Searches
  /\ reservations \subseteq Reservations /\ changes \subseteq Changes
  /\ reserved \in 0..MaxReserved

\* What the back end may hold already: at most one booking, made elsewhere.
Elsewhere == [id : {0} \X Slots, order : Orders, day : Days, contact : {None},
              load : Orders, line : Orders, clear : {TRUE}]

Init ==
  /\ bookings \in {{}} \union {{b} : b \in {e \in Elsewhere : e.load = e.order /\ e.line = e.order}}
  /\ \E today \in Days :
       page = [p \in Pages |->
                 [text |-> None, who |-> None, load |-> None, line |-> None,
                  day |-> today, table |-> NoTable, checked |-> {}, contact |-> None,
                  id |-> None, opened |-> None, button |-> "none", unnamed |-> FALSE]]
  /\ lookups = {} /\ searches = {} /\ reservations = {} /\ changes = {}
  /\ reserved = 0

-----------------------------------------------------------------------------
(* What the handlers do to the state of a page.                              *)

\* Variants a slip would produce: the form keeps the contact of the booking that was
\* opened; the form stays open after the change.
ClearFormKeepingContact(s) == [s EXCEPT !.button = "save"]
ClearFormListOpen(s) == [s EXCEPT !.id = None, !.contact = s.who]

ClearForm(s) == [s EXCEPT !.contact = s.who, !.opened = None, !.button = "save"]

ClearFormList(s) ==
  [s EXCEPT !.id = None, !.contact = s.who, !.opened = None, !.button = "none"]

ClearResultTable(s) == [s EXCEPT !.table = NoTable, !.checked = {}]

\* The parameters of a search are filled in (a customer always is).
Complete(s) == s.load # None

\* searchAvailableSlots: the table is cleared, and filled by the answer.
SlotSearch(p, s) ==
  IF Complete(s) THEN {[page |-> p, day |-> s.day, done |-> FALSE, table |-> NoTable]} ELSE {}

\* The table and the list are replaced, and the save button goes; the update
\* button stays where it is.
ShowSlots(s, t) ==
  [s EXCEPT !.table = t, !.checked = {}, !.button = IF @ = "save" THEN "none" ELSE @]
ShowList(s, t) == [s EXCEPT !.table = t]

CopyValuesToEnableEdit(s, r) ==
  [s EXCEPT !.id = r.id, !.contact = r.contact, !.opened = r.contact, !.button = "update",
            !.checked = {}]

\* doSearch: the form is closed and the list is asked for.
ListSearch(p) == [page |-> p, day |-> None, done |-> FALSE, table |-> NoTable]
CloseForm(s) == [s EXCEPT !.button = "none"]

Waiting(p) ==
  Cardinality({c \in lookups : c.page = p}) + Cardinality({c \in searches : c.page = p})
    + Cardinality({c \in reservations : c.page = p}) + Cardinality({c \in changes : c.page = p})
MayAct(p) == Waiting(p) < MaxWaiting

-----------------------------------------------------------------------------
(* TimeBookingPage: looking an order up and searching times.                 *)

TypeOrder(p, o) ==
  /\ o # page[p].text
  /\ page' = [page EXCEPT ![p].text = o]
  /\ UNCHANGED <<bookings, lookups, searches, reservations, changes, reserved>>

\* Changing the day reloads the articles and may lose the chosen one; the table
\* stays.
ChangeDay(p, d, keep) ==
  /\ d # page[p].day
  /\ page' = [page EXCEPT ![p].day = d, ![p].load = IF keep THEN @ ELSE None]
  /\ UNCHANGED <<bookings, lookups, searches, reservations, changes, reserved>>

SearchCustomer(p) ==
  /\ MayAct(p)
  /\ page[p].text # None
  /\ page' = [page EXCEPT ![p] = ClearResultTable(@)]
  /\ lookups' = lookups \union {[page |-> p, order |-> page[p].text]}
  /\ UNCHANGED <<bookings, searches, reservations, changes, reserved>>

\* setCustomerInfo, quantity and date.  No customer is named for an order of another
\* supplier or without contacts, and those of the order before stay.
SetCustomerInfo(s, o, named) ==
  LET t == IF named THEN [s EXCEPT !.who = o, !.contact = o] ELSE s
  IN  [t EXCEPT !.day = OrderDay[o]]

\* The answer for an open order fills the whole form (the articles are loaded
\* synchronously; `loaded` says whether that succeeded).  An order of status 40 or
\* more ends the handler after the customer, the quantity and the date: it calls
\* a function that does not exist.  An unknown order changes nothing.  Then the
\* times are searched, if the form is complete.
Filled(s, o, named, loaded) ==
  IF o \notin Known THEN s
  ELSE IF o \in Closed THEN SetCustomerInfo(s, o, named)
  ELSE [SetCustomerInfo(s, o, named) EXCEPT !.load = IF loaded THEN o ELSE None, !.line = o,
                                            !.unnamed = loaded /\ ~named]

CustomerAnswered(c, named, loaded) ==
  LET p == c.page
      s == Filled(page[p], c.order, named, loaded)
      searching == c.order \notin Closed /\ Complete(s)
  IN
  /\ c \in lookups
  /\ lookups' = lookups \ {c}
  /\ page' = [page EXCEPT ![p] = IF searching THEN ClearResultTable(s) ELSE s]
  /\ searches' = searches \union IF searching THEN SlotSearch(p, s) ELSE {}
  /\ UNCHANGED <<bookings, reservations, changes, reserved>>

CustomerFailed(c) ==
  /\ c \in lookups
  /\ lookups' = lookups \ {c}
  /\ UNCHANGED <<bookings, page, searches, reservations, changes, reserved>>

\* searchAvalibleSlotAction, behind a button that is disabled while the form is
\* incomplete.
ShowTimes(p) ==
  LET s == [ClearForm(page[p]) EXCEPT !.button = "none"] IN
  /\ MayAct(p)
  /\ Complete(s)
  /\ page' = [page EXCEPT ![p] = ClearResultTable(s)]
  /\ searches' = searches \union SlotSearch(p, s)
  /\ UNCHANGED <<bookings, lookups, reservations, changes, reserved>>

RowsOf(bs) == {[id |-> b.id, contact |-> b.contact] : b \in bs}
SlotsOn(d) == {b.id[2] : b \in {x \in bookings : x.day = d}}
TableOf(d) ==
  [day |-> d,
   free |-> IF d = None THEN {} ELSE Slots \ SlotsOn(d),
   rows |-> RowsOf(IF d = None THEN bookings ELSE {b \in bookings : b.day = d})]

ExecuteSearch(c) ==
  /\ c \in searches /\ ~c.done
  /\ searches' = (searches \ {c}) \union {[c EXCEPT !.done = TRUE, !.table = TableOf(c.day)]}
  /\ UNCHANGED <<bookings, page, lookups, reservations, changes, reserved>>

SearchAnswered(c) ==
  /\ c \in searches /\ c.done
  /\ searches' = searches \ {c}
  /\ page' = [page EXCEPT ![c.page] =
                IF c.page \in ListPages THEN ShowList(@, c.table) ELSE ShowSlots(@, c.table)]
  /\ UNCHANGED <<bookings, lookups, reservations, changes, reserved>>

\* The error handlers hide the table or the list.
SearchFailed(c) ==
  /\ c \in searches
  /\ searches' = searches \ {c}
  /\ page' = [page EXCEPT ![c.page] =
                IF c.page \in ListPages THEN ShowList(@, NoTable) ELSE ShowSlots(@, NoTable)]
  /\ UNCHANGED <<bookings, lookups, reservations, changes, reserved>>

-----------------------------------------------------------------------------
(* TimeBookingPage: reserving.                                               *)

\* A box is checked or unchecked.  With a box checked the form is emptied for a new
\* booking; without, the save button goes.
Check(p, slot) ==
  LET s == page[p]
      now == IF slot \in s.checked THEN s.checked \ {slot} ELSE s.checked \union {slot}
      t == [s EXCEPT !.checked = now]
  IN
  /\ slot \in s.table.free
  /\ page' = [page EXCEPT ![p] =
                IF now # {} THEN ClearForm(t)
                ELSE [t EXCEPT !.button = IF @ = "save" THEN "none" ELSE @]]
  /\ UNCHANGED <<bookings, lookups, searches, reservations, changes, reserved>>

BookingsOf(o, d) == {b \in bookings : b.order = o /\ b.day = d}
\* Variant: only bookings made elsewhere are looked for.
ExistBookingElsewhere(o, d) == o # None /\ \E b \in BookingsOf(o, d) : b.id[1] = 0
ExistBooking(o, d) == o # None /\ BookingsOf(o, d) # {}

\* The save button: the check is a synchronous request, whose failure is only
\* announced (answered = FALSE); without a booking of the order on the day the
\* reservation of the checked boxes is sent.  The form stays open.
MakeReservation(p, answered) ==
  LET s == page[p] IN
  /\ reserved < MaxReserved
  /\ s.button = "save" /\ s.checked # {} /\ Complete(s)
  /\ answered => ~ExistBooking(s.text, s.day)
  /\ reserved' = reserved + 1
  /\ reservations' = reservations \union
       {[seq |-> reserved + 1, page |-> p, order |-> s.text, day |-> s.day, slots |-> s.checked,
         who |-> s.who, contact |-> s.contact, load |-> s.load, line |-> s.line,
         clear |-> answered, done |-> FALSE]}
  /\ UNCHANGED <<bookings, page, lookups, searches, changes>>

\* Variant: the booking is given the next number.
BookingOfNext(c, slot) ==
  [id |-> <<c.seq + 1, slot>>, order |-> c.order, day |-> c.day, contact |-> c.contact,
   load |-> c.load, line |-> c.line, clear |-> c.clear]

BookingOf(c, slot) ==
  [id |-> <<c.seq, slot>>, order |-> c.order, day |-> c.day, contact |-> c.contact,
   load |-> c.load, line |-> c.line, clear |-> c.clear]

\* The back end books the times that are still free (external).  The other
\* reservations of the same order and day that have passed their check are not
\* clear any more.
ExecuteReservation(c) ==
  LET booked == c.slots \ SlotsOn(c.day)
      overtaken(x) == ~x.done /\ x # c /\ x.order = c.order /\ x.day = c.day /\ booked # {}
  IN
  /\ c \in reservations /\ ~c.done
  /\ bookings' = bookings \union {BookingOf(c, slot) : slot \in booked}
  /\ reservations' =
       {[x EXCEPT !.done = x.done \/ x = c, !.clear = x.clear /\ ~overtaken(x)]
          : x \in reservations}
  /\ UNCHANGED <<page, lookups, searches, changes, reserved>>

\* Booked, in part or not at all: the message says which; the form is emptied and
\* the times are searched again.
ReservationAnswered(c) ==
  LET s == ClearForm(page[c.page]) IN
  /\ c \in reservations /\ c.done
  /\ reservations' = reservations \ {c}
  /\ page' = [page EXCEPT ![c.page] = ClearResultTable(s)]
  /\ searches' = searches \union SlotSearch(c.page, s)
  /\ UNCHANGED <<bookings, lookups, changes, reserved>>

\* The request or its answer is lost: a message, and the form as it was.
ReservationFailed(c) ==
  /\ c \in reservations
  /\ reservations' = reservations \ {c}
  /\ UNCHANGED <<bookings, page, lookups, searches, changes, reserved>>

-----------------------------------------------------------------------------
(* Both pages: changing and deleting a booking.                              *)

EditBooking(p, r) ==
  /\ r \in page[p].table.rows
  /\ page' = [page EXCEPT ![p] = CopyValuesToEnableEdit(@, r)]
  /\ UNCHANGED <<bookings, lookups, searches, reservations, changes, reserved>>

\* The booking page sends the line number of the order looked up last, and asks for
\* a complete search form; the list page sends no line number.
UpdateReservation(p) ==
  LET s == page[p] IN
  /\ MayAct(p)
  /\ s.button = "update"
  /\ p \in BookingPages => Complete(s)
  /\ changes' = changes \union
       {[kind |-> "update", page |-> p, id |-> s.id, contact |-> s.contact,
         line |-> IF p \in ListPages THEN None ELSE s.line, done |-> FALSE]}
  /\ UNCHANGED <<bookings, page, lookups, searches, reservations, reserved>>

\* The button in a row, and the confirmation.
DeleteReservation(p, r) ==
  /\ MayAct(p)
  /\ r \in page[p].table.rows
  /\ page' = [page EXCEPT ![p] = IF p \in ListPages THEN ClearFormList(@) ELSE ClearForm(@)]
  /\ changes' = changes \union
       {[kind |-> "delete", page |-> p, id |-> r.id, contact |-> None, line |-> None,
         done |-> FALSE]}
  /\ UNCHANGED <<bookings, lookups, searches, reservations, reserved>>

\* The contact is replaced; the line is, if one was sent.
Changed(b, c) ==
  [b EXCEPT !.contact = c.contact, !.line = IF c.line = None THEN @ ELSE c.line]

\* The server refuses a change of a booking that is too near; the back end knows no
\* booking that was deleted.
ExecuteChange(c, refused) ==
  LET old == {b \in bookings : b.id = c.id} IN
  /\ c \in changes /\ ~c.done
  /\ bookings' =
       IF refused THEN bookings
       ELSE (bookings \ old) \union
              (IF c.kind = "delete" THEN {} ELSE {Changed(b, c) : b \in old})
  /\ changes' = (changes \ {c}) \union {[c EXCEPT !.done = TRUE]}
  /\ UNCHANGED <<page, lookups, searches, reservations, reserved>>

\* updateReservationSuccess and deletReservationSuccess, errors of the back end
\* among the messages.
ChangeAnswered(c) ==
  LET p == c.page
      s == IF c.kind = "update" THEN ClearForm(page[p]) ELSE page[p]
  IN
  /\ c \in changes /\ c.done
  /\ changes' = changes \ {c}
  /\ IF p \in ListPages
       THEN /\ page' = [page EXCEPT ![p] = IF c.kind = "update" THEN ClearFormList(@)
                                                                ELSE CloseForm(@)]
            /\ searches' = searches \union {ListSearch(p)}
       ELSE /\ page' = [page EXCEPT ![p] = ClearResultTable(s)]
            /\ searches' = searches \union SlotSearch(p, s)
  /\ UNCHANGED <<bookings, lookups, reservations, reserved>>

\* The error handlers search again (but for a failed deletion in the list), and
\* leave the form of the booking page open.
ChangeFailed(c) ==
  LET p == c.page IN
  /\ c \in changes
  /\ changes' = changes \ {c}
  /\ page' = [page EXCEPT ![p] = IF p \in ListPages THEN CloseForm(@) ELSE ClearResultTable(@)]
  /\ searches' = searches \union
       (IF p \in BookingPages THEN SlotSearch(p, page[p])
        ELSE IF c.kind = "update" THEN {ListSearch(p)} ELSE {})
  /\ UNCHANGED <<bookings, lookups, reservations, reserved>>

-----------------------------------------------------------------------------
(* ListingBookingPage.                                                       *)

DoSearch(p) ==
  /\ MayAct(p)
  /\ page' = [page EXCEPT ![p] = CloseForm(@)]
  /\ searches' = searches \union {ListSearch(p)}
  /\ UNCHANGED <<bookings, lookups, reservations, changes, reserved>>

-----------------------------------------------------------------------------

UserOfBookingPage(p) ==
  \/ \E o \in Orders : TypeOrder(p, o)
  \/ \E d \in Days, keep \in BOOLEAN : ChangeDay(p, d, keep)
  \/ SearchCustomer(p) \/ ShowTimes(p)
  \/ \E slot \in Slots : Check(p, slot)
  \/ \E answered \in BOOLEAN : MakeReservation(p, answered)

UserOfEitherPage(p) ==
  \/ \E r \in page[p].table.rows : EditBooking(p, r) \/ DeleteReservation(p, r)
  \/ UpdateReservation(p)

Answers ==
  \/ \E c \in lookups :
       CustomerFailed(c) \/ \E named, loaded \in BOOLEAN : CustomerAnswered(c, named, loaded)
  \/ \E c \in searches : ExecuteSearch(c) \/ SearchAnswered(c) \/ SearchFailed(c)
  \/ \E c \in reservations :
       ExecuteReservation(c) \/ ReservationAnswered(c) \/ ReservationFailed(c)
  \/ \E c \in changes :
       ChangeAnswered(c) \/ ChangeFailed(c) \/ \E refused \in BOOLEAN : ExecuteChange(c, refused)

Next ==
  \/ \E p \in BookingPages : UserOfBookingPage(p)
  \/ \E p \in ListPages : DoSearch(p)
  \/ \E p \in Pages : UserOfEitherPage(p)
  \/ Answers

Spec == Init /\ [][Next]_vars

-----------------------------------------------------------------------------
(* Properties.                                                               *)

\* "There is already a booking on the purchase order" (ExistBooking before
\* MakeReservation): two bookings of one order on one day come from one request,
\* or the later was made in the gap between another's check and execution, or
\* although its check had failed.
OneBookingUnlessRaced ==
  \A a, b \in bookings :
    a.order = b.order /\ a.day = b.day /\ a.order # None /\ a.clear /\ b.clear
      => a.id[1] = b.id[1]

\* However the requests of the pages overlap, fail and are answered, the bookings are
\* a ledger: a request books once and takes no time that is taken, one that is clear
\* finds no booking of its order and day, and changes leave order and time alone.
EntryOf(b) == [request |-> b.id[1], order |-> b.order, day |-> b.day, slot |-> b.id[2],
               careful |-> b.clear]

Ledger == INSTANCE BookingLedger WITH
  Requests <- 1..MaxReserved,
  Nobody <- None,
  entries <- {EntryOf(b) : b \in bookings}

ImplementsLedger == Ledger!Spec

\* One form serves to reserve and to change, and late answers fill it.  Whatever the
\* order of the answers, a reservation goes out with the line of the order its load is
\* of, and with the contact of its customer, never that of a booking that was opened
\* to be changed.  The customer is that of the load, with two exceptions: the answer
\* for a closed order fills the customer and not the load, and an answer that names no
\* customer the load and not the customer.  (The order that is booked is the text of
\* the search field when the button is pressed: nothing ties it to the form.)
ReservesWhatTheFormShows ==
  [][\A c \in reservations' :
       c.seq > reserved =>
         /\ c.line = c.load
         /\ c.contact = c.who
         /\ c.who = c.load \/ c.who \in Closed \/ page[c.page].unnamed]_vars

\* The list page changes the booking that was opened, from the values it was
\* opened with: no late answer replaces them under the user's hands.
ListUpdatesWhatWasOpened ==
  [][\A c \in changes' \ changes :
       c.kind = "update" /\ c.page \in ListPages /\ ~c.done =>
         c.contact = page[c.page].opened]_vars
=============================================================================
