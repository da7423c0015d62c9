--------------------------- MODULE TimeBookingProofs ---------------------------
(***************************************************************************)
(* What TimeBooking guarantees for any number of pages, orders, days and   *)
(* times, and every bound.                                                 *)
(***************************************************************************)
EXTENDS TimeBooking, TLAPS

\* The states of page p that its handlers make: a form open for a change knows the
\* booking, and in the list it shows the contact it was opened with; a form open for
\* a reservation has the contact of the customer; the line is that of the load, and so
\* is the customer, unless a closed order was looked up since or the answer that
\* brought the load named no customer.
Good(p) ==
  {s \in PageStates :
     /\ s.button = "update" =>
          s.id \in BookingIds /\ (p \in ListPages => s.contact = s.opened)
     /\ s.button = "save" => s.contact = s.who
     /\ s.load # None =>
          s.line = s.load /\ (s.who = s.load \/ s.who \in Closed \/ s.unnamed)}

PagesGood == \A p \in Pages : page[p] \in Good(p)

\* What the handlers make of a good page is good.
LEMMA HandlersGood ==
  ASSUME NEW p \in Pages, NEW s \in Good(p)
  PROVE  /\ s \in PageStates
         /\ ClearForm(s) \in Good(p) /\ ClearFormList(s) \in Good(p)
         /\ ClearResultTable(s) \in Good(p) /\ CloseForm(s) \in Good(p)
         /\ \A t \in Tables : ShowSlots(s, t) \in Good(p) /\ ShowList(s, t) \in Good(p)
         /\ \A r \in Rows : CopyValuesToEnableEdit(s, r) \in Good(p)
         /\ p \in BookingPages =>
              \A o \in Orders, named, loaded \in BOOLEAN : Filled(s, o, named, loaded) \in Good(p)
<1>1. ClearForm(s) \in Good(p) /\ ClearFormList(s) \in Good(p) /\ CloseForm(s) \in Good(p)
  <2>1. /\ ClearForm(s) \in PageStates /\ ClearFormList(s) \in PageStates
        /\ CloseForm(s) \in PageStates
    <3>1. s \in PageStates
      BY DEF Good
    <3>2. CloseForm(s) \in PageStates
      BY <3>1 DEF PageStates, Buttons, CloseForm
    <3>3. ClearForm(s) \in PageStates
      BY <3>1 DEF PageStates, Buttons, Maybe, ClearForm
    <3>4. ClearFormList(s) \in PageStates
      BY <3>1 DEF PageStates, Buttons, Maybe, ClearFormList
    <3> QED
      BY <3>2, <3>3, <3>4
  <2>2. /\ ClearForm(s).button = "save" /\ ClearForm(s).contact = ClearForm(s).who
        /\ ClearFormList(s).button = "none" /\ CloseForm(s).button = "none"
    BY DEF Good, PageStates, ClearForm, ClearFormList, CloseForm
  <2>3. \A u \in {ClearForm(s), ClearFormList(s), CloseForm(s)} :
          u.load = s.load /\ u.line = s.line /\ u.who = s.who /\ u.unnamed = s.unnamed
    BY DEF Good, PageStates, ClearForm, ClearFormList, CloseForm
  <2> QED
    BY <2>1, <2>2, <2>3 DEF Good
<1>2. NoTable \in Tables
  BY DEF NoTable, Tables, Maybe
<1>3. ClearResultTable(s) \in Good(p)
  BY <1>2 DEF Good, PageStates, ClearResultTable
<1>4. ASSUME NEW t \in Tables
      PROVE  ShowSlots(s, t) \in Good(p) /\ ShowList(s, t) \in Good(p)
  BY DEF Good, PageStates, Buttons, ShowSlots, ShowList
<1>5. ASSUME NEW r \in Rows
      PROVE  CopyValuesToEnableEdit(s, r) \in Good(p)
  BY DEF Good, PageStates, Buttons, Maybe, Rows, CopyValuesToEnableEdit
<1>6. ASSUME p \in BookingPages, NEW o \in Orders, NEW named \in BOOLEAN, NEW loaded \in BOOLEAN
      PROVE  Filled(s, o, named, loaded) \in Good(p)
  <2>1. p \notin ListPages
    BY <1>6, PagesAssumption
  <2>2. o \in Orders /\ OrderDay[o] \in Days /\ o # None
    BY <1>6, OrderDayAssumption, NoneAssumption
  <2> DEFINE t == SetCustomerInfo(s, o, named)
  <2>3. /\ t \in PageStates /\ t.load = s.load /\ t.line = s.line /\ t.unnamed = s.unnamed
        /\ t.button = s.button /\ t.id = s.id
        /\ IF named THEN t.who = o /\ t.contact = o ELSE t.who = s.who /\ t.contact = s.contact
    <3>1. s \in PageStates
      BY DEF Good
    <3>2. CASE named
      BY <2>2, <3>1, <3>2 DEF PageStates, Maybe, SetCustomerInfo
    <3>3. CASE ~named
      BY <2>2, <3>1, <3>3 DEF PageStates, Maybe, SetCustomerInfo
    <3> QED
      BY <3>2, <3>3
  <2> HIDE DEF t
  <2>4. CASE o \notin Known
    BY <2>4 DEF Filled
  <2>5. CASE o \in Known /\ o \in Closed
    <3>1. Filled(s, o, named, loaded) = t
      BY <2>5 DEF Filled, t
    <3> QED
      BY <2>1, <2>3, <2>5, <3>1 DEF Good
  <2>6. CASE o \in Known /\ o \notin Closed
    <3> DEFINE l == IF loaded THEN o ELSE None
               b == loaded /\ ~named
               u == [t EXCEPT !.load = l, !.line = o, !.unnamed = b]
    <3>1. Filled(s, o, named, loaded) = u
      BY <2>6 DEF Filled, t
    <3>4. l \in Maybe(Orders) /\ o \in Maybe(Orders) /\ b \in BOOLEAN
      BY <2>2 DEF Maybe
    <3>5. l = (IF loaded THEN o ELSE None) /\ b = (loaded /\ ~named)
      OBVIOUS
    <3>6. t \in PageStates
      BY <2>3
    <3> HIDE DEF l, b
    <3>2. /\ u \in PageStates /\ u.who = t.who /\ u.contact = t.contact /\ u.button = t.button
          /\ u.id = t.id /\ u.line = o
      <4>1. u \in PageStates
        <5>1. [t EXCEPT !.load = l] \in PageStates
          BY <3>4, <3>6 DEF PageStates
        <5>2. [[t EXCEPT !.load = l] EXCEPT !.line = o] \in PageStates
          BY <3>4, <5>1 DEF PageStates
        <5>3. [[[t EXCEPT !.load = l] EXCEPT !.line = o] EXCEPT !.unnamed = b] \in PageStates
          BY <3>4, <5>2 DEF PageStates
        <5> QED
          BY <3>6, <5>3 DEF PageStates
      <4>2. u.who = t.who /\ u.contact = t.contact /\ u.button = t.button
        BY <3>6 DEF PageStates
      <4>3. u.id = t.id /\ u.line = o
        BY <3>6 DEF PageStates
      <4> QED
        BY <4>1, <4>2, <4>3
    <3>3. /\ u.load = (IF loaded THEN o ELSE None)
          /\ u.unnamed = (loaded /\ ~named)
      BY <3>5, <3>6 DEF PageStates
    <3> HIDE DEF u
    <3> QED
      BY <2>1, <2>3, <3>1, <3>2, <3>3 DEF Good
  <2> QED
    BY <2>4, <2>5, <2>6
<1>7. s \in PageStates
  BY DEF Good
<1> QED
  BY <1>1, <1>3, <1>4, <1>5, <1>6, <1>7

\* A step that makes a good state of one page.
LEMMA PageStep ==
  ASSUME TypeOK, PagesGood, NEW p \in Pages, NEW s \in Good(p), page' = [page EXCEPT ![p] = s]
  PROVE  page' \in [Pages -> PageStates] /\ PagesGood'
<1>1. s \in PageStates
  BY DEF Good
<1> QED
  BY <1>1 DEF TypeOK, PagesGood

\* A search is a request of its page.
LEMMA SearchTyped ==
  ASSUME NEW p \in Pages, NEW s \in PageStates
  PROVE  SlotSearch(p, s) \subseteq Searches /\ ListSearch(p) \in Searches
<1>1. NoTable \in Tables
  BY DEF NoTable, Tables, Maybe
<1>2. ListSearch(p) \in Searches
  BY <1>1 DEF ListSearch, Searches, Maybe
<1>3. s.day \in Maybe(Days)
  BY DEF PageStates, Maybe
<1>4. [page |-> p, day |-> s.day, done |-> FALSE, table |-> NoTable] \in Searches
  BY <1>1, <1>3 DEF Searches
<1> QED
  BY <1>2, <1>4 DEF SlotSearch

\* What a search answers is a table.
LEMMA TableTyped ==
  ASSUME bookings \subseteq Bookings, NEW d \in Maybe(Days)
  PROVE  TableOf(d) \in Tables
<1>1. ASSUME NEW bs \in SUBSET bookings
      PROVE  RowsOf(bs) \subseteq Rows
  BY DEF RowsOf, Rows, Bookings
<1>2. RowsOf(bookings) \subseteq Rows /\ RowsOf({b \in bookings : b.day = d}) \subseteq Rows
  BY <1>1
<1> QED
  BY <1>2 DEF TableOf, Tables

\* Every step of the specification keeps the variables in their types.
THEOREM TypeInvariance == Spec => [](TypeOK /\ PagesGood)
<1>1. Init => TypeOK /\ PagesGood
  <2> SUFFICES ASSUME Init
               PROVE  TypeOK /\ PagesGood
    OBVIOUS
  <2>1. ASSUME NEW b \in Elsewhere
        PROVE  b \in Bookings
    <3>1. 0 \in 0..MaxReserved
      BY BoundsAssumption
    <3>2. {0} \X Slots \subseteq BookingIds
      BY <3>1 DEF BookingIds
    <3>3. /\ b = [id |-> b.id, order |-> b.order, day |-> b.day, contact |-> b.contact,
                  load |-> b.load, line |-> b.line, clear |-> b.clear]
          /\ b.id \in {0} \X Slots /\ b.order \in Orders /\ b.day \in Days /\ b.contact = None
          /\ b.load \in Orders /\ b.line \in Orders /\ b.clear = TRUE
      BY DEF Elsewhere
    <3> QED
      BY <3>2, <3>3 DEF Bookings, Maybe
  <2>2. bookings \subseteq Bookings
    BY <2>1 DEF Init
  <2>3. NoTable \in Tables
    BY DEF NoTable, Tables, Maybe
  <2>4. page \in [Pages -> PageStates]
    <3> DEFINE empty(d) ==
          [text |-> None, who |-> None, load |-> None, line |-> None, day |-> d,
           table |-> NoTable, checked |-> {}, contact |-> None, id |-> None, opened |-> None,
           button |-> "none", unnamed |-> FALSE]
    <3>1. PICK today \in Days : page = [p \in Pages |-> empty(today)]
      BY DEF Init
    <3>2. empty(today) \in PageStates
      BY <2>3 DEF PageStates, Maybe, Buttons
    <3> HIDE DEF empty
    <3> QED
      BY <3>1, <3>2
  <2>5. \A p \in Pages : page[p].load = None /\ page[p].button = "none"
    BY DEF Init
  <2>6. PagesGood
    BY <2>4, <2>5 DEF PagesGood, Good
  <2>7. lookups = {} /\ searches = {} /\ reservations = {} /\ changes = {} /\ reserved = 0
    BY DEF Init
  <2> QED
    BY <2>2, <2>4, <2>6, <2>7, BoundsAssumption DEF TypeOK
<1>2. TypeOK /\ PagesGood /\ [Next]_vars => TypeOK' /\ PagesGood'
  <2> SUFFICES ASSUME TypeOK, PagesGood, [Next]_vars
               PROVE  TypeOK' /\ PagesGood'
    OBVIOUS
  <2> USE DEF TypeOK
  <2>1. ASSUME NEW p \in BookingPages, UserOfBookingPage(p)
        PROVE  TypeOK' /\ PagesGood'
    <3>1. p \in Pages /\ page[p] \in Good(p) /\ page[p] \in PageStates
      BY DEF Pages, PagesGood
    <3>2. ASSUME NEW o \in Orders, TypeOrder(p, o)
          PROVE  TypeOK' /\ PagesGood'
      <4>1. [page[p] EXCEPT !.text = o] \in Good(p)
        BY <3>1 DEF PageStates, Good, Maybe
      <4>2. page' = [page EXCEPT ![p] = [page[p] EXCEPT !.text = o]]
        BY <3>1, <3>2 DEF TypeOrder, PageStates
      <4> QED
        BY <3>1, <3>2, <4>1, <4>2, PageStep DEF TypeOrder
    <3>3. ASSUME NEW d \in Days, NEW keep \in BOOLEAN, ChangeDay(p, d, keep)
          PROVE  TypeOK' /\ PagesGood'
      <4> DEFINE s == [page[p] EXCEPT !.day = d, !.load = IF keep THEN @ ELSE None]
      <4>1. s \in Good(p)
        <5>1. s \in PageStates
          BY <3>1 DEF PageStates, Maybe
        <5>2. /\ s.load \in {page[p].load, None} /\ s.line = page[p].line /\ s.who = page[p].who
              /\ s.contact = page[p].contact /\ s.opened = page[p].opened
              /\ s.unnamed = page[p].unnamed
              /\ s.id = page[p].id /\ s.button = page[p].button
          BY <3>1 DEF PageStates
        <5> HIDE DEF s
        <5> QED
          BY <3>1, <5>1, <5>2 DEF Good
      <4>2. page' = [page EXCEPT ![p] = s]
        BY <3>1, <3>3 DEF ChangeDay, PageStates
      <4> HIDE DEF s
      <4> QED
        BY <3>1, <3>3, <4>1, <4>2, PageStep DEF ChangeDay
    <3>4. ASSUME SearchCustomer(p)
          PROVE  TypeOK' /\ PagesGood'
      <4>1. page[p].text \in Orders
        BY <3>1, <3>4 DEF SearchCustomer, PageStates, Maybe
      <4>2. ClearResultTable(page[p]) \in Good(p)
        BY <3>1, HandlersGood
      <4>3. [page |-> p, order |-> page[p].text] \in Lookups
        BY <4>1 DEF Lookups
      <4>4. /\ page' = [page EXCEPT ![p] = ClearResultTable(page[p])]
            /\ lookups' = lookups \union {[page |-> p, order |-> page[p].text]}
            /\ UNCHANGED <<bookings, searches, reservations, changes, reserved>>
        BY <3>4 DEF SearchCustomer
      <4> QED
        BY <3>1, <4>2, <4>3, <4>4, PageStep
    <3>5. ASSUME ShowTimes(p)
          PROVE  TypeOK' /\ PagesGood'
      <4> DEFINE s == [ClearForm(page[p]) EXCEPT !.button = "none"]
      <4>1. ClearForm(page[p]) \in Good(p)
        BY <3>1, HandlersGood
      <4>2. s \in Good(p)
        BY <4>1 DEF Good, PageStates, Buttons
      <4> HIDE DEF s
      <4>3. /\ page' = [page EXCEPT ![p] = ClearResultTable(s)]
            /\ searches' = searches \union SlotSearch(p, s)
            /\ UNCHANGED <<bookings, lookups, reservations, changes, reserved>>
        BY <3>5 DEF ShowTimes, s
      <4>4. ClearResultTable(s) \in Good(p) /\ s \in PageStates
        BY <3>1, <4>2, HandlersGood
      <4>5. SlotSearch(p, s) \subseteq Searches
        BY <3>1, <4>4, SearchTyped
      <4> QED
        BY <3>1, <4>3, <4>4, <4>5, PageStep
    <3>6. ASSUME NEW slot \in Slots, Check(p, slot)
          PROVE  TypeOK' /\ PagesGood'
      <4> DEFINE now == IF slot \in page[p].checked THEN page[p].checked \ {slot}
                        ELSE page[p].checked \union {slot}
                 t == [page[p] EXCEPT !.checked = now]
                 u == [t EXCEPT !.button = IF @ = "save" THEN "none" ELSE @]
      <4>1. now \in SUBSET Slots
        BY <3>1 DEF PageStates
      <4>2. t \in Good(p) /\ u \in Good(p)
        BY <3>1, <4>1 DEF PageStates, Good, Buttons
      <4>3. ClearForm(t) \in Good(p)
        BY <3>1, <4>2, HandlersGood
      <4>4. /\ page' = [page EXCEPT ![p] = IF now # {} THEN ClearForm(t) ELSE u]
            /\ UNCHANGED <<bookings, lookups, searches, reservations, changes, reserved>>
        BY <3>6 DEF Check
      <4>5. (IF now # {} THEN ClearForm(t) ELSE u) \in Good(p)
        BY <4>2, <4>3
      <4> HIDE DEF now, t, u
      <4> QED
        BY <3>1, <4>4, <4>5, PageStep
    <3>7. ASSUME NEW answered \in BOOLEAN, MakeReservation(p, answered)
          PROVE  TypeOK' /\ PagesGood'
      <4> DEFINE c == [seq |-> reserved + 1, page |-> p, order |-> page[p].text, day |-> page[p].day,
                       slots |-> page[p].checked, who |-> page[p].who,
                       contact |-> page[p].contact,
                       load |-> page[p].load, line |-> page[p].line, clear |-> answered,
                       done |-> FALSE]
      <4>1. reserved + 1 \in 1..MaxReserved
        BY <3>7, BoundsAssumption DEF MakeReservation
      <4>2. page[p].load \in Orders
        BY <3>1, <3>7 DEF MakeReservation, Complete, PageStates, Maybe
      <4>3. c \in Reservations
        BY <3>1, <4>1, <4>2 DEF Reservations, PageStates
      <4>4. /\ reservations' = reservations \union {c} /\ reserved' = reserved + 1
            /\ UNCHANGED <<bookings, page, lookups, searches, changes>>
        BY <3>7 DEF MakeReservation
      <4>5. reserved' \in 0..MaxReserved
        BY <4>1, <4>4, BoundsAssumption
      <4> QED
        BY <4>3, <4>4, <4>5 DEF PagesGood
    <3> QED
      BY <2>1, <3>2, <3>3, <3>4, <3>5, <3>6, <3>7 DEF UserOfBookingPage
  <2>2. ASSUME NEW p \in ListPages, DoSearch(p)
        PROVE  TypeOK' /\ PagesGood'
    <3>1. p \in Pages /\ page[p] \in Good(p)
      BY DEF Pages, PagesGood
    <3>2. CloseForm(page[p]) \in Good(p)
      BY <3>1, HandlersGood
    <3>3. ListSearch(p) \in Searches
      BY <3>1, SearchTyped
    <3> QED
      BY <2>2, <3>1, <3>2, <3>3, PageStep DEF DoSearch
  <2>3. ASSUME NEW p \in Pages, UserOfEitherPage(p)
        PROVE  TypeOK' /\ PagesGood'
    <3>1. page[p] \in PageStates /\ page[p] \in Good(p)
      BY DEF PagesGood
    <3>2. page[p].table.rows \subseteq Rows
      BY <3>1 DEF PageStates, Tables
    <3>3. ASSUME NEW r \in page[p].table.rows, EditBooking(p, r)
          PROVE  TypeOK' /\ PagesGood'
      <4>1. CopyValuesToEnableEdit(page[p], r) \in Good(p)
        BY <3>1, <3>2, HandlersGood
      <4> QED
        BY <3>3, <4>1, PageStep DEF EditBooking
    <3>4. ASSUME NEW r \in page[p].table.rows, DeleteReservation(p, r)
          PROVE  TypeOK' /\ PagesGood'
      <4> DEFINE s == IF p \in ListPages THEN ClearFormList(page[p]) ELSE ClearForm(page[p])
      <4>1. [kind |-> "delete", page |-> p, id |-> r.id, contact |-> None, line |-> None,
             done |-> FALSE] \in Changes
        BY <3>2 DEF Changes, Rows, Maybe
      <4>2. s \in Good(p)
        BY <3>1, HandlersGood
      <4>3. page' = [page EXCEPT ![p] = s]
        BY <3>4 DEF DeleteReservation
      <4> HIDE DEF s
      <4> QED
        BY <3>4, <4>1, <4>2, <4>3, PageStep DEF DeleteReservation
    <3>5. ASSUME UpdateReservation(p)
          PROVE  TypeOK' /\ PagesGood'
      <4>1. page[p].id \in BookingIds
        BY <3>1, <3>5 DEF UpdateReservation, Good
      <4>2. [kind |-> "update", page |-> p, id |-> page[p].id, contact |-> page[p].contact,
             line |-> IF p \in ListPages THEN None ELSE page[p].line, done |-> FALSE] \in Changes
        BY <3>1, <4>1 DEF Changes, PageStates, Maybe
      <4> QED
        BY <3>5, <4>2 DEF UpdateReservation, PagesGood
    <3> QED
      BY <2>3, <3>3, <3>4, <3>5 DEF UserOfEitherPage
  <2>4. ASSUME NEW c \in lookups, NEW named \in BOOLEAN, NEW loaded \in BOOLEAN,
               CustomerAnswered(c, named, loaded)
        PROVE  TypeOK' /\ PagesGood'
    <3> DEFINE p == c.page
               s == Filled(page[p], c.order, named, loaded)
               searching == c.order \notin Closed /\ Complete(s)
    <3>1. p \in BookingPages /\ p \in Pages /\ c.order \in Orders /\ page[p] \in Good(p)
      BY DEF Lookups, Pages, PagesGood
    <3>2. s \in Good(p)
      BY <3>1, HandlersGood
    <3> HIDE DEF s
    <3>3. s \in PageStates /\ ClearResultTable(s) \in Good(p)
      BY <3>1, <3>2, HandlersGood
    <3>4. SlotSearch(p, s) \subseteq Searches
      BY <3>1, <3>3, SearchTyped
    <3>5. /\ page' = [page EXCEPT ![p] = IF searching THEN ClearResultTable(s) ELSE s]
          /\ searches' = searches \union (IF searching THEN SlotSearch(p, s) ELSE {})
          /\ lookups' = lookups \ {c}
          /\ UNCHANGED <<bookings, reservations, changes, reserved>>
      BY <2>4 DEF CustomerAnswered, s
    <3> HIDE DEF searching
    <3>6. (IF searching THEN ClearResultTable(s) ELSE s) \in Good(p)
      BY <3>2, <3>3
    <3> QED
      BY <3>1, <3>4, <3>5, <3>6, PageStep
  <2>5. ASSUME NEW c \in lookups, CustomerFailed(c)
        PROVE  TypeOK' /\ PagesGood'
    BY <2>5 DEF CustomerFailed, PagesGood
  <2>6. ASSUME NEW c \in searches, ExecuteSearch(c)
        PROVE  TypeOK' /\ PagesGood'
    <3>1. TableOf(c.day) \in Tables
      BY TableTyped DEF Searches
    <3>2. [c EXCEPT !.done = TRUE, !.table = TableOf(c.day)] \in Searches
      BY <3>1 DEF Searches
    <3> QED
      BY <2>6, <3>2 DEF ExecuteSearch, PagesGood
  <2>7. ASSUME NEW c \in searches, SearchAnswered(c) \/ SearchFailed(c)
        PROVE  TypeOK' /\ PagesGood'
    <3>1. c.page \in Pages /\ page[c.page] \in Good(c.page) /\ c.table \in Tables /\ NoTable \in Tables
      BY DEF Searches, PagesGood, NoTable, Tables, Maybe
    <3>2. ASSUME NEW t \in Tables
          PROVE  (IF c.page \in ListPages THEN ShowList(page[c.page], t)
                  ELSE ShowSlots(page[c.page], t)) \in Good(c.page)
      BY <3>1, HandlersGood
    <3>3. PICK t \in Tables :
            page' = [page EXCEPT ![c.page] = IF c.page \in ListPages THEN ShowList(page[c.page], t)
                                             ELSE ShowSlots(page[c.page], t)]
      BY <2>7, <3>1 DEF SearchAnswered, SearchFailed
    <3> QED
      BY <2>7, <3>1, <3>2, <3>3, PageStep DEF SearchAnswered, SearchFailed
  <2>8. ASSUME NEW c \in reservations, ExecuteReservation(c)
        PROVE  TypeOK' /\ PagesGood'
    <3>1. ASSUME NEW slot \in c.slots
          PROVE  BookingOf(c, slot) \in Bookings
      <4>1. c.seq \in 0..MaxReserved /\ slot \in Slots
        BY BoundsAssumption DEF Reservations
      <4>2. <<c.seq, slot>> \in BookingIds
        BY <4>1 DEF BookingIds
      <4> QED
        BY <4>2 DEF BookingOf, Bookings, Reservations
    <3>2. bookings' \subseteq Bookings
      BY <2>8, <3>1 DEF ExecuteReservation
    <3>3. ASSUME NEW x \in reservations, NEW d \in BOOLEAN, NEW cl \in BOOLEAN
          PROVE  [x EXCEPT !.done = d, !.clear = cl] \in Reservations
      BY DEF Reservations
    <3>4. reservations' \subseteq Reservations
      BY <2>8, <3>3 DEF ExecuteReservation
    <3> QED
      BY <2>8, <3>2, <3>4 DEF ExecuteReservation, PagesGood
  <2>9. ASSUME NEW c \in reservations, ReservationAnswered(c)
        PROVE  TypeOK' /\ PagesGood'
    <3> DEFINE s == ClearForm(page[c.page])
    <3>1. c.page \in Pages /\ page[c.page] \in Good(c.page)
      BY DEF Reservations, PagesGood
    <3>2. s \in Good(c.page)
      BY <3>1, HandlersGood
    <3>3. /\ page' = [page EXCEPT ![c.page] = ClearResultTable(s)]
          /\ searches' = searches \union SlotSearch(c.page, s)
          /\ reservations' = reservations \ {c}
          /\ UNCHANGED <<bookings, lookups, changes, reserved>>
      BY <2>9 DEF ReservationAnswered
    <3> HIDE DEF s
    <3>4. ClearResultTable(s) \in Good(c.page) /\ s \in PageStates
      BY <3>1, <3>2, HandlersGood
    <3>5. SlotSearch(c.page, s) \subseteq Searches
      BY <3>1, <3>4, SearchTyped
    <3> QED
      BY <3>1, <3>3, <3>4, <3>5, PageStep
  <2>10. ASSUME NEW c \in reservations, ReservationFailed(c)
         PROVE  TypeOK' /\ PagesGood'
    BY <2>10 DEF ReservationFailed, PagesGood
  <2>11. ASSUME NEW c \in changes, NEW refused \in BOOLEAN, ExecuteChange(c, refused)
         PROVE  TypeOK' /\ PagesGood'
    <3>1. ASSUME NEW b \in bookings
          PROVE  Changed(b, c) \in Bookings
      BY DEF Changed, Bookings, Changes
    <3>2. bookings' \subseteq Bookings
      BY <2>11, <3>1 DEF ExecuteChange
    <3>3. [c EXCEPT !.done = TRUE] \in Changes
      BY DEF Changes
    <3> QED
      BY <2>11, <3>2, <3>3 DEF ExecuteChange, PagesGood
  <2>12. ASSUME NEW c \in changes, ChangeAnswered(c)
         PROVE  TypeOK' /\ PagesGood'
    <3> DEFINE p == c.page
               s == IF c.kind = "update" THEN ClearForm(page[p]) ELSE page[p]
               l == IF c.kind = "update" THEN ClearFormList(page[p]) ELSE CloseForm(page[p])
    <3>1. p \in Pages /\ page[p] \in Good(p)
      BY DEF Changes, PagesGood
    <3>2. s \in Good(p) /\ l \in Good(p)
      BY <3>1, HandlersGood
    <3>3. /\ page' = [page EXCEPT ![p] = IF p \in ListPages THEN l ELSE ClearResultTable(s)]
          /\ searches' = searches \union IF p \in ListPages THEN {ListSearch(p)} ELSE SlotSearch(p, s)
          /\ changes' = changes \ {c}
          /\ UNCHANGED <<bookings, lookups, reservations, reserved>>
      BY <2>12 DEF ChangeAnswered
    <3> HIDE DEF s, l
    <3>4. ClearResultTable(s) \in Good(p) /\ s \in PageStates
      BY <3>1, <3>2, HandlersGood
    <3>5. SlotSearch(p, s) \subseteq Searches /\ ListSearch(p) \in Searches
      BY <3>1, <3>4, SearchTyped
    <3>6. (IF p \in ListPages THEN l ELSE ClearResultTable(s)) \in Good(p)
      BY <3>2, <3>4
    <3> QED
      BY <3>1, <3>3, <3>5, <3>6, PageStep
  <2>13. ASSUME NEW c \in changes, ChangeFailed(c)
         PROVE  TypeOK' /\ PagesGood'
    <3> DEFINE p == c.page
    <3>1. p \in Pages /\ page[p] \in Good(p)
      BY DEF Changes, PagesGood
    <3>2. /\ (IF p \in ListPages THEN CloseForm(page[p]) ELSE ClearResultTable(page[p])) \in Good(p)
          /\ page[p] \in PageStates
      BY <3>1, HandlersGood
    <3>3. SlotSearch(p, page[p]) \subseteq Searches /\ ListSearch(p) \in Searches
      BY <3>1, <3>2, SearchTyped
    <3> QED
      BY <2>13, <3>1, <3>2, <3>3, PageStep DEF ChangeFailed
  <2>14. CASE UNCHANGED vars
    BY <2>14 DEF vars, PagesGood
  <2> QED
    BY <2>1, <2>2, <2>3, <2>4, <2>5, <2>6, <2>7, <2>8, <2>9, <2>10, <2>11, <2>12, <2>13, <2>14
       DEF Next, Answers
<1> QED
  BY <1>1, <1>2, PTL DEF Spec

\* The type invariant alone.
COROLLARY TypeCorrect == Spec => []TypeOK
BY TypeInvariance, PTL

\* What else is true of the reservations: they are counted, and a clear one that is
\* not yet executed finds no booking of its order and day.
Clear ==
  /\ \A c \in reservations : c.seq <= reserved
  /\ \A c \in reservations :
       ~c.done /\ c.clear /\ c.order # None => BookingsOf(c.order, c.day) = {}

\* A step that books nothing, changes no booking and sends no reservation.
Quiet == reservations' \subseteq reservations /\ UNCHANGED <<bookings, reserved>>

\* Every step sends a reservation, has one executed, has a change executed, or is quiet.
LEMMA StepKinds ==
  ASSUME [Next]_vars
  PROVE  \/ \E p \in BookingPages, answered \in BOOLEAN : MakeReservation(p, answered)
         \/ \E c \in reservations : ExecuteReservation(c)
         \/ \E c \in changes, refused \in BOOLEAN : ExecuteChange(c, refused)
         \/ Quiet
<1> USE DEF Quiet
<1>1. ASSUME NEW p \in BookingPages, UserOfBookingPage(p)
      PROVE  (\E answered \in BOOLEAN : MakeReservation(p, answered)) \/ Quiet
  BY <1>1 DEF UserOfBookingPage, TypeOrder, ChangeDay, SearchCustomer, ShowTimes, Check
<1>2. ASSUME NEW p \in Pages, UserOfEitherPage(p) PROVE Quiet
  BY <1>2 DEF UserOfEitherPage, EditBooking, DeleteReservation, UpdateReservation
<1>3. ASSUME NEW p \in ListPages, DoSearch(p) PROVE Quiet
  BY <1>3 DEF DoSearch
<1>4. ASSUME NEW c \in lookups,
             CustomerFailed(c) \/ \E named, loaded \in BOOLEAN : CustomerAnswered(c, named, loaded)
      PROVE  Quiet
  BY <1>4 DEF CustomerFailed, CustomerAnswered
<1>5. ASSUME NEW c \in searches, ExecuteSearch(c) \/ SearchAnswered(c) \/ SearchFailed(c)
      PROVE  Quiet
  BY <1>5 DEF ExecuteSearch, SearchAnswered, SearchFailed
<1>6. ASSUME NEW c \in reservations, ReservationAnswered(c) \/ ReservationFailed(c)
      PROVE  Quiet
  BY <1>6 DEF ReservationAnswered, ReservationFailed
<1>7. ASSUME NEW c \in changes, ChangeAnswered(c) \/ ChangeFailed(c)
      PROVE  Quiet
  BY <1>7 DEF ChangeAnswered, ChangeFailed
<1>8. CASE UNCHANGED vars
  BY <1>8 DEF vars
<1> HIDE DEF Quiet
<1> QED
  BY <1>1, <1>2, <1>3, <1>4, <1>5, <1>6, <1>7, <1>8 DEF Next, Answers

\* A step that keeps the bookings, the reservations and their count.
LEMMA ClearKept ==
  ASSUME Clear, OneBookingUnlessRaced, reservations' \subseteq reservations,
         UNCHANGED <<bookings, reserved>>
  PROVE  Clear' /\ OneBookingUnlessRaced'
BY DEF Clear, OneBookingUnlessRaced, BookingsOf

\* The reservations stay counted and clear, and no two of them that are clear make
\* bookings of one order on one day.
LEMMA ClearStep ==
  ASSUME TypeOK, TypeOK', Clear, OneBookingUnlessRaced, [Next]_vars
  PROVE  Clear' /\ OneBookingUnlessRaced'
<1>1. ASSUME NEW p \in BookingPages, NEW answered \in BOOLEAN, MakeReservation(p, answered)
      PROVE  Clear' /\ OneBookingUnlessRaced'
  <2> DEFINE n == [seq |-> reserved + 1, page |-> p, order |-> page[p].text, day |-> page[p].day,
                   slots |-> page[p].checked, who |-> page[p].who,
                   contact |-> page[p].contact,
                   load |-> page[p].load, line |-> page[p].line, clear |-> answered,
                   done |-> FALSE]
  <2>1. /\ reservations' = reservations \union {n} /\ reserved' = reserved + 1
        /\ bookings' = bookings /\ (answered => ~ExistBooking(page[p].text, page[p].day))
    BY <1>1 DEF MakeReservation
  <2>2. reserved \in Nat /\ \A c \in reservations : c.seq \in Nat
    BY BoundsAssumption DEF TypeOK, Reservations
  <2>3. \A c \in reservations' : c.seq <= reserved'
    BY <2>1, <2>2 DEF Clear
  <2>4. n.clear /\ n.order # None => BookingsOf(n.order, n.day) = {}
    BY <2>1 DEF ExistBooking
  <2> HIDE DEF n
  <2>5. \A c \in reservations' :
          ~c.done /\ c.clear /\ c.order # None => BookingsOf(c.order, c.day) = {}
    BY <2>1, <2>4 DEF Clear
  <2> QED
    BY <2>1, <2>3, <2>5 DEF Clear, OneBookingUnlessRaced, BookingsOf
<1>2. ASSUME NEW c \in reservations, ExecuteReservation(c)
      PROVE  Clear' /\ OneBookingUnlessRaced'
  <2> DEFINE booked == c.slots \ SlotsOn(c.day)
             overtaken(x) == ~x.done /\ x # c /\ x.order = c.order /\ x.day = c.day /\ booked # {}
             after(x) == [x EXCEPT !.done = x.done \/ x = c, !.clear = x.clear /\ ~overtaken(x)]
  <2>1. /\ bookings' = bookings \union {BookingOf(c, slot) : slot \in booked}
        /\ reservations' = {after(x) : x \in reservations} /\ reserved' = reserved /\ ~c.done
    BY <1>2 DEF ExecuteReservation
  <2>2. \A x \in reservations :
          /\ after(x).seq = x.seq /\ after(x).order = x.order /\ after(x).day = x.day
          /\ after(x).done = (x.done \/ x = c) /\ after(x).clear = (x.clear /\ ~overtaken(x))
    BY DEF TypeOK, Reservations
  <2>3. \A slot : /\ BookingOf(c, slot).order = c.order /\ BookingOf(c, slot).day = c.day
                  /\ BookingOf(c, slot).clear = c.clear /\ BookingOf(c, slot).id[1] = c.seq
    BY DEF BookingOf
  <2> HIDE DEF after, booked
  <2>4. \A y \in reservations' : y.seq <= reserved'
    BY <2>1, <2>2 DEF Clear
  <2>5. ASSUME NEW y \in reservations', ~y.done, y.clear, y.order # None,
               NEW b \in bookings', b.order = y.order, b.day = y.day
        PROVE  FALSE
    <3>1. PICK x \in reservations : y = after(x)
      BY <2>1
    <3>2. ~x.done /\ x # c /\ x.clear /\ ~overtaken(x) /\ x.order = y.order /\ x.day = y.day
      BY <2>2, <2>5, <3>1
    <3>3. b \notin bookings
      BY <2>5, <3>2 DEF Clear, BookingsOf
    <3>4. booked # {} /\ b.order = c.order /\ b.day = c.day
      BY <2>1, <2>3, <3>3
    <3> QED
      BY <2>5, <3>2, <3>4
  <2>6. ASSUME NEW a \in bookings', NEW b \in bookings', a.order = b.order, a.day = b.day,
               a.order # None, a.clear, b.clear
        PROVE  a.id[1] = b.id[1]
    <3>1. CASE a \in bookings /\ b \in bookings
      BY <2>6, <3>1 DEF OneBookingUnlessRaced
    <3>2. CASE a \notin bookings /\ b \notin bookings
      BY <2>1, <2>3, <3>2
    <3>3. \A new \in bookings', old \in bookings :
            new \notin bookings /\ new.clear /\ new.order # None
              => ~(old.order = new.order /\ old.day = new.day)
      BY <2>1, <2>3 DEF Clear, BookingsOf
    <3> QED
      BY <2>6, <3>1, <3>2, <3>3
  <2> QED
    BY <2>4, <2>5, <2>6 DEF Clear, OneBookingUnlessRaced, BookingsOf
<1>3. ASSUME NEW c \in changes, NEW refused \in BOOLEAN, ExecuteChange(c, refused)
      PROVE  Clear' /\ OneBookingUnlessRaced'
  <2>1. \A b \in bookings :
          /\ Changed(b, c).id = b.id /\ Changed(b, c).order = b.order
          /\ Changed(b, c).day = b.day /\ Changed(b, c).clear = b.clear
    BY DEF Changed, TypeOK, Bookings
  <2>2. \A b \in bookings' : \E a \in bookings :
          b.id = a.id /\ b.order = a.order /\ b.day = a.day /\ b.clear = a.clear
    BY <1>3, <2>1 DEF ExecuteChange
  <2>3. reservations' = reservations /\ reserved' = reserved
    BY <1>3 DEF ExecuteChange
  <2>4. OneBookingUnlessRaced'
    BY <2>2 DEF OneBookingUnlessRaced
  <2>5. Clear'
    BY <2>2, <2>3 DEF Clear, BookingsOf
  <2> QED
    BY <2>4, <2>5
<1>4. CASE Quiet
  BY <1>4, ClearKept DEF Quiet
<1> QED
  BY <1>1, <1>2, <1>3, <1>4, StepKinds

\* Two bookings of one order on one day come from one request, unless a check failed
\* or was overtaken.
THEOREM OneBooking == Spec => [](Clear /\ OneBookingUnlessRaced)
<1>1. Init => Clear /\ OneBookingUnlessRaced
  BY DEF Init, Clear, OneBookingUnlessRaced
<1>2. TypeOK /\ TypeOK' /\ Clear /\ OneBookingUnlessRaced /\ [Next]_vars
        => Clear' /\ OneBookingUnlessRaced'
  BY ClearStep
<1> QED
  BY <1>1, <1>2, TypeInvariance, PTL DEF Spec

\* A reservation goes out with the line of its load's order and the contact of its
\* customer, who is that of the load unless an answer filled only one of the two.
THEOREM OneForm == Spec => ReservesWhatTheFormShows
<1>1. TypeOK /\ PagesGood /\ Clear /\ [Next]_vars =>
        [\A c \in reservations' :
           c.seq > reserved =>
             /\ c.line = c.load
             /\ c.contact = c.who
             /\ c.who = c.load \/ c.who \in Closed \/ page[c.page].unnamed]_vars
  <2> SUFFICES ASSUME TypeOK, PagesGood, Clear, Next, NEW c \in reservations', c.seq > reserved
               PROVE  /\ c.line = c.load
                      /\ c.contact = c.who
                      /\ c.who = c.load \/ c.who \in Closed \/ page[c.page].unnamed
    OBVIOUS
  <2>1. ASSUME reservations' \subseteq reservations
        PROVE  FALSE
    <3>1. c.seq \in Nat /\ reserved \in Nat /\ c.seq <= reserved
      BY <2>1, BoundsAssumption DEF TypeOK, Reservations, Clear
    <3> QED
      BY <3>1
  <2>2. ASSUME NEW x \in reservations, ExecuteReservation(x)
        PROVE  FALSE
    <3>1. PICK y \in reservations : c.seq = y.seq
      BY <2>2 DEF ExecuteReservation, TypeOK, Reservations
    <3>2. y.seq \in Nat /\ reserved \in Nat /\ y.seq <= reserved
      BY BoundsAssumption DEF TypeOK, Reservations, Clear
    <3> QED
      BY <3>1, <3>2
  <2>3. PICK p \in BookingPages, answered \in BOOLEAN : MakeReservation(p, answered)
    <3>1. ASSUME NEW x \in changes,
                 ChangeAnswered(x) \/ ChangeFailed(x) \/ \E refused \in BOOLEAN : ExecuteChange(x, refused)
          PROVE  reservations' = reservations
      BY <3>1 DEF ChangeAnswered, ChangeFailed, ExecuteChange
    <3>2. ASSUME NEW x \in searches, ExecuteSearch(x) \/ SearchAnswered(x) \/ SearchFailed(x)
          PROVE  reservations' = reservations
      BY <3>2 DEF ExecuteSearch, SearchAnswered, SearchFailed
    <3>3. ASSUME NEW x \in lookups,
                 CustomerFailed(x) \/ \E named, loaded \in BOOLEAN : CustomerAnswered(x, named, loaded)
          PROVE  reservations' = reservations
      BY <3>3 DEF CustomerFailed, CustomerAnswered
    <3>4. ASSUME NEW x \in reservations, ReservationAnswered(x) \/ ReservationFailed(x)
          PROVE  reservations' \subseteq reservations
      BY <3>4 DEF ReservationAnswered, ReservationFailed
    <3>5. ASSUME NEW p \in Pages, UserOfEitherPage(p) \/ DoSearch(p)
          PROVE  reservations' = reservations
      BY <3>5 DEF UserOfEitherPage, EditBooking, DeleteReservation, UpdateReservation, DoSearch
    <3>6. ~Answers
      BY <2>1, <2>2, <3>1, <3>2, <3>3, <3>4 DEF Answers
    <3>7. PICK p \in BookingPages : UserOfBookingPage(p)
      BY <2>1, <3>5, <3>6 DEF Next, Pages
    <3> QED
      BY <2>1, <3>7 DEF UserOfBookingPage, TypeOrder, ChangeDay, SearchCustomer, ShowTimes, Check
  <2>4. page[p] \in Good(p)
    BY DEF PagesGood, Pages
  <2>5. /\ c.contact = page[p].contact /\ c.load = page[p].load /\ c.line = page[p].line
        /\ c.who = page[p].who /\ c.page = p
        /\ page[p].button = "save" /\ page[p].load # None
    <3>1. c \notin reservations
      <4>1. ASSUME c \in reservations PROVE FALSE
        <5>1. c.seq \in Nat /\ reserved \in Nat /\ c.seq <= reserved
          BY <4>1, BoundsAssumption DEF TypeOK, Reservations, Clear
        <5> QED
          BY <5>1
      <4> QED
        BY <4>1
    <3> QED
      BY <2>3, <3>1 DEF MakeReservation, Complete
  <2> QED
    BY <2>4, <2>5 DEF Good
<1> QED
  BY <1>1, TypeInvariance, OneBooking, PTL DEF Spec, ReservesWhatTheFormShows

\* The list changes the booking that was opened.
THEOREM ListUpdates == Spec => ListUpdatesWhatWasOpened
<1>1. TypeOK /\ PagesGood /\ [Next]_vars =>
        [\A c \in changes' \ changes :
           c.kind = "update" /\ c.page \in ListPages /\ ~c.done =>
             c.contact = page[c.page].opened]_vars
  <2> SUFFICES ASSUME TypeOK, PagesGood, Next, NEW c \in changes' \ changes,
                      c.kind = "update", c.page \in ListPages, ~c.done
               PROVE  c.contact = page[c.page].opened
    OBVIOUS
  <2>1. ASSUME NEW x \in changes,
               ChangeAnswered(x) \/ ChangeFailed(x) \/ \E refused \in BOOLEAN : ExecuteChange(x, refused)
        PROVE  FALSE
    BY <2>1 DEF ChangeAnswered, ChangeFailed, ExecuteChange, TypeOK, Changes
  <2>2. ASSUME NEW x \in searches, ExecuteSearch(x) \/ SearchAnswered(x) \/ SearchFailed(x)
        PROVE  FALSE
    BY <2>2 DEF ExecuteSearch, SearchAnswered, SearchFailed
  <2>3. ASSUME NEW x \in lookups,
               CustomerFailed(x) \/ \E named, loaded \in BOOLEAN : CustomerAnswered(x, named, loaded)
        PROVE  FALSE
    BY <2>3 DEF CustomerFailed, CustomerAnswered
  <2>4. ASSUME NEW x \in reservations,
               ExecuteReservation(x) \/ ReservationAnswered(x) \/ ReservationFailed(x)
        PROVE  FALSE
    BY <2>4 DEF ExecuteReservation, ReservationAnswered, ReservationFailed
  <2>5. ASSUME NEW p \in BookingPages, UserOfBookingPage(p)
        PROVE  FALSE
    BY <2>5 DEF UserOfBookingPage, TypeOrder, ChangeDay, SearchCustomer, ShowTimes, Check, MakeReservation
  <2>6. ASSUME NEW p \in ListPages, DoSearch(p)
        PROVE  FALSE
    BY <2>6 DEF DoSearch
  <2>7. PICK p \in Pages : UserOfEitherPage(p)
    BY <2>1, <2>2, <2>3, <2>4, <2>5, <2>6 DEF Next, Answers
  <2>8. UpdateReservation(p)
    BY <2>7 DEF UserOfEitherPage, EditBooking, DeleteReservation
  <2>9. c.page = p /\ c.contact = page[p].contact /\ page[p].button = "update"
    BY <2>8 DEF UpdateReservation
  <2> QED
    BY <2>9 DEF PagesGood, Good
<1> QED
  BY <1>1, TypeInvariance, PTL DEF Spec, ListUpdatesWhatWasOpened
-----------------------------------------------------------------------------
(* The bookings as BookingLedger describes them.                             *)

\* Bookings are told apart by their id, and reservations by the number of the request,
\* which is part of it: one that is not yet executed has made no booking.
Numbered ==
  /\ \A a, b \in bookings : a.id = b.id => a = b
  /\ \A b \in bookings : b.id[1] <= reserved
  /\ \A c, e \in reservations : c.seq = e.seq => c = e
  /\ \A c \in reservations, b \in bookings : ~c.done => b.id[1] # c.seq

\* Every step keeps the numbers apart.
LEMMA NumberedStep ==
  ASSUME TypeOK, TypeOK', Clear, Numbered, [Next]_vars
  PROVE  Numbered'
<1>0. /\ reserved \in Nat /\ reserved' \in Nat
      /\ \A c \in reservations : c.seq \in Nat
      /\ \A b \in bookings : b.id[1] \in Nat
      /\ \A b \in bookings' : b.id[1] \in Nat
  BY BoundsAssumption DEF TypeOK, Reservations, Bookings, BookingIds
<1>1. ASSUME NEW p \in BookingPages, NEW answered \in BOOLEAN, MakeReservation(p, answered)
      PROVE  Numbered'
  <2> DEFINE n == [seq |-> reserved + 1, page |-> p, order |-> page[p].text, day |-> page[p].day,
                   slots |-> page[p].checked, who |-> page[p].who,
                   contact |-> page[p].contact,
                   load |-> page[p].load, line |-> page[p].line, clear |-> answered,
                   done |-> FALSE]
  <2>1. /\ reservations' = reservations \union {n} /\ reserved' = reserved + 1
        /\ bookings' = bookings /\ n.seq = reserved + 1
    BY <1>1 DEF MakeReservation
  <2> HIDE DEF n
  <2>2. \A c \in reservations : c.seq < n.seq
    BY <1>0, <2>1 DEF Clear
  <2>3. \A b \in bookings : b.id[1] < n.seq
    BY <1>0, <2>1 DEF Numbered
  <2>4. \A b \in bookings' : b.id[1] <= reserved'
    BY <1>0, <2>1 DEF Numbered
  <2>5. \A c, e \in reservations' : c.seq = e.seq => c = e
    BY <1>0, <2>1, <2>2 DEF Numbered
  <2>6. \A c \in reservations', b \in bookings' : ~c.done => b.id[1] # c.seq
    BY <1>0, <2>1, <2>3 DEF Numbered
  <2> QED
    BY <2>1, <2>4, <2>5, <2>6 DEF Numbered
<1>2. ASSUME NEW c \in reservations, ExecuteReservation(c)
      PROVE  Numbered'
  <2> DEFINE booked == c.slots \ SlotsOn(c.day)
             overtaken(x) == ~x.done /\ x # c /\ x.order = c.order /\ x.day = c.day /\ booked # {}
             after(x) == [x EXCEPT !.done = x.done \/ x = c, !.clear = x.clear /\ ~overtaken(x)]
  <2>1. /\ bookings' = bookings \union {BookingOf(c, slot) : slot \in booked}
        /\ reservations' = {after(x) : x \in reservations} /\ reserved' = reserved
    BY <1>2 DEF ExecuteReservation
  <2>2. \A x \in reservations :
          after(x).seq = x.seq /\ after(x).done = (x.done \/ x = c)
    BY DEF TypeOK, Reservations
  <2>3. \A slot : BookingOf(c, slot).id = <<c.seq, slot>>
    BY DEF BookingOf
  <2> HIDE DEF after, booked
  <2>4. \A b \in bookings' : b \in bookings \/ b.id[1] = c.seq
    BY <2>1, <2>3
  <2>5. \A b \in bookings' : b.id[1] <= reserved'
    BY <2>1, <2>4 DEF Clear, Numbered
  <2>6. \A y, z \in reservations' : y.seq = z.seq => y = z
    BY <2>1, <2>2 DEF Numbered
  <2>7. ASSUME NEW y \in reservations', NEW b \in bookings', ~y.done, b.id[1] = y.seq
        PROVE  FALSE
    <3>1. PICK x \in reservations : y = after(x)
      BY <2>1
    <3>2. ~x.done /\ x # c /\ y.seq = x.seq
      BY <2>2, <2>7, <3>1
    <3>3. x.seq # c.seq
      BY <3>2 DEF Numbered
    <3>4. b \in bookings
      BY <2>4, <2>7, <3>2, <3>3
    <3> QED
      BY <2>7, <3>2, <3>4 DEF Numbered
  <2>8. ASSUME NEW a \in bookings', NEW b \in bookings', a.id = b.id
        PROVE  a = b
    <3>1. ~c.done /\ \A x \in bookings : x.id[1] # c.seq
      BY <1>2 DEF ExecuteReservation, Numbered
    <3>2. CASE a \in bookings /\ b \in bookings
      BY <2>8, <3>2 DEF Numbered
    <3>3. CASE a \notin bookings
      <4>1. PICK s \in booked : a = BookingOf(c, s)
        BY <2>1, <3>3
      <4>2. PICK t \in booked : b = BookingOf(c, t)
        BY <2>1, <2>3, <2>8, <3>1, <4>1
      <4> QED
        BY <2>3, <2>8, <4>1, <4>2
    <3>4. CASE b \notin bookings
      <4>1. PICK s \in booked : b = BookingOf(c, s)
        BY <2>1, <3>4
      <4>2. PICK t \in booked : a = BookingOf(c, t)
        BY <2>1, <2>3, <2>8, <3>1, <4>1
      <4> QED
        BY <2>3, <2>8, <4>1, <4>2
    <3> QED
      BY <3>2, <3>3, <3>4
  <2> QED
    BY <2>5, <2>6, <2>7, <2>8 DEF Numbered
<1>3. ASSUME NEW c \in changes, NEW refused \in BOOLEAN, ExecuteChange(c, refused)
      PROVE  Numbered'
  <2>1. \A b \in bookings : Changed(b, c).id = b.id
    BY DEF Changed, TypeOK, Bookings
  <2>2. \A b \in bookings' : \E a \in bookings :
           /\ b.id = a.id
           /\ b = IF ~refused /\ a.id = c.id THEN Changed(a, c) ELSE a
    BY <1>3, <2>1 DEF ExecuteChange
  <2>4. \A a, b \in bookings' : a.id = b.id => a = b
    BY <2>2 DEF Numbered
  <2>3. reservations' = reservations /\ reserved' = reserved
    BY <1>3 DEF ExecuteChange
  <2> QED
    BY <2>2, <2>3, <2>4 DEF Numbered
<1>4. CASE Quiet
  BY <1>4 DEF Quiet, Numbered
<1> QED
  BY <1>1, <1>2, <1>3, <1>4, StepKinds

\* A reservation that is executed is entered in the ledger.
LEMMA ReservationIsBooking ==
  ASSUME TypeOK, Clear, Numbered, NEW c \in reservations, ExecuteReservation(c)
  PROVE  [Ledger!Next]_({EntryOf(b) : b \in bookings})
<1>1. PICK r \in 1..MaxReserved, o \in Orders \union {None}, d \in Days, S \in SUBSET Slots,
           careful \in BOOLEAN :
        r = c.seq /\ o = c.order /\ d = c.day /\ S = c.slots \ SlotsOn(c.day) /\ careful = c.clear
  BY DEF TypeOK, Reservations, Maybe
<1>2. ~c.done /\ bookings' = bookings \union {BookingOf(c, slot) : slot \in S}
  BY <1>1 DEF ExecuteReservation
<1>3. \A s : EntryOf(BookingOf(c, s)) =
               [request |-> r, order |-> o, day |-> d, slot |-> s, careful |-> careful]
  BY <1>1 DEF EntryOf, BookingOf
<1> DEFINE entries == {EntryOf(b) : b \in bookings}
<1>4. entries' = entries \union
        {[request |-> r, order |-> o, day |-> d, slot |-> s, careful |-> careful] : s \in S}
  BY <1>2, <1>3
<1>5. \A e \in entries : e.request # r
  BY <1>1, <1>2 DEF Numbered, EntryOf
<1>6. S \intersect Ledger!TakenOn(d) = {}
  BY <1>1 DEF Ledger!TakenOn, SlotsOn, EntryOf
<1>7. careful /\ o # None => Ledger!EntriesOf(o, d) = {}
  <2> SUFFICES ASSUME careful, o # None, NEW b \in bookings, b.order = o, b.day = d
               PROVE  FALSE
    BY DEF Ledger!EntriesOf, EntryOf
  <2> QED
    BY <1>1, <1>2 DEF Clear, BookingsOf
<1>8. Ledger!Book(r, o, d, S, careful)
  BY <1>4, <1>5, <1>6, <1>7 DEF Ledger!Book
<1> QED
  BY <1>8 DEF Ledger!Next

\* A change that is executed cancels a booking at most.
LEMMA ChangeIsCancelling ==
  ASSUME TypeOK, Numbered, NEW c \in changes, NEW refused \in BOOLEAN, ExecuteChange(c, refused)
  PROVE  [Ledger!Next]_({EntryOf(b) : b \in bookings})
<1> DEFINE entries == {EntryOf(b) : b \in bookings}
           old == {b \in bookings : b.id = c.id}
<1>1. CASE refused
  BY <1>1 DEF ExecuteChange
<1>2. CASE ~refused /\ c.kind # "delete"
  <2>1. bookings' = (bookings \ old) \union {Changed(b, c) : b \in old}
    BY <1>2 DEF ExecuteChange
  <2>2. \A b \in bookings : EntryOf(Changed(b, c)) = EntryOf(b)
    BY DEF EntryOf, Changed, TypeOK, Bookings
  <2>3. entries' = entries
    BY <2>1, <2>2
  <2> QED
    BY <2>3
<1>3. CASE ~refused /\ c.kind = "delete"
  <2>1. bookings' = bookings \ old
    BY <1>3 DEF ExecuteChange
  <2>2. CASE old = {}
    BY <2>1, <2>2
  <2>3. CASE old # {}
    <3>1. PICK b \in bookings : b.id = c.id
      BY <2>3
    <3>2. \A a \in bookings : a.id = c.id <=> a = b
      BY <3>1 DEF Numbered
    <3>3. \A a \in bookings : EntryOf(a) = EntryOf(b) => a = b
      <4>1. \A a \in bookings : a.id = <<EntryOf(a).request, EntryOf(a).slot>>
        BY DEF EntryOf, TypeOK, Bookings, BookingIds
      <4> QED
        BY <4>1 DEF Numbered
    <3>4. PICK e : e = EntryOf(b)
      OBVIOUS
    <3>5. e \in entries /\ entries' = entries \ {e}
      BY <2>1, <3>2, <3>3, <3>4
    <3> QED
      BY <3>5 DEF Ledger!Next, Ledger!Cancel
  <2> QED
    BY <2>2, <2>3
<1> QED
  BY <1>1, <1>2, <1>3

\* Every step books, cancels, or leaves the ledger as it is.
LEMMA LedgerStep ==
  ASSUME TypeOK, Clear, Numbered, [Next]_vars
  PROVE  [Ledger!Next]_({EntryOf(b) : b \in bookings})
<1>1. ASSUME UNCHANGED bookings PROVE [Ledger!Next]_({EntryOf(b) : b \in bookings})
  BY <1>1
<1> QED
  BY <1>1, ReservationIsBooking, ChangeIsCancelling, StepKinds DEF MakeReservation, Quiet

\* Whatever the pages and the network do, the bookings are a ledger.
THEOREM BookingsAreALedger == Spec => ImplementsLedger
<1>1. Init => \A a, b \in bookings : a = b
  BY DEF Init
<1>2. Init => Ledger!Init
  BY <1>1 DEF Ledger!Init
<1>3. Init => Numbered
  <2>1. Init => \A b \in bookings : b.id[1] = 0
    <3>1. \A e \in Elsewhere : e.id \in {0} \X Slots
      BY DEF Elsewhere
    <3>2. Init => \A b \in bookings : b \in Elsewhere
      BY DEF Init
    <3>3. \A i \in {0} \X Slots : i[1] = 0
      OBVIOUS
    <3> QED
      BY <3>1, <3>2, <3>3
  <2>2. Init => reserved = 0 /\ reservations = {}
    BY DEF Init
  <2> QED
    BY <1>1, <2>1, <2>2 DEF Numbered
<1> QED
  BY <1>2, <1>3, NumberedStep, LedgerStep, OneBooking, TypeInvariance, PTL
     DEF Spec, ImplementsLedger, Ledger!Spec
=============================================================================
