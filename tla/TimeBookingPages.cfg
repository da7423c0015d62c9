\* A page of each kind and the bookings made elsewhere, two days.
SPECIFICATION Spec
CONSTANTS
  BookingPages = {p1}
  ListPages = {l1}
  Orders = {x}
  Days = {d1, d2}
  FirstDay = d1
  Slots = {s1}
  OrderDay <- AllOnFirstDay
  Known = {x}
  Closed = {}
  None = None
  MaxReserved = 0
  MaxWaiting = 1
PROPERTY ListUpdatesWhatWasOpened
