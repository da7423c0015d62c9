\* One page, an open order and a closed one, two reservations.
SPECIFICATION Spec
CONSTANTS
  BookingPages = {p1}
  ListPages = {}
  Orders = {x, y}
  Days = {d1}
  FirstDay = d1
  Slots = {s1, s2}
  OrderDay <- AllOnFirstDay
  Known = {x, y}
  Closed = {y}
  None = None
  MaxReserved = 2
  MaxWaiting = 1
SYMMETRY SlotSymmetry
INVARIANTS TypeOK OneBookingUnlessRaced
PROPERTIES ReservesWhatTheFormShows ImplementsLedger
