----------------------------- MODULE BookingLedger -----------------------------
(***************************************************************************)
(* What the booking pages promise of the bookings, without pages, searches *)
(* and requests under way: a request books once, for one order and day,    *)
(* times that are free; it is careful when it has seen that the order has  *)
(* no booking on that day, and then there is none; a booking stays as it   *)
(* is, as far as its time and order go, until it is cancelled.             *)
(***************************************************************************)
CONSTANTS
  Requests, Orders, Days, Slots,
  Nobody    \* the order of a booking made without one

VARIABLE entries  \* the bookings: [request, order, day, slot, careful]

EntriesOf(o, d) == {e \in entries : e.order = o /\ e.day = d}
TakenOn(d) == {e.slot : e \in {x \in entries : x.day = d}}

\* At most one booking, made by others.
Init == \A a, b \in entries : a = b

Book(r, o, d, S, careful) ==
  /\ \A e \in entries : e.request # r
  /\ S \intersect TakenOn(d) = {}
  /\ careful /\ o # Nobody => EntriesOf(o, d) = {}
  /\ entries' = entries \union
       {[request |-> r, order |-> o, day |-> d, slot |-> s, careful |-> careful] : s \in S}

Cancel(e) == entries' = entries \ {e}

\* (A request that finds no time free is no step.)
Next ==
  /\ entries' # entries
  /\ \/ \E r \in Requests, o \in Orders \union {Nobody}, d \in Days :
          \E S \in SUBSET Slots, careful \in BOOLEAN : Book(r, o, d, S, careful)
     \/ \E e \in entries : Cancel(e)

Spec == Init /\ [][Next]_entries
=============================================================================
