\* A provider and one call at a time are enough.
SPECIFICATION Spec
CONSTANTS
  None = None
  Calls = {c1}
  Needs = {n1}
  Types = {t1}
  Bookings = {b1}
  FirstBooking = b1
  MaxTotal = 1
INVARIANT ShownCreditsBooked
CHECK_DEADLOCK FALSE
