\* One quote sent, resent, signed and discarded by three invocations that may die
\* anywhere, or by two beside ticketing, cancellation and deletion, over three
\* instants with a window of one.
SPECIFICATION CaseSpec
CONSTANTS
  q1 = q1  l1 = l1  p1 = p1  p2 = p2  p3 = p3
  Quotes = {q1}
  Leads = {l1}
  Procs = {p1, p2, p3}
  None = None
  LeadOf <- OneLead
  SendWindow = 1
  MaxPrice = 1
  MaxTime = 2
  EnvOps = {"send", "open", "view", "sign", "ticket", "cancel", "discard", "delete", "mail_fails", "reply_lost", "release_fails", "crash"}
  Parts = {"signing", "ticketing"}
CHECK_DEADLOCK FALSE
SYMMETRY ProcSymmetry
INVARIANTS NothingUnsentIsSigned ChargedIsPriced QuoteFollowsBooking FailedSendIsReleased
PROPERTIES SignedOnce
