\* A customer opens a quote somebody else moves on.
SPECIFICATION CaseSpec
CONSTANTS
  q1 = q1  l1 = l1  p1 = p1  p2 = p2  p3 = p3
  Quotes = {q1}
  Leads = {l1}
  Procs = {p1, p2}
  None = None
  LeadOf <- OneLead
  SendWindow = 1
  MaxPrice = 0
  MaxTime = 0
  Parts = {"signing"}
  EnvOps = {"send", "open", "sign"}
CHECK_DEADLOCK FALSE
PROPERTY StatusNeverGoesBack
