\* A draft is edited while it is being sent.
SPECIFICATION CaseSpec
CONSTANTS
  q1 = q1  l1 = l1  p1 = p1  p2 = p2  p3 = p3
  Quotes = {q1}
  Leads = {l1}
  Procs = {p1, p2}
  None = None
  LeadOf <- OneLead
  SendWindow = 1
  MaxPrice = 1
  MaxTime = 0
  Parts = {"signing"}
  EnvOps = {"send", "sign"}
CHECK_DEADLOCK FALSE
INVARIANT ChargedAsShown
