\* A proposal is revised while it is being sent.
SPECIFICATION ChangesSpec
CONSTANTS
  q1 = q1  x1 = x1  x2 = x2  l1 = l1  r1 = r1  p1 = p1  p2 = p2
  Quotes = {q1, x1, x2}
  Proposals = {x1, x2}
  Requests = {r1}
  Leads = {l1}
  Procs = {p1, p2}
  None = None
  LeadOf <- OneLead
  SendWindow = 1
  MaxPrice = 0
  MaxTime = 0
  EnvOps = {"send", "sign"}
  ChangeOps = {"exchange", "revise", "review"}
CHECK_DEADLOCK FALSE
PROPERTY SupersededIsNeverSigned
