\* One charged quote exchanged, revised and canceled by two invocations at a time;
\* its proposals are sent, opened and signed; functions die anywhere.
SPECIFICATION ChangesSpec
CONSTANTS
  q1 = q1  x1 = x1  x2 = x2  l1 = l1  r1 = r1  p1 = p1  p2 = p2
  Quotes = {q1, x1, x2}
  Proposals = {x1, x2}
  Requests = {r1}
  Leads = {l1}
  Procs = {p1, p2}
  None = None
  LeadOf <- OneLead
  SendWindow = 1
  MaxPrice = 0
  MaxTime = 0
  EnvOps = {"send", "open", "sign", "crash"}
  ChangeOps = {"exchange", "revise", "review", "request", "confirm", "disregard", "form",
               "form_fails", "submit", "finalize", "final_fails"}
CHECK_DEADLOCK FALSE
SYMMETRY Symmetry
INVARIANTS ProposalsFormOneChain OnlyApprovedReachCustomers NoUnapprovedCancellation
