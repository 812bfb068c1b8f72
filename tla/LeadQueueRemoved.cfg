\* One lead and one worker, who is removed while their request to take leads again
\* is under way, and two invocations at most.
SPECIFICATION DeskSpec
CONSTANTS
  w1 = w1  w2 = w2  l1 = l1  l2 = l2  c1 = c1  c2 = c2  p1 = p1  p2 = p2
  Workers = {w1, w2}
  Leads = {l1, l2}
  Contacts = {c1}
  Procs = {p1, p2}
  None = None
  WorkerCompany <- OneCompany
  ContactOf <- SharedContact
  ContactCompany <- ContactsInA
  JoinedAt <- JoinOrder
  OfferWindow = 1
  Attempts = 1
  MaxTime = 1
  EnvOps = {"join", "leave", "removed"}
  Backlog = {1}
  Helpers = {1}
  Scans = {1}
  CompanyOfLead <- BacklogCompany
  CompanyOfHelper <- HelpersCompany
  MaxLeadsPerRun = 1
  MaxScanDeaths = 0
  NoHelper = 0
  Tabs = {1}
  NoTab = 0
  MaxVersions = 1
  MaxSwitches = 1
  MaxPolls = 1
  MaxPosts = 1
  MaxPollFailures = 0
  Windows = {1}
  NoWindow = 0
  MaxAlerts = 1
  MaxLoads = 1
  Parts = {"office"}
CHECK_DEADLOCK FALSE
PROPERTIES
  RemovedGetNoOffer
