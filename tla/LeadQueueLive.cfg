\* One worker of the leads' company, the hardest to serve, and one of another;
\* p1's polling and started functions are fair, the workers skip and rejoin at will.
\* Two scans, of two leads at most, over leads of two companies.
\* Two tabs, opened, shown, hidden or closed twice.
SPECIFICATION LiveDeskSpec
CONSTANTS
  w1 = w1  w2 = w2  l1 = l1  l2 = l2  c1 = c1  c2 = c2  p1 = p1  p2 = p2
  Workers = {w1, w2}
  Leads = {l1, l2}
  Contacts = {c1}
  Procs = {p1, p2}
  None = None
  WorkerCompany <- TwoCompanies
  ContactOf <- SharedContact
  ContactCompany <- ContactsInA
  JoinedAt <- JoinOrder
  OfferWindow = 1
  Attempts = 1
  MaxTime = 1
  EnvOps = {"skip", "join"}
  Backlog = {1, 2, 3}
  Helpers = {1, 2}
  Scans = {1, 2}
  CompanyOfLead <- BacklogCompany
  CompanyOfHelper <- HelpersCompany
  MaxLeadsPerRun = 2
  MaxScanDeaths = 1
  NoHelper = 0
  Tabs = {1, 2}
  NoTab = 0
  MaxVersions = 2
  MaxSwitches = 2
  MaxPolls = 1
  MaxPosts = 1
  MaxPollFailures = 1
  Windows = {1, 2}
  NoWindow = 0
  MaxAlerts = 1
  MaxLoads = 2
  Parts = {"waiting", "backlog", "tabs"}
CHECK_DEADLOCK FALSE
PROPERTIES
  LapsedOfferIsResolved WaitingLeadIsServed WaitingLeadIsReached TabsCatchUp
