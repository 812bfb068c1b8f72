\* Two leads of one contact, two workers of its company, two invocations at a
\* time; the first offers lapse while accepts are under way.  Two tabs, which
\* change places four times; two offers, and two tabs that sound them.
SPECIFICATION DeskSpec
CONSTANTS
  w1 = w1  w2 = w2  l1 = l1  l2 = l2  c1 = c1  c2 = c2  p1 = p1  p2 = p2
  Workers = {w1, w2}
  Leads = {l1, l2}
  Contacts = {c1}
  Procs = {p1, p2}
  None = None
  WorkerCompany <- OneCompany
  ContactOf <- SharedContact
  ContactCompany <- ContactsInA
  JoinedAt <- JoinOrder
  OfferWindow = 1
  Attempts = 2
  MaxTime = 1
  EnvOps = {"accept", "join", "leave", "removed", "wrong_role", "eligible", "reassign", "unassign", "crash"}
  Backlog = {1, 2, 3}
  Helpers = {1, 2}
  Scans = {1, 2}
  CompanyOfLead <- BacklogCompany
  CompanyOfHelper <- HelpersCompany
  MaxLeadsPerRun = 2
  MaxScanDeaths = 1
  NoHelper = 0
  Tabs = {1, 2}
  NoTab = 0
  MaxVersions = 2
  MaxSwitches = 4
  MaxPolls = 2
  MaxPosts = 1
  MaxPollFailures = 0
  Windows = {1, 2}
  NoWindow = 0
  MaxAlerts = 1
  MaxLoads = 4
  Parts = {"race", "office", "tabs", "alerts"}
CHECK_DEADLOCK FALSE
SYMMETRY ProcSymmetry
INVARIANTS
  TypeOK AcceptedLeadHasOwnedContact OffersAreSound
  OneTabLeads OneSoundPerOffer
PROPERTIES
  ImplementsPromise OffersReachActiveWorkers OlderDataNeedsOverlap
