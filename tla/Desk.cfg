\* What people read and enter; one part of it at a time.
SPECIFICATION DeskSpec
CONSTANTS
  Screens = {"records", "calendar", "reports", "ledger", "itineraries", "quote", "booking", "ticketing", "confirmations",
             "import", "status", "legs", "new lead", "team", "grants"}
  t1 = t1
  t2 = t2
  \* records
  Viewers = {1, 2, 3, 4}
  Nobody = 0
  NoParent = 99
  CompanyOf <- TwoCompanies
  ContactIds = {1, 2}
  ContactCompany <- ContactCompanies
  LeadIds = {1}
  ContactOfLead <- LeadsContact
  QuoteIds = {1}
  LeadOfQuote <- QuotesLead
  TaskIds = {1, 2}
  LeadOfTask <- TasksLead
  ContactOfTask <- TasksContact
  SequenceIds = {1}
  \* calendar and reports
  FirstYear = 2025
  LastYear = 2032
  Sales = {1, 2}
  SentBy <- Senders
  Legacy = {2}
  Sellers = {1, 2}
  Boss = 9
  Nothing = Nothing
  Moments <- Hours
  Profits = {1}
  Offers = {"pay-period", "previous-pay-period"}
  MaxChanges = 3
  \* itineraries
  Pastes <- ThePastes
  Zones <- TheZones
  PasteDays <- TheDays
  Unread = Unread
  \* the customer's side
  Terms <- TheTerms
  MaxSegments = 2
  MaxRevisions = 1
  MaxSaves = 2
  NoSave = NoSave
  Tabs = {t1, t2}
  Signers = {s1, s2}
  Fares <- OneFare
  Travellers <- OneChild
  NoTraveller = NoTraveller
  MaxCards <- CardsOf
  MaxRequests = 2
  Agents = {1, 2}
  Costs = {1}
  EmptyField = EmptyField
  SellingPrice = 9
  Mailboxes = {m1, m2}
  SignedMailbox = m1
  MaxEdits = 2
  MaxOpenings = 2
  \* the office's side
  Cells <- TheCells
  CellKind <- KindOfCell
  HeaderOf <- HeaderOfCell
  UsersNamed <- UsersOfCell
  Readable = {"ann@x", "lee@x"}
  Owners = {"bob", "eve"}
  Unassigned = "nobody"
  Grids <- TheGrids
  MaxColumns = 2
  MaxTableEdits = 2
  MaxBatches = 2
  DeskTabs = {t1, t2}
  DeskRole <- RoleOfTab
  Places = {"p"}
  NoPlace = "-"
  DeskStatuses = {"NEW", "ACCEPTED", "QUOTED", "BOOKED"}
  TripTypes = {"ROUND_TRIP", "MULTI_CITY"}
  MaxLegs = 2
  StatusAttempts = 3
  NoTab = NoTab
  MaxDeskMoves = 4
  Callers = {"c1", "c2"}
  NoCaller = "nobody"
  Clerks = {"me", "al"}
  Me = "me"
  MayAssign = TRUE
  Unowned = "unowned"
  Stranger = "stranger"
  Trips = {"ROUND_TRIP", "ONE_WAY"}
  LeadSources = {"WEBSITE", "REFERRAL"}
  MaxEntries = 5
  AdminTabs = {t1, t2}
  Members = {"a", "b"}
  Teams = {"m1", "m2"}
  Absent = Absent
  Reveal = "reveal"
  LegacyReveal = "legacy"
  OtherGrants = {"view"}
  MaxSwitches = 4
INVARIANTS
  DeskTypeOK ListsFollowTheRules ReportsAreRight ItinerariesAreRight CustomerFormsAreHonest OfficeFormsAreHonest
PROPERTY
  LedgerIsSettled
\* People may stop, and the bounds end.
CHECK_DEADLOCK FALSE
