SPECIFICATION OutboundSpec
CONSTANTS
  e1 = e1
  lead1 = lead1
  s1 = s1
  s2 = s2
  p1 = p1
  p2 = p2
  Enrolments = {e1}
  SequenceLeads = {lead1}
  LeadOf <- OneLead
  Steps = {s1, s2}
  FirstSteps <- TwoSteps
  Senders = {p1, p2}
  Lease = 1
  Delay = 1
  Take = 1
  MaxLapses = 1
  SequenceMoves = {"enrol", "unenrol", "unsubscribe", "crash", "deleteSequence", "editSteps"}
  NoRow = NoRow
  u1 = u1
  u2 = u2
  c1 = c1
  c2 = c2
  Subscribers = {u1, u2}
  JoinedFirst <- UsersInOrder
  Clerks = {c1, c2}
  BatchSize = 1
  MaxDeaths = 1
  MaxReturns = 1
  MaxAttempts = 1
  CampaignMoves = {"delete", "edit", "subscribe", "leave", "import", "crash"}
  Nobody = Nobody
  t1 = t1
  a1 = a1
  a2 = a2
  d1 = d1
  d2 = d2
  Tasks = {t1}
  Agents = {a1, a2}
  Desks = {d1, d2}
  LastHour = 1
  DueHours = {0, 2}
  MaxEdits = 2
  MaxKills = 1
  DueSoon = 0
  Unassigned = Unassigned
  NoTask = NoTask
  NoDate = NoDate
  m1 = m1
  v1 = v1
  v2 = v2
  InquiryRows = {1, 2, 3}
  ExternalRows = {3}
  Messages = {m1}
  Visits = {v1, v2}
  CatchUpTake = 1
  MaxAborts = 1
  NoInquiry = NoInquiry
  NoMessage = NoMessage
  h1 = h1
  h2 = h2
  h3 = h3
  i1 = i1
  i2 = i2
  i3 = i3
  Evaluations = {h1, h2, h3}
  Instances = {i1, i2, i3}
  InstanceOf <- OnePerInstance
  OldBuilds = {i3}
  MaxOldRuns = 2
  MaxWindows = 1
  MaxLost = 1
  Creator = 1
  Colleague = 2
  Mailings = {1, 2}
  NoMailer = 0
  MaxGrants = 2
  MaxMails = 2
  MaxMailFaults = 1
  Parts = {"sequence", "sequence edited", "campaign", "campaign failing", "campaign edited", "tasks", "inquiries", "health", "staff mail"}
INVARIANTS
  OutboundTypeOK NothingIsSentTwice NothingIsSilentlySkipped OnlyWantedMailLeaves
CHECK_DEADLOCK FALSE
