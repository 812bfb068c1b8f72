\* Two requests at a time in each part.
SPECIFICATION RecordsSpec
CONSTANTS
  b1 = b1  b2 = b2  b3 = b3
  Requests = {1, 2}
  Keys = {1, 2}
  Bodies = {b1, b2}
  CustomerOf <- OneCustomer
  ContactRows = {1, 2}
  Agents = {11}
  MaxTries = 2
  MaxDrops = 1
  NoRow = 0
  NoKey = 0
  NoBody = NoBody
  NoAgent = 0
  LeadRecords = {1}
  ContactRecords = {2, 3}
  Owners = {11, 12}
  Movers = {1, 2}
  Unowned = 0
  NoRecord = 0
  MaxMoves = 3
  MaxLosses = 1
  Phones = {1, 2, 3}
  Numbers = {21, 22}
  Editors = {1, 2}
  NoNumber = 0
  NoPhone = 0
  MaxCuts = 1
  Users = {1, 2, 3}
  Admins0 = {1, 2}
  AdminRequests = {1, 2}
  Roles = {"ADMIN", "MANAGER", "TRAVEL_AGENT"}
  Nobody = 0
  Attempts = 2
  MaxAdminChanges = 4
  Members = {1, 2}
  Browsers = {1, 2}
  Tokens = {1, 2, 3}
  NoToken = 0
  NoMember = 0
  MaxDisables = 1
  SignIns = {"x", "y", "z"}
  Rounds = 1
  MaxCrashes = 1
  Cards = {1, 2}
  VaultKeys = {1, 2}
  CardNumbers = {51, 52}
  CardRequests = {1, 2}
  Runs = {1}
  Aged = {2}
  Purged = 99
  NoCard = 0
  NoVaultKey = 0
  PageSize = 1
  MaxEditions = 3
  MaxFailures = 1
  Files = {1, 2}
  Servings = {1, 2}
  FileLimit = 2
  NoFile = 0
  MaxFaults = 1
  Parts = {"repeats", "intake", "leads", "contacts", "phones", "admins", "teams", "grants", "sessions", "first account", "numbers", "codes", "documents"}
INVARIANTS
  RecordsTypeOK RacersAgreeOnOne HistoryIsTrue NothingIsLost WhatEndedStaysEnded OfficeStaysInOrder
CHECK_DEADLOCK FALSE
