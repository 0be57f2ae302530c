SPECIFICATION FairSpec
CONSTANTS
  a = a
  b = b
  c = c
  me = me
  older = older
  newer = newer
  Peers = {a, b, c}
  Author = a
  Faulty = {c}
  Query = "linear"
  DownloadPeers = 1
  Attempts = 2
  MaxFailed = 1
  Moving = {b}
  LateDependers = {b}
  Advancing = {b}
  Guests = {me, older, newer}
  Me = me
  RoundOf <- Rounds
  DownloadTasks = 0
CHECK_DEADLOCK FALSE
INVARIANTS
  Credits
  NotFoundIsUnproven
PROPERTIES
  Downloaded
