SPECIFICATION FairSpec
CONSTANTS
  k1 = k1
  k2 = k2
  r1 = r1
  r2 = r2
  p1 = p1
  p2 = p2
  p3 = p3
  t1 = t1
  t2 = t2
  Requests = {r1, r2}
  Keys = {k1}
  KeyOf <- MCOneKey
  Payments = {p1, p2}
  Transfers = {t1, t2}
  TransferOf <- MCOwnTransfer
  Decisions = {proceed}
  Calls = {c1, c2}
  None = None
  Ttl = 2
  MaxTime = 1
INVARIANTS
  ReceiptIsPaid
  OfferHonoured
PROPERTIES
  JournalMovesForward
  RecordedIsDelivered
CHECK_DEADLOCK FALSE
