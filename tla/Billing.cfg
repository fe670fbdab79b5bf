SPECIFICATION FairSpec
CONSTANTS
  Requests = {q1, q2}
  Charges = {c1}
  Invoices = {i1}
  Lines = {l1}
  NoLines = NoLines
  None = None
  GracePeriod = 1
  TrialDays = 1
  TrialGrace = 0
  Extension = 1
  PaymentTerms = 0
  MaxTime = 2
  MaxRequests = 2
PROPERTIES IssuedIsFrozen GraceEnds TrialEnds OverdueIsNoticed
CHECK_DEADLOCK FALSE
