SPECIFICATION Spec
CONSTANTS
  Emails = {ann, bob}
  Requests = {r1, r2, r3, r4}
  Workers = 2
  Retries = 2
  NoEmail = NoEmail
  NoSecret = NoSecret
  NullPassword = NullPassword
SYMMETRY Symmetric
CHECK_DEADLOCK FALSE
INVARIANTS TypeOK OwnersGetIn
PROPERTIES PasscodeStays
