SPECIFICATION FairSpec
CONSTANTS
  Emails <- TwoEmails
  Slugs <- TwoSlugs
  Wanted <- ThreeWishes
  Joined <- BobJoins
  Requests = {r1, r2}
  MaxTokens = 3
INVARIANTS
  TypeOK
  AccountIsWhole
PROPERTIES
  PasswordNeedsLink
  LinkDiesForAReason
  RequestsEnd
CHECK_DEADLOCK FALSE
