SPECIFICATION FairSpec
CONSTANTS
  Jobs <- OneJob
  Hooks <- ThreeHooks
  Subscribed <- Subscriptions
  Requests <- TwoRequests
  MAX_WEBHOOKS = 1
  MaxRetries = 1
  MaxCrashes = 1
INVARIANTS
  TypeOK
  WithinLimit
  NobodyIsLeftOut
PROPERTY DeliveryEnds
