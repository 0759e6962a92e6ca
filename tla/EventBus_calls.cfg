SPECIFICATION FairSpec
CONSTANTS
  None = None
  Threads = {t1, t2}
  Events = {e1, e2}
  Ids = {i1, i2}
INVARIANTS
  TypeOK
  NoOrphanedHandler
  OneUnsubscribeWins
  DeliveryFollowsSubscriptionOrder
  NoDeliveryAfterUnsubscribe
  CompletedPublishMissesNobody
PROPERTIES
  EveryCallReturns
  ImplementsPubSub
