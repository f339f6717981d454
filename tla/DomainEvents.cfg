SPECIFICATION Spec
CONSTANTS
  copy1 = copy1
  copy2 = copy2
  other = other
  sharedId = sharedId
  otherId = otherId
  Aggregates <- MCAggregates
  Ids <- MCIds
  IdOf <- MCIdOf
  Classes = {StatusChanged, CourierAssigned}
  StatusChanged = StatusChanged
  CourierAssigned = CourierAssigned
  Handlers = {notify}
  notify = notify
  MaxEvents = 2
INVARIANTS TypeOK OneMarkPerId MarkedOwesEvents NoRedelivery
PROPERTIES DispatchUnmarks DeliverySpec
