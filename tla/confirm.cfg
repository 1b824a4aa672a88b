CONSTANTS
  Autos = {a1, a2}  Bots = {b1}
  Keys = {auto, own}  BookingKey = auto  NoKey = NoKey
  CapturesFailed = TRUE
  MaxLosses = 1
SPECIFICATION FairSpec
INVARIANTS TypeOK OnePerKey ClaimIsExclusive HeldIsUnsettled SentIsAccepted ClearedIsDelivered
PROPERTIES AcceptedIsKept DeliveryClears
CHECK_DEADLOCK FALSE
