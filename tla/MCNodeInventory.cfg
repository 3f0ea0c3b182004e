SPECIFICATION Spec
CONSTANTS
  Inventory <- Cluster
  Default = "cpu"
  HiddenParts = {"test"}
  Reservations = {"exam"}
  Bookings <- Both
  Reasons = {"disk"}
INVARIANTS NodeViewsAgree DegradedHaveReasons
           HealthyIsUp ReservationViewsAgree GPUViewsAgree
