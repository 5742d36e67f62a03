SPECIFICATION Spec
CONSTANTS
  Namespaces <- Flat
  Sessions = {s1, s2, p}
  None = none
  Tracks <- OneTrack
  Forwarders = {f1, f2}
  Infos <- Both
  Forwards = {TRUE, FALSE}
  NamespacePrefixes <- NoPrefixes
  TracksPrefixes <- NoPrefixes
  Publishers = {p}
  Subscribers = {s1, s2}
  Registrants = {}
  MaxPublishing = 2
  Takeovers = FALSE
  EarlyFailures = TRUE
  MaxCount = 1
SYMMETRY SubscriberSymmetry
INVARIANT UpstreamIsHeld
