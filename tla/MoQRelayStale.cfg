SPECIFICATION Spec
CONSTANTS
  Namespaces <- Flat
  Sessions = {s1, p}
  None = none
  Tracks <- OneTrack
  Forwarders = {f1, f2}
  Infos <- Both
  Forwards = {TRUE, FALSE}
  NamespacePrefixes <- OnePrefix
  TracksPrefixes <- NoPrefixes
  Publishers = {p}
  Subscribers = {}
  Registrants = {s1}
  MaxPublishing = 2
  Takeovers = FALSE
  EarlyFailures = FALSE
  MaxCount = 1
INVARIANT PublisherForwards
