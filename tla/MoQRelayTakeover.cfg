SPECIFICATION Spec
CONSTANTS
  Namespaces <- Flat
  Sessions = {s1, s2, p}
  None = none
  Tracks <- OneTrack
  Forwarders = {f1, f2}
  Infos <- Both
  Forwards = {TRUE, FALSE}
  NamespacePrefixes <- NoPrefixes
  TracksPrefixes <- NoPrefixes
  Publishers = {p, s1}
  Subscribers = {s2}
  Registrants = {}
  MaxPublishing = 2
  Takeovers = TRUE
  EarlyFailures = FALSE
  MaxCount = 2
INVARIANT PublishesHaveSubscription
