SPECIFICATION PartsSpec
CONSTANTS
  s1 = s1
  s2 = s2
  p = p
  f1 = f1
  f2 = f2
  None = None
  Namespaces <- Deep
  Sessions <- Everyone
  Tracks <- OneTrack
  Forwarders <- TwoForwarders
  Infos <- AllInfos
  Forwards = {TRUE, FALSE}
  NamespacePrefixes <- Deep
  TracksPrefixes <- Flat
  Publishers <- Everyone
  Subscribers <- Everyone
  Registrants <- Everyone
  MaxPublishing = 2
  Takeovers = FALSE
  EarlyFailures = FALSE
  MaxCount = 3
INVARIANTS
  TypeOK SubscriptionsAgree EveryoneIsServed  TreesSound AnnouncedExactly
PROPERTY CoalescedAnswered
