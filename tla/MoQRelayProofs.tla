--------------------------- MODULE MoQRelayProofs ---------------------------
(***************************************************************************)
(* Proofs about MoQRelay: subscriptions_ with its forwarders, the subscribes*)
(* that wait and the trees, together through every step of the relay, for  *)
(* any sessions, namespaces, tracks, prefixes and forwarders.              *)
(***************************************************************************)
EXTENDS MoQRelayTreesProofs, MoQRelayTracksProofs

-----------------------------------------------------------------------------
(* The tracks, together with the trees.                                    *)

(* The publishes of the tree are the live PUBLISHes.                       *)
PubsAgree == \A ns \in Namespaces : Pubs(publishNamespaceRoot, ns) = LiveAt(Live(Current), ns)

(* Who waits in a rendezvous has no publisher.                             *)
Awaits(r) ==
  /\ \A p \in Prefixes(r.track[1]) : Source(publishNamespaceRoot, p) = None
  /\ \A x \in Live(Current) : x.track # r.track
RendezvousInv ==
  /\ pendingRendezvous \subseteq Request /\ signalled \subseteq Request
  /\ \A r \in pendingRendezvous : Awaits(r)

(* The invariant of every execution, and what it takes without takeovers.  *)
RelayInv == RelayTrees /\ TracksInv /\ AllHeld /\ AnnouncedTyped /\ RendezvousInv
PublishInv == TasksOK(Current, publishing) /\ PubsAgree

(* Rendezvous: the lookups that find nothing find nothing later.           *)
LEMMA AwaitsOn ==
  ASSUME NamespaceAssumption, RelayAssumption, NEW r \in Request, Awaits(r),
         \A p \in Prefixes(r.track[1]) :
           p \in Namespaces => Source(publishNamespaceRoot', p) \in {Source(publishNamespaceRoot, p), None},
         \A x \in Live(Current)' : x \in Live(Current) \/ x.track # r.track
  PROVE  Awaits(r)'
<1>1. r.track[1] \in Namespaces
  BY Zenon DEF Request, RelayAssumption
<1>2. Prefixes(r.track[1]) \subseteq Namespaces
  BY <1>1, PrefixesAreNamespaces, Zenon
<1> QED
  BY <1>2, Zenon DEF Awaits

LEMMA RendezvousStay ==
  ASSUME NamespaceAssumption, RelayAssumption, RendezvousInv, SourcesKept,
         Live(Current)' \subseteq Live(Current), pendingRendezvous' \subseteq pendingRendezvous,
         signalled' \subseteq signalled \cup pendingRendezvous
  PROVE  RendezvousInv'
<1>1. \A r \in pendingRendezvous' : Awaits(r)'
  BY AwaitsOn, Zenon DEF RendezvousInv, SourcesKept
<1> QED
  BY <1>1, Zenon DEF RendezvousInv

(* The steps of coroutines and forwarders that touch no tree.              *)
LEMMA QuietSteps ==
  ASSUME NamespaceAssumption, RelayAssumption, RelayInv, [Next]_vars,
         ~Publishes, ~PublishesEnd, ~NamespaceStep
  PROVE  Calm /\ UNCHANGED trees /\ RendezvousInv'
<1> RelayTrees /\ TracksInv /\ RendezvousInv
  BY Zenon DEF RelayInv
<1>1. UNCHANGED trees
  BY TreeSteps, Zenon
<1>2. CalmStep
  BY Zenon DEF Next, CalmStep, Publishes, PublishesEnd
<1>3. Calm /\ WaitersOn
  BY <1>2, NothingToAwait, CalmSteps, Zenon
<1>4. SourcesKept /\ Live(Current)' = Live(Current)
  BY <1>1, <1>3 DEF trees, SourcesKept, Calm
<1>5. ASSUME NEW r \in pendingRendezvous' PROVE r \in Request /\ Awaits(r)
  <2>1. CASE r \in pendingRendezvous
    BY <2>1, Zenon DEF RendezvousInv
  <2>2. CASE /\ r \in Request /\ Find(Current, r.track) = {}
             /\ findPublishNamespaceSession(publishNamespaceRoot, r.track[1]) = None
    <3> \A x \in Live(Current) : x.track # r.track
      BY <2>2 DEF Live, Find
    <3> QED
      BY <2>2, NothingToAwait, Zenon DEF Awaits
  <2> QED
    BY <1>3, <2>1, <2>2, Zenon DEF WaitersOn
<1>6. ASSUME NEW r \in pendingRendezvous' PROVE Awaits(r)'
  BY <1>4, <1>5, AwaitsOn, Zenon DEF SourcesKept
<1> QED
  BY <1>1, <1>3, <1>5, <1>6, Zenon DEF RendezvousInv, WaitersOn

LEMMA CalmKeeps ==
  ASSUME RelayInv, Calm, RelayTrees', AnnouncedTyped', RendezvousInv', PubsKept
  PROVE  RelayInv' /\ (PublishInv => PublishInv')
<1>1. Live(Current)' = Live(Current)
  BY Zenon DEF Calm
<1>2. PubsAgree => PubsAgree'
  BY <1>1, Zenon DEF PubsAgree, PubsKept
<1> QED
  BY <1>2, Zenon DEF RelayInv, PublishInv, Calm

-----------------------------------------------------------------------------
(* The steps that add or end a PUBLISH.                                    *)

LEMMA PublishStepKeeps ==
  ASSUME NamespaceAssumption, RelayAssumption, RelayInv, NEW s \in Publishers,
         NEW track \in Tracks, NEW f \in Forwarders, NEW stay, publish(s, track, f, stay)
  PROVE  RelayInv' /\ (~Takeovers /\ PublishInv => PublishInv')
<1> DEFINE t == publishNamespaceRoot
<1> RelayTrees /\ TracksInv /\ AnnouncedTyped /\ RendezvousInv
  BY Zenon DEF RelayInv
<1>1. /\ RelayTrees' /\ UNCHANGED <<tracksSubscriberRoot, announced>>
      /\ \A p \in Namespaces :
           /\ Source(t', p) = Source(t, p)
           /\ Find(Current, track) = {} =>
                Pubs(t', p) = IF p = track[1] THEN Pubs(t, p) \cup {<<track[2], s>>} ELSE Pubs(t, p)
  BY TrackAdded, Zenon
<1>2. s \in Sessions /\ track[1] \in Namespaces /\ track = <<track[1], track[2]>>
  BY Zenon DEF RelayAssumption
<1>3. /\ SessionsAlong(findInTree(t, track[1]), track[1]) \subseteq Sessions \X Info
      /\ SessionsAlong(tracksSubscriberRoot, track[1]) \subseteq Sessions \X Info
  <2>1. Sound(t) /\ Sound(tracksSubscriberRoot)
    BY Zenon DEF RelayTrees, TreeInv
  <2>2. Sound(findInTree(t, track[1]))
    BY <1>2, <2>1, FoundInTree, Zenon
  <2> QED
    BY <2>1, <2>2, AlongShape, Zenon
<1>4. /\ TracksInv' /\ AllHeld'
      /\ Live(Current)' \subseteq Live(Current) \cup {PublishEntry(s, track, f)}
      /\ Find(Current, track) = {} =>
           /\ Live(Current)' = Live(Current) \cup {PublishEntry(s, track, f)}
           /\ TasksOK(Current, publishing) => TasksOK(Current, publishing)'
  BY <1>2, <1>3, TrackPublished, Zenon
<1>5. PublishEntry(s, track, f).track = track
  BY Zenon DEF PublishEntry
<1>6. \A ns : AddedAt(Live(Current), s, track, f, ns)
  BY LiveAdded, Zenon
<1>7. RendezvousInv'
  <2>1. /\ pendingRendezvous' = pendingRendezvous \ {r \in pendingRendezvous : r.track = track}
        /\ signalled' = signalled \cup {r \in pendingRendezvous : r.track = track}
    BY Zenon DEF publish
  <2>2. \A r \in pendingRendezvous' : r \in Request /\ Awaits(r) /\ r.track # track
    BY <2>1, Zenon DEF RendezvousInv
  <2>3. \A r \in pendingRendezvous' : Awaits(r)'
    BY <1>1, <1>4, <1>5, <2>2, AwaitsOn, Zenon
  <2> QED
    BY <2>1, <2>3, Zenon DEF RendezvousInv
<1>8. RelayInv'
  BY <1>1, <1>4, <1>7, Zenon DEF RelayInv, AnnouncedTyped
<1>9. ASSUME ~Takeovers, PublishInv PROVE PublishInv'
  <2> Find(Current, track) = {}
    BY <1>9, Zenon DEF publish
  <2>1. TasksOK(Current, publishing)' /\ Live(Current)' = Live(Current) \cup {PublishEntry(s, track, f)}
    BY <1>4, <1>9, Zenon DEF PublishInv
  <2>2. \A p \in Namespaces : Pubs(t', p) = LiveAt(Live(Current)', p)
    BY <1>1, <1>6, <1>9, <2>1, Zenon DEF PublishInv, PubsAgree, AddedAt
  <2> QED
    BY <2>1, <2>2, Zenon DEF PublishInv, PubsAgree
<1> QED
  BY <1>8, <1>9, Zenon

LEMMA PublishDoneKeeps ==
  ASSUME NamespaceAssumption, RelayAssumption, RelayInv, NEW f \in Forwarders, NEW stay,
         publishDone(f, stay)
  PROVE  RelayInv' /\ (PublishInv => PublishInv')
<1> DEFINE track == forwarders[f].track
           t == publishNamespaceRoot
           had == \E sub \in Find(Current, track) : sub.isPublish
<1> RelayTrees /\ TracksInv /\ AnnouncedTyped /\ RendezvousInv
  BY Zenon DEF RelayInv
<1>1. /\ RelayTrees' /\ UNCHANGED <<tracksSubscriberRoot, announced>>
      /\ \A p \in Namespaces :
           /\ Source(t', p) = Source(t, p)
           /\ Pubs(t', p) = IF p = track[1] /\ had THEN {e \in Pubs(t, p) : e[1] # track[2]}
                            ELSE Pubs(t, p)
  BY TrackRemoved, Zenon
<1>2. /\ TracksInv' /\ AllHeld'
      /\ Live(Current)' = {x \in Live(Current) : x.track # track}
      /\ TasksOK(Current, publishing) => TasksOK(Current, publishing)'
  BY PublishEnded, Zenon
<1>3. track \in Tracks
  BY CurrentParts DEF Sized, Forwarder
<1>4. RendezvousInv'
  <2>1. UNCHANGED <<pendingRendezvous, signalled>>
    BY Zenon DEF publishDone
  <2>2. SourcesKept
    BY <1>1, Zenon DEF SourcesKept
  <2>3. Live(Current)' \subseteq Live(Current)
    BY <1>2
  <2> QED
    BY <2>1, <2>2, <2>3, RendezvousStay
<1>5. RelayInv'
  BY <1>1, <1>2, <1>4 DEF RelayInv, AnnouncedTyped
<1>6. ASSUME PublishInv PROVE PublishInv'
  <2> \A ns : LiveAt({x \in Live(Current) : x.track # track}, ns) =
               IF ns = track[1] /\ had THEN {e \in LiveAt(Live(Current), ns) : e[1] # track[2]}
               ELSE LiveAt(Live(Current), ns)
    BY <1>3, LiveEnded, Zenon
  <2>1. \A p \in Namespaces : Pubs(t', p) = LiveAt(Live(Current)', p)
    BY <1>1, <1>2, <1>6, Zenon DEF PublishInv, PubsAgree
  <2> QED
    BY <1>2, <1>6, <2>1, Zenon DEF PublishInv, PubsAgree
<1> QED
  BY <1>5, <1>6, Zenon

-----------------------------------------------------------------------------
(* The steps of namespaces and of prefix subscriptions.                    *)

LEMMA UntouchedKeeps ==
  ASSUME NamespaceAssumption, RelayAssumption, RelayInv, RelayTrees', AnnouncedTyped',
         PubsKept, SourcesKept, Untouched, UNCHANGED <<pendingRendezvous, signalled, publishing>>
  PROVE  RelayInv' /\ (PublishInv => PublishInv')
<1> TracksInv /\ RendezvousInv
  BY Zenon DEF RelayInv
<1>1. Calm
  BY CalmUntouched, Zenon
<1>2. RendezvousInv'
  BY <1>1, RendezvousStay DEF Calm
<1> QED
  BY <1>1, <1>2, CalmKeeps

(* The publishes a tree shows are live.                                    *)
LEMMA ShownIsLive ==
  ASSUME RelayAssumption, TracksInv, PubsAgree, NEW t, DOMAIN t \subseteq Namespaces,
         \A p \in Namespaces : Pubs(t, p) = Pubs(publishNamespaceRoot, p),
         NEW q \in DOMAIN t, NEW e \in t[q].publishes
  PROVE  \E y \in Live(Current) : y.track = <<q, e[1]>>
<1>1. q \in Namespaces /\ e \in Pubs(t, q)
  BY DEF Pubs
<1>2. e \in LiveAt(Live(Current), q)
  BY <1>1, Zenon DEF PubsAgree
<1> QED
  BY <1>2, LiveFound, Zenon

LEMMA ShownKeeps ==
  ASSUME NamespaceAssumption, RelayAssumption, RelayInv, RelayTrees', AnnouncedTyped',
         PubsKept, SourcesKept, Untouched, UNCHANGED <<pendingRendezvous, signalled>>,
         NEW t, t = publishNamespaceRoot \/ t = publishNamespaceRoot',
         NEW s \in Sessions, NEW prefix, NEW skip, NEW forward \in BOOLEAN,
         NEW via \in {"namespace", "tracks"},
         NEW new \in SUBSET ExistingTracks(t, s, prefix, skip, forward, via),
         publishing' = publishing \cup new
  PROVE  RelayInv' /\ (PublishInv => PublishInv')
<1> TracksInv /\ RendezvousInv /\ AllHeld /\ RelayTrees
  BY Zenon DEF RelayInv
<1>1. /\ TracksInv' /\ (AllHeld => AllHeld') /\ Live(Current)' = Live(Current)
      /\ (\A q \in DOMAIN t : \A e \in t[q].publishes :
            \E y \in Live(Current) : y.track = <<q, e[1]>>) => Calm
  BY TracksShown, Zenon
<1>2. RendezvousInv'
  BY <1>1, RendezvousStay, Zenon
<1>3. RelayInv'
  BY <1>1, <1>2, Zenon DEF RelayInv
<1>4. ASSUME PublishInv PROVE PublishInv'
  <2>1. DOMAIN t \subseteq Namespaces
    BY Zenon DEF RelayTrees, TreeInv, Sound, Shaped
  <2>2. \A p \in Namespaces : Pubs(t, p) = Pubs(publishNamespaceRoot, p)
    BY Zenon DEF PubsKept
  <2>3. PubsAgree
    BY <1>4, Zenon DEF PublishInv
  <2>4. Calm
    BY <1>1, <2>1, <2>2, <2>3, ShownIsLive, Zenon
  <2> QED
    BY <1>2, <1>4, <2>4, CalmKeeps, Zenon
<1> QED
  BY <1>3, <1>4, Zenon

LEMMA NamespaceComes ==
  ASSUME NamespaceAssumption, RelayAssumption, RelayInv, AnnouncedTyped',
         NEW s \in Publishers, NEW ns \in Namespaces, publishNamespace(s, ns)
  PROVE  RelayInv' /\ (~Takeovers /\ PublishInv => PublishInv')
<1> RelayTrees /\ TracksInv /\ RendezvousInv
  BY Zenon DEF RelayInv
<1>1. /\ RelayTrees' /\ PubsKept
      /\ \A p \in Namespaces :
           p # ns => Source(publishNamespaceRoot', p) = Source(publishNamespaceRoot, p)
  BY NamespacePublished, Zenon
<1>2. /\ TracksInv' /\ AllHeld' /\ Live(Current)' \subseteq Live(Current)
      /\ ~Takeovers => Calm
  BY TracksTaken, Zenon
<1>3. RendezvousInv'
  <2>1. /\ pendingRendezvous' = {r \in pendingRendezvous : ~startsWith(r.track[1], ns)}
        /\ signalled' \subseteq signalled \cup pendingRendezvous
    BY Zenon DEF publishNamespace, wakePendingRendezvousUnderNamespace
  <2>2. ASSUME NEW r \in pendingRendezvous' PROVE Awaits(r)'
    <3>1. r \in pendingRendezvous /\ r \in Request /\ Awaits(r) /\ ~startsWith(r.track[1], ns)
      BY <2>1, <2>2, Zenon DEF RendezvousInv
    <3>2. r.track[1] \in Namespaces
      BY <3>1 DEF Request, RelayAssumption
    <3>3. r.track[1] \in Seq(Names) /\ ns \in Seq(Names)
      BY <3>2, Zenon DEF NamespaceAssumption
    <3>4. ns \notin Prefixes(r.track[1])
      BY <3>1, <3>3, StartsPrefixes, Zenon
    <3> QED
      BY <1>1, <1>2, <3>1, <3>4, AwaitsOn, Zenon
  <2> QED
    BY <2>1, <2>2 DEF RendezvousInv
<1>4. RelayInv'
  BY <1>1, <1>2, <1>3, Zenon DEF RelayInv
<1>5. ASSUME ~Takeovers, PublishInv PROVE PublishInv'
  BY <1>1, <1>2, <1>3, <1>5, CalmKeeps, Zenon
<1> QED
  BY <1>4, <1>5

LEMMA NamespaceSteps ==
  ASSUME NamespaceAssumption, RelayAssumption, RelayInv, NamespaceStep
  PROVE  RelayInv' /\ (~Takeovers /\ PublishInv => PublishInv')
<1> RelayTrees /\ AnnouncedTyped
  BY DEF RelayInv
<1> RelayTrees'
  BY StepKeepsTrees, Zenon DEF Next
<1> AnnouncedTyped'
  BY AnnouncedTypes, Zenon
<1> Registrants \subseteq Sessions /\ Forwards \subseteq BOOLEAN /\ Infos \subseteq Info
  BY Zenon DEF RelayAssumption
<1> \A info \in Info : info.forward \in BOOLEAN
  BY Zenon DEF Info
<1>1. ASSUME NEW s \in Publishers, NEW ns \in Namespaces,
             publishNamespace(s, ns) \/ publishNamespaceDone(s, ns)
      PROVE  RelayInv' /\ (~Takeovers /\ PublishInv => PublishInv')
  <2>1. CASE publishNamespace(s, ns)
    BY <2>1, NamespaceComes, Zenon
  <2>2. CASE publishNamespaceDone(s, ns)
    <3>1. PubsKept /\ SourcesKept
      BY <2>2, NamespaceDone, Zenon
    <3>2. Untouched /\ UNCHANGED <<pendingRendezvous, signalled, publishing>>
      BY <2>2, Zenon DEF publishNamespaceDone
    <3> QED
      BY <3>1, <3>2, UntouchedKeeps, Zenon
  <2> QED
    BY <1>1, <2>1, <2>2
<1>2. ASSUME NEW s \in Registrants, NEW prefix \in NamespacePrefixes, NEW info \in Infos,
             subscribeNamespace(s, prefix, info)
      PROVE  RelayInv' /\ (PublishInv => PublishInv')
  <2> DEFINE shown == ExistingTracks(publishNamespaceRoot', s, prefix, {}, info.forward, "namespace")
             new == IF WantsTracks(info) THEN shown ELSE {}
  <2>1. PubsKept /\ SourcesKept
    BY <1>2, NamespaceSubscribed, Zenon
  <2>2. Untouched /\ UNCHANGED <<pendingRendezvous, signalled>> /\ publishing' = publishing \cup new
    BY <1>2, Zenon DEF subscribeNamespace
  <2>3. new \in SUBSET shown
    BY Zenon
  <2>4. s \in Sessions /\ info.forward \in BOOLEAN /\ "namespace" \in {"namespace", "tracks"}
    BY Zenon
  <2> HIDE DEF new
  <2> QED
    BY <2>1, <2>2, <2>3, <2>4, ShownKeeps, Zenon
<1>3. ASSUME NEW s \in Registrants, NEW prefix \in NamespacePrefixes, unsubscribeNamespace(s, prefix)
      PROVE  RelayInv' /\ (PublishInv => PublishInv')
  <2>1. PubsKept /\ SourcesKept
    BY <1>3, NamespaceUnsubscribed, Zenon
  <2>2. Untouched /\ UNCHANGED <<pendingRendezvous, signalled, publishing>>
    BY <1>3, Zenon DEF unsubscribeNamespace
  <2> QED
    BY <2>1, <2>2, UntouchedKeeps, Zenon
<1>4. ASSUME NEW s \in Registrants, NEW old \in NamespacePrefixes, NEW to \in NamespacePrefixes,
             updateNamespaceSubscriptionPrefix(s, old, to)
      PROVE  RelayInv' /\ (PublishInv => PublishInv')
  <2> DEFINE t == publishNamespaceRoot
             info == InfoOf(t, old, s)
             m == updateSubscriptionPrefix(t, old, to, s)
             shown == ExistingTracks(t', s, to, {old}, info.forward, "namespace")
             new == IF m.ok /\ WantsTracks(info) THEN shown ELSE {}
  <2>1. PubsKept /\ SourcesKept
    BY <1>4, NamespaceMoved, Zenon
  <2>2. /\ Untouched /\ UNCHANGED <<pendingRendezvous, signalled>>
        /\ Registered(t, old, s) /\ t' = m.tree
    BY <1>4, Zenon DEF updateNamespaceSubscriptionPrefix
  <2>3. publishing' = publishing \cup
          (IF m.ok /\ WantsTracks(info)
           THEN ExistingTracks(m.tree, s, to, {old}, info.forward, "namespace") ELSE {})
    BY <1>4, Zenon DEF updateNamespaceSubscriptionPrefix
  <2>4. publishing' = publishing \cup new
    BY <2>2, <2>3, Zenon
  <2>5. new \in SUBSET shown
    BY Zenon
  <2>6. s \in Sessions /\ to \in Namespaces /\ "namespace" \in {"namespace", "tracks"}
    BY Zenon DEF RelayAssumption
  <2>7. TreeInv(t) /\ old \in DOMAIN t /\ s \in Keys(Regs(t, old))
    BY <2>2, Zenon DEF RelayTrees, Registered, Regs
  <2>8. info \in Info
    BY <2>6, <2>7, PrefixUpdated, Zenon
  <2>9. info.forward \in BOOLEAN
    BY <2>8
  <2> HIDE DEF new, info, m
  <2> QED
    BY <2>1, <2>2, <2>4, <2>5, <2>6, <2>9, ShownKeeps, Zenon
<1>5. ASSUME NEW s \in Registrants, NEW prefix \in TracksPrefixes,
              \/ unsubscribeTracks(s, prefix)
              \/ \E forward \in Forwards : applySubscriptionUpdate(s, prefix, forward)
       PROVE  RelayInv' /\ (PublishInv => PublishInv')
  <2>1. Untouched /\ UNCHANGED <<publishNamespaceRoot, pendingRendezvous, signalled, publishing>>
    BY <1>5 DEF unsubscribeTracks, applySubscriptionUpdate
  <2>2. PubsKept /\ SourcesKept
    BY <2>1 DEF PubsKept, SourcesKept
  <2> QED
    BY <2>1, <2>2, UntouchedKeeps, Zenon
<1>6. ASSUME NEW s \in Registrants, NEW prefix, NEW skip, NEW forward \in Forwards,
              UNCHANGED <<publishNamespaceRoot, pendingRendezvous, signalled>>, Untouched,
              NEW new \in SUBSET ExistingTracks(publishNamespaceRoot, s, prefix, skip, forward, "tracks"),
              publishing' = publishing \cup new
       PROVE  RelayInv' /\ (PublishInv => PublishInv')
  <2>1. PubsKept /\ SourcesKept
    BY <1>6 DEF PubsKept, SourcesKept
  <2>2. s \in Sessions /\ forward \in BOOLEAN /\ "tracks" \in {"namespace", "tracks"}
    OBVIOUS
  <2> QED
    BY <1>6, <2>1, <2>2, ShownKeeps, Zenon
<1>7. ASSUME NEW s \in Registrants, NEW prefix \in TracksPrefixes, NEW forward \in Forwards,
              subscribeTracks(s, prefix, forward)
       PROVE  RelayInv' /\ (PublishInv => PublishInv')
  <2> DEFINE new == ExistingTracks(publishNamespaceRoot, s, prefix, {}, forward, "tracks")
  <2>1. /\ UNCHANGED <<publishNamespaceRoot, pendingRendezvous, signalled>> /\ Untouched
        /\ publishing' = publishing \cup new
    BY <1>7 DEF subscribeTracks
  <2>2. new \in SUBSET new
    BY Zenon
  <2> QED
    BY <1>6, <2>1, <2>2, Zenon
<1>8. ASSUME NEW s \in Registrants, NEW old \in TracksPrefixes, NEW to \in TracksPrefixes,
              NEW forward \in Forwards, updateSubscribeTracks(s, old, to, forward)
       PROVE  RelayInv' /\ (PublishInv => PublishInv')
  <2> DEFINE ok == updateSubscriptionPrefix(tracksSubscriberRoot, old, to, s).ok
             shown == ExistingTracks(publishNamespaceRoot, s, to, {old}, forward, "tracks")
             new == IF ok THEN shown ELSE {}
  <2>1. /\ UNCHANGED <<publishNamespaceRoot, pendingRendezvous, signalled>> /\ Untouched
        /\ publishing' = publishing \cup new
    BY <1>8, Zenon DEF updateSubscribeTracks
  <2>2. new \in SUBSET shown
    OBVIOUS
  <2> HIDE DEF new
  <2> QED
    BY <1>6, <2>1, <2>2, Zenon
<1> QED
  BY <1>1, <1>2, <1>3, <1>4, <1>5, <1>7, <1>8, Zenon DEF NamespaceStep

-----------------------------------------------------------------------------
(* The theorems.                                                           *)

LEMMA RelaySteps ==
  ASSUME NamespaceAssumption, RelayAssumption, RelayInv, [Next]_vars
  PROVE  RelayInv' /\ (~Takeovers /\ PublishInv => PublishInv')
<1>1. CASE NamespaceStep
  BY <1>1, NamespaceSteps, Zenon
<1>2. CASE Publishes
  BY <1>2, PublishStepKeeps, Zenon DEF Publishes
<1>3. CASE PublishesEnd
  BY <1>3, PublishDoneKeeps, Zenon DEF PublishesEnd
<1>4. CASE ~NamespaceStep /\ ~Publishes /\ ~PublishesEnd
  <2>1. Calm /\ UNCHANGED trees /\ RendezvousInv'
    BY <1>4, QuietSteps, Zenon
  <2>2. RelayTrees' /\ AnnouncedTyped' /\ PubsKept
    BY <2>1, Zenon DEF trees, RelayInv, RelayTrees, AnnouncedTyped, PubsKept
  <2> QED
    BY <2>1, <2>2, CalmKeeps, Zenon
<1> QED
  BY <1>1, <1>2, <1>3, <1>4, Zenon

LEMMA RelayAtFirst ==
  ASSUME NamespaceAssumption, RelayAssumption, Init PROVE RelayInv /\ PublishInv
<1>1. RelayTrees /\ AnnouncedTyped
  BY TreesAtFirst, Zenon DEF AnnouncedInv, AnnouncedTyped
<1>2. TracksInv /\ AllHeld /\ Live(Current) = {} /\ TasksOK(Current, publishing)
  BY TracksAtFirst
<1>3. RendezvousInv /\ publishNamespaceRoot = EmptyTree
  BY DEF Init, RendezvousInv
<1>4. \A ns \in Namespaces : Pubs(EmptyTree, ns) = {} /\ LiveAt({}, ns) = {}
  BY EmptyTreeSound, Zenon DEF LiveAt
<1> QED
  BY <1>1, <1>2, <1>3, <1>4, Zenon DEF RelayInv, PublishInv, PubsAgree

LEMMA RelayInductive ==
  ASSUME NamespaceAssumption, RelayAssumption
  PROVE  Spec => [](RelayInv /\ (~Takeovers => PublishInv))
<1> DEFINE Inv == RelayInv /\ (~Takeovers => PublishInv)
<1>1. Init => Inv
  BY RelayAtFirst, Zenon
<1>2. Inv /\ [Next]_vars => Inv'
  BY RelaySteps, Zenon
<1> QED
  BY <1>1, <1>2, PTL DEF Spec

(* Every piece of the relay's state keeps its shape, for any sessions,     *)
(* tracks, namespaces and forwarders, with takeovers of tracks and of      *)
(* namespaces and with early failures: a subscription names a forwarder    *)
(* that exists, a forwarder forwards to subscribers of its own only.       *)
THEOREM RelayTypeCorrect ==
  ASSUME NamespaceAssumption, RelayAssumption PROVE Spec => []TypeOK
<1>1. RelayInv => TypeOK
  <2> SUFFICES ASSUME RelayInv PROVE TypeOK
    BY Zenon
  <2>1. RelayTrees /\ TracksInv /\ AnnouncedTyped /\ RendezvousInv
    BY Zenon DEF RelayInv
  <2>2. /\ DOMAIN publishNamespaceRoot \subseteq Namespaces
        /\ DOMAIN tracksSubscriberRoot \subseteq Namespaces
    BY <2>1, Zenon DEF RelayTrees, TreeInv, Sound, Shaped
  <2> QED
    BY <2>1, <2>2, TracksTyped, Zenon DEF TypeOK, AnnouncedTyped, RendezvousInv
<1> QED
  BY <1>1, RelayInductive, PTL

(* However subscribes, publishes, failures, cancellations and takeovers    *)
(* interleave: subscriptions_ has one entry per track with a forwarder of  *)
(* its own, a subscribe that waits for the promise of another waits for    *)
(* one that is still to be kept or broken, and no subscribe sleeps on in a *)
(* rendezvous whose track or namespace has a publisher.                    *)
THEOREM WaitersAreServed ==
  ASSUME NamespaceAssumption, RelayAssumption
  PROVE  Spec => [](OneSubscriptionPerTrack /\ CoalescingIsServed /\ RendezvousIsWoken)
<1>1. ASSUME RelayInv PROVE OneSubscriptionPerTrack /\ CoalescingIsServed /\ RendezvousIsWoken
  <2>1. RelayTrees /\ TracksInv /\ RendezvousInv
    BY <1>1, Zenon DEF RelayInv
  <2>2. OneSubscriptionPerTrack /\ CoalescingIsServed
    BY <2>1, EntriesServe, Zenon
  <2>4. RendezvousIsWoken
    <3> SUFFICES ASSUME NEW r \in pendingRendezvous
                 PROVE  /\ findPublishNamespaceSession(publishNamespaceRoot, r.track[1]) = None
                        /\ ~ \E sub \in subscriptions : sub.track = r.track /\ sub.isPublish /\ sub.handle
      BY DEF RendezvousIsWoken
    <3>1. r \in Request /\ Awaits(r)
      BY <2>1, Zenon DEF RendezvousInv
    <3>2. findPublishNamespaceSession(publishNamespaceRoot, r.track[1]) = None
      BY <2>1, <3>1, NothingToAwait DEF Awaits
    <3>3. ~ \E sub \in subscriptions : sub.track = r.track /\ sub.isPublish /\ sub.handle
      BY <2>1, <3>1, CurrentParts, Zenon DEF Awaits, Live
    <3> QED
      BY <3>2, <3>3, Zenon
  <2> QED
    BY <2>2, <2>4, Zenon
<1> QED
  BY <1>1, RelayInductive, PTL

(* subscriptions_ has one entry per track, and the publishes of the tree   *)
(* are the live PUBLISHes of subscriptions_, whatever comes and ends, as   *)
(* long as no publisher takes over a track or a namespace of another one.  *)
THEOREM RelaySubscriptionsAgree ==
  ASSUME NamespaceAssumption, RelayAssumption, ~Takeovers PROVE Spec => []SubscriptionsAgree
<1>1. ASSUME RelayInv, PublishInv PROVE PublishesHaveSubscription
  <2> DEFINE t == publishNamespaceRoot
  <2>1. TracksInv /\ PubsAgree /\ DOMAIN t \subseteq Namespaces
    BY <1>1, Zenon DEF RelayInv, PublishInv, RelayTrees, TreeInv, Sound, Shaped
  <2>2. ASSUME NEW ns \in DOMAIN t, NEW e \in t[ns].publishes
        PROVE  \E sub \in subscriptions : /\ sub.track = <<ns, e[1]>> /\ sub.upstream = e[2]
                                          /\ sub.isPublish /\ sub.handle
    <3>1. e \in LiveAt(Live(Current), ns)
      BY <2>1, <2>2 DEF PubsAgree, Pubs
    <3> QED
      BY <2>1, <3>1, LiveFound, Zenon
  <2>3. ASSUME NEW sub \in subscriptions, sub.isPublish, sub.handle
        PROVE  /\ sub.track[1] \in DOMAIN t
               /\ <<sub.track[2], sub.upstream>> \in t[sub.track[1]].publishes
    <3>1. /\ sub.track[1] \in Namespaces
          /\ <<sub.track[2], sub.upstream>> \in LiveAt(Live(Current), sub.track[1])
      BY <2>1, <2>3, LiveCounted, Zenon
    <3> QED
      BY <2>1, <3>1, Zenon DEF PubsAgree, Pubs
  <2> QED
    BY <2>2, <2>3, Zenon DEF PublishesHaveSubscription
<1>2. RelayInv /\ (~Takeovers => PublishInv) => PublishesHaveSubscription
  BY <1>1, Zenon
<1> QED
  BY <1>2, RelayInductive, WaitersAreServed, PTL DEF SubscriptionsAgree

(* Whoever subscribes through a forwarder that has not been told its track *)
(* ended has an upstream request behind it, whoever coalesced has a first  *)
(* subscribe that is still to resume, and whoever waits in a rendezvous    *)
(* has no publisher yet, as long as there are no takeovers.                *)
THEOREM RelayServes ==
  ASSUME NamespaceAssumption, RelayAssumption, ~Takeovers PROVE Spec => []EveryoneIsServed
<1>1. ASSUME RelayInv, PublishInv PROVE SubscribersAreServed
  <2>1. TracksInv /\ AllHeld /\ TasksOK(Current, publishing)
    BY <1>1, Zenon DEF RelayInv, PublishInv
  <2> QED
    BY <2>1, ForwardersServe, Zenon
<1>2. RelayInv /\ (~Takeovers => PublishInv) => SubscribersAreServed
  BY <1>1, Zenon
<1> QED
  BY <1>2, RelayInductive, WaitersAreServed, PTL DEF EveryoneIsServed
=============================================================================
