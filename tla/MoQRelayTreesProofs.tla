------------------------ MODULE MoQRelayTreesProofs ------------------------
(***************************************************************************)
(* Proofs about MoQRelay's trees: what they hold and who is told of which  *)
(* namespace, through every step of the relay, for any sessions,           *)
(* namespaces, tracks and prefixes.                                        *)
(***************************************************************************)
EXTENDS NamespaceTreeProofs, MoQRelay

-----------------------------------------------------------------------------
(* Both trees, through every step of the relay.                            *)

RelayTrees == TreeInv(publishNamespaceRoot) /\ TreeInv(tracksSubscriberRoot)

(* What most of them leave alone, or give up.                              *)
PubsKept == \A p \in Namespaces : Pubs(publishNamespaceRoot', p) = Pubs(publishNamespaceRoot, p)
SourcesKept ==
  \A p \in Namespaces :
    Source(publishNamespaceRoot', p) \in {Source(publishNamespaceRoot, p), None}

(* The steps that touch a tree.                                            *)
Publishes ==
  \E s \in Publishers, track \in Tracks, f \in Forwarders, stay \in SUBSET Sessions :
    publish(s, track, f, stay)
PublishesEnd == \E f \in Forwarders : \E stay \in Draining(f) : publishDone(f, stay)

LEMMA TreeSteps ==
  ASSUME [Next]_vars
  PROVE  UNCHANGED trees \/ Publishes \/ PublishesEnd \/ NamespaceStep
<1>1. CASE SubscribeStep
  BY <1>1, Zenon DEF SubscribeStep, subscribe, resumeRendezvous, subscribeRendezvous, rendezvousTimeout,
              resumeFirst, cancelFirst, resumeCoalesced, cancelCoalesced
<1>2. CASE ForwarderStep
  BY <1>2, Zenon DEF ForwarderStep, upstreamAnswers, leave, updateForward, openSubgroup, closeSubgroup,
              PublishesEnd
<1>3. CASE PublishStep
  BY <1>3, Zenon DEF PublishStep, publishToSession, publishAnswered, Publishes
<1>4. CASE UNCHANGED vars
  BY <1>4, Zenon DEF vars, trees
<1> QED
  BY <1>1, <1>2, <1>3, <1>4, Zenon DEF Next

(* What a step does to the publishers of namespaces, the registrations and *)
(* the publishes.                                                          *)
LEMMA TrackAdded ==
  ASSUME NamespaceAssumption, RelayAssumption, RelayTrees, NEW s \in Publishers,
         NEW track \in Tracks, NEW f, NEW stay, publish(s, track, f, stay)
  PROVE  /\ RelayTrees' /\ UNCHANGED <<tracksSubscriberRoot, announced>>
         /\ \A p \in Namespaces :
              /\ Source(publishNamespaceRoot', p) = Source(publishNamespaceRoot, p)
              /\ Regs(publishNamespaceRoot', p) = Regs(publishNamespaceRoot, p)
              /\ Find(Current, track) = {} =>
                   Pubs(publishNamespaceRoot', p) =
                     IF p = track[1] THEN Pubs(publishNamespaceRoot, p) \cup {<<track[2], s>>}
                     ELSE Pubs(publishNamespaceRoot, p)
<1> DEFINE t == publishNamespaceRoot
           t1 == findInTree(t, track[1])
           node == t1[track[1]]
           kept == IF Find(Current, track) = {} THEN node.publishes
                   ELSE {e \in node.publishes : e[1] # track[2]}
           u == PublishInto(t, track, s, kept)
<1>1. publishNamespaceRoot' = u /\ UNCHANGED <<tracksSubscriberRoot, announced>>
  BY Zenon DEF publish, PublishInto
<1>2. s \in Sessions /\ track[1] \in Namespaces /\ TreeInv(t) /\ TreeInv(tracksSubscriberRoot)
  BY Zenon DEF RelayAssumption, RelayTrees
<1>3. /\ kept \subseteq findInTree(t, track[1])[track[1]].publishes
      /\ Find(Current, track) = {} => kept = node.publishes
  BY Zenon
<1> HIDE DEF kept
<1>4. /\ TreeInv(u) /\ node.publishes = Pubs(t, track[1])
      /\ \A p \in Namespaces :
           /\ Source(u, p) = Source(t, p) /\ Regs(u, p) = Regs(t, p)
           /\ Pubs(u, p) = IF p = track[1] THEN kept \cup {<<track[2], s>>} ELSE Pubs(t, p)
  BY <1>2, <1>3, PublishAdded
<1> HIDE DEF u, node
<1>5. RelayTrees'
  BY <1>1, <1>2, <1>4, Zenon DEF RelayTrees
<1> QED
  BY <1>1, <1>3, <1>4, <1>5, Zenon

LEMMA TrackRemoved ==
  ASSUME NamespaceAssumption, RelayAssumption, RelayTrees, NEW f, NEW stay, publishDone(f, stay)
  PROVE  LET track == forwarders[f].track
         IN  /\ RelayTrees' /\ UNCHANGED <<tracksSubscriberRoot, announced>>
             /\ \A p \in Namespaces :
                  /\ Source(publishNamespaceRoot', p) = Source(publishNamespaceRoot, p)
                  /\ Regs(publishNamespaceRoot', p) = Regs(publishNamespaceRoot, p)
                  /\ Pubs(publishNamespaceRoot', p) =
                       IF p = track[1] /\ \E sub \in Find(Current, track) : sub.isPublish
                       THEN {e \in Pubs(publishNamespaceRoot, p) : e[1] # track[2]}
                       ELSE Pubs(publishNamespaceRoot, p)
<1> DEFINE t == publishNamespaceRoot
           track == forwarders[f].track
           had == \E sub \in Find(Current, track) : sub.isPublish
           u == removePublish(t, track)
<1>1. /\ publishNamespaceRoot' = IF had THEN u ELSE t
      /\ UNCHANGED <<tracksSubscriberRoot, announced>>
  BY Zenon DEF publishDone
<1>2. TreeInv(t) /\ TreeInv(tracksSubscriberRoot)
  BY Zenon DEF RelayTrees
<1>3. /\ TreeInv(u)
      /\ \A p \in Namespaces :
           /\ Source(u, p) = Source(t, p) /\ Regs(u, p) = Regs(t, p)
           /\ Pubs(u, p) = IF p = track[1] THEN {e \in Pubs(t, p) : e[1] # track[2]} ELSE Pubs(t, p)
  BY <1>2, PublishRemoved, Zenon
<1> HIDE DEF u, track
<1>4. CASE had
  BY <1>1, <1>2, <1>3, <1>4, Zenon DEF RelayTrees, track
<1>5. CASE ~had
  BY <1>1, <1>2, <1>5, Zenon DEF RelayTrees, track
<1> QED
  BY <1>4, <1>5, Zenon

LEMMA TracksKeepTrees ==
  ASSUME NamespaceAssumption, RelayAssumption, RelayTrees, NEW s \in Registrants,
         NEW prefix \in TracksPrefixes,
         \/ unsubscribeTracks(s, prefix)
         \/ \E forward \in Forwards :
              \/ subscribeTracks(s, prefix, forward)
              \/ \E new \in TracksPrefixes : updateSubscribeTracks(s, prefix, new, forward)
              \/ applySubscriptionUpdate(s, prefix, forward)
  PROVE  RelayTrees' /\ UNCHANGED <<publishNamespaceRoot, announced>>
<1> DEFINE t == tracksSubscriberRoot
<1>1. s \in Sessions /\ prefix \in Namespaces /\ TreeInv(t) /\ Sound(t)
  BY Zenon DEF RelayAssumption, RelayTrees, TreeInv
<1>2. ASSUME UNCHANGED <<publishNamespaceRoot, announced>>, TreeInv(t')
      PROVE  RelayTrees' /\ UNCHANGED <<publishNamespaceRoot, announced>>
  BY <1>2, Zenon DEF RelayTrees
<1>3. \A q : Registered(t, q, s) => q \in DOMAIN t /\ s \in Keys(Regs(t, q))
  BY Zenon DEF Registered, Regs
<1>4. CASE unsubscribeTracks(s, prefix)
  <2>1. /\ prefix \in DOMAIN t /\ t' = removeSession(t, prefix, s)
        /\ UNCHANGED <<publishNamespaceRoot, announced>>
    BY <1>3, <1>4, Zenon DEF unsubscribeTracks
  <2>2. /\ Sound(t')
        /\ \A p \in Namespaces :
             Regs(t', p) = IF p = prefix THEN {e \in Regs(t, p) : e[1] # s} ELSE Regs(t, p)
    BY <1>1, <2>1, SessionRemoved
  <2>3. TreeInv(t')
    BY <1>1, <2>2, RegsShrink, Zenon
  <2> QED
    BY <1>2, <2>1, <2>3, Zenon
<1>5. ASSUME NEW forward \in Forwards, subscribeTracks(s, prefix, forward)
      PROVE  RelayTrees' /\ UNCHANGED <<publishNamespaceRoot, announced>>
  <2> DEFINE info == [forward |-> forward, options |-> "PUBLISH"]
  <2>1. /\ ~hasOverlappingSubscription(t, prefix, s) /\ t' = addSession(t, prefix, s, info)
        /\ UNCHANGED <<publishNamespaceRoot, announced>>
    BY <1>5, Zenon DEF subscribeTracks
  <2>2. info \in Info
    BY Zenon DEF Info, RelayAssumption
  <2> HIDE DEF info
  <2>3. /\ Sound(t')
        /\ \A p \in Namespaces :
             Regs(t', p) = IF p = prefix THEN Regs(t, p) \cup {<<s, info>>} ELSE Regs(t, p)
    BY <1>1, <2>1, <2>2, SessionAdded
  <2>4. ~Overlaps(t, prefix, s)
    BY <1>1, <2>1, OverlapMeans, Zenon
  <2>5. TreeInv(t')
    BY <1>1, <2>3, <2>4, RegsGrow, Zenon
  <2> QED
    BY <1>2, <2>1, <2>5, Zenon
<1>6. ASSUME NEW forward \in Forwards, NEW new \in TracksPrefixes,
             updateSubscribeTracks(s, prefix, new, forward)
      PROVE  RelayTrees' /\ UNCHANGED <<publishNamespaceRoot, announced>>
  <2> DEFINE m == updateSubscriptionPrefix(t, prefix, new, s)
  <2>1. /\ prefix \in DOMAIN t /\ s \in Keys(Regs(t, prefix))
        /\ t' = IF m.ok THEN SetForward(m.tree, new, s, forward) ELSE m.tree
        /\ UNCHANGED <<publishNamespaceRoot, announced>>
    BY <1>3, <1>6, Zenon DEF updateSubscribeTracks
  <2>2. new \in Namespaces /\ forward \in BOOLEAN
    BY Zenon DEF RelayAssumption
  <2>3. TreeInv(m.tree) /\ (m.ok => new \in DOMAIN m.tree)
    BY <1>1, <2>1, <2>2, PrefixUpdated, Zenon
  <2> HIDE DEF m
  <2>4. TreeInv(t')
    BY <1>1, <2>1, <2>2, <2>3, ForwardSet, Zenon
  <2> QED
    BY <1>2, <2>1, <2>4, Zenon
<1>7. ASSUME NEW forward \in Forwards, applySubscriptionUpdate(s, prefix, forward)
      PROVE  RelayTrees' /\ UNCHANGED <<publishNamespaceRoot, announced>>
  <2>1. /\ prefix \in DOMAIN t /\ t' = SetForward(t, prefix, s, forward)
        /\ UNCHANGED <<publishNamespaceRoot, announced>>
    BY <1>3, <1>7, Zenon DEF applySubscriptionUpdate
  <2>2. forward \in BOOLEAN
    BY Zenon DEF RelayAssumption
  <2>3. TreeInv(t')
    BY <1>1, <2>1, <2>2, ForwardSet, Zenon
  <2> QED
    BY <1>2, <2>1, <2>3, Zenon
<1> QED
  BY <1>4, <1>5, <1>6, <1>7, Zenon

-----------------------------------------------------------------------------
(* Who was told of which namespace.                                        *)

(* s has a registration above ns that wants namespaces.                    *)
Listens(t, s, ns) ==
  \E p \in Prefixes(ns) : \E e \in Regs(t, p) : e[1] = s /\ WantsNamespaces(e[2])
Heard(t, s) == {ns \in Namespaces : Source(t, ns) \notin {None, s} /\ Listens(t, s, ns)}

AnnouncedInv ==
  /\ announced \in [Sessions -> SUBSET Namespaces]
  /\ \A s \in Sessions : announced[s] = Heard(publishNamespaceRoot, s)

LEMMA AlongMeans ==
  ASSUME NamespaceAssumption, NEW t, Sound(t), NEW ns \in Namespaces, NEW s
  PROVE  (\E e \in SessionsAlong(t, ns) : e[1] = s /\ WantsNamespaces(e[2])) <=> Listens(t, s, ns)
<1>1. \A e : e \in SessionsAlong(t, ns) <=> \E p \in Prefixes(ns) : e \in Regs(t, p)
  BY Zenon DEF SessionsAlong, Regs
<1> QED
  BY <1>1, Zenon DEF Listens

(* Registrations above one namespace lie on one path.                      *)
LEMMA OneAbove ==
  ASSUME NamespaceAssumption, NEW t, TreeInv(t), NEW ns \in Namespaces, NEW s,
         NEW p \in Prefixes(ns), s \in Keys(Regs(t, p)), NEW q \in Prefixes(ns), s \in Keys(Regs(t, q))
  PROVE  p = q
<1>1. /\ ns \in Seq(Names) /\ p \in Namespaces /\ q \in Namespaces
      /\ Len(p) \in Nat /\ Len(q) \in Nat
  BY PrefixesAreNamespaces, PrefixOrder, Zenon
<1>2. p \in Prefixes(q) \/ q \in Prefixes(p)
  <2>1. Len(p) <= Len(q) \/ Len(q) <= Len(p)
    BY <1>1
  <2> QED
    BY <1>1, <2>1, PrefixOrder, Zenon
<1> QED
  BY <1>1, <1>2, Zenon DEF TreeInv, Disjoint

LEMMA AnnouncedMeans ==
  ASSUME NamespaceAssumption, TreeInv(publishNamespaceRoot), AnnouncedInv PROVE AnnouncedExactly
<1> DEFINE t == publishNamespaceRoot
<1>1. DOMAIN t \subseteq Namespaces /\ Sound(t)
  BY Zenon DEF TreeInv, Sound, Shaped
<1> SUFFICES ASSUME NEW s \in Sessions
             PROVE  Heard(t, s) =
                      {ns \in DOMAIN t :
                         /\ t[ns].sourceSession \notin {None, s}
                         /\ \E e \in SessionsAlong(t, ns) : e[1] = s /\ WantsNamespaces(e[2])}
  BY Zenon DEF AnnouncedInv, AnnouncedExactly
<1>2. \A ns \in DOMAIN t : Source(t, ns) = t[ns].sourceSession
  BY Zenon DEF Source
<1>3. \A ns \in Namespaces : ns \notin DOMAIN t => Source(t, ns) = None
  BY Zenon DEF Source
<1>4. \A ns \in DOMAIN t :
        (\E e \in SessionsAlong(t, ns) : e[1] = s /\ WantsNamespaces(e[2])) <=> Listens(t, s, ns)
  BY <1>1, AlongMeans, Zenon
<1> QED
  BY <1>1, <1>2, <1>3, <1>4, Zenon DEF Heard

(* Trees that differ in nothing that is heard.                             *)
LEMMA HeardSame ==
  ASSUME NamespaceAssumption, NEW t, NEW u, NEW s,
         \A p \in Namespaces : Source(u, p) = Source(t, p) /\ Regs(u, p) = Regs(t, p)
  PROVE  Heard(u, s) = Heard(t, s)
<1>1. \A ns \in Namespaces : Prefixes(ns) \subseteq Namespaces
  BY PrefixesAreNamespaces, Zenon
<1> QED
  BY <1>1, Zenon DEF Heard, Listens

(* NAMESPACE goes to those who listen.                                     *)
LEMMA NamespacePublished ==
  ASSUME NamespaceAssumption, RelayAssumption, RelayTrees, NEW s \in Publishers, NEW ns \in Namespaces,
         publishNamespace(s, ns)
  PROVE  /\ RelayTrees' /\ (~Takeovers /\ AnnouncedInv => AnnouncedInv') /\ PubsKept
         /\ \A p \in Namespaces :
              p # ns => Source(publishNamespaceRoot', p) = Source(publishNamespaceRoot, p)
<1> DEFINE t == publishNamespaceRoot
           t1 == findInTree(t, ns)
           cleared == [t1[ns] EXCEPT !.sourceSession = None]
           u == addContent(t1, ns, [cleared EXCEPT !.sourceSession = s], ~hasLocalSessions(cleared))
<1>1. s \in Sessions /\ TreeInv(t) /\ None \notin Sessions
  BY Zenon DEF RelayAssumption, RelayTrees, NamespaceAssumption
<1>2. /\ t' = u /\ UNCHANGED tracksSubscriberRoot
      /\ Takeovers \/ t1[ns].sourceSession = None
      /\ announced' = [x \in Sessions |->
           IF x \in Told(t1, ns, s) THEN announced[x] \cup {ns} ELSE announced[x]]
  BY Zenon DEF publishNamespace
<1>3. /\ TreeInv(u) /\ Same(t, t1) /\ Sound(t1) /\ ns \in DOMAIN t1
      /\ \A p \in Namespaces : /\ Source(u, p) = IF p = ns THEN s ELSE Source(t, p)
                               /\ Regs(u, p) = Regs(t, p) /\ Pubs(u, p) = Pubs(t, p)
  BY <1>1, SourceSet, Zenon
<1> HIDE DEF u, cleared, t1
<1>4. RelayTrees'
  BY <1>1, <1>2, <1>3, Zenon DEF RelayTrees
<1>5. ASSUME ~Takeovers, AnnouncedInv PROVE AnnouncedInv'
  <2>1. Source(t, ns) = None
    BY <1>2, <1>3, <1>5, Zenon DEF Same, Source
  <2>2. \A q \in Namespaces : Prefixes(q) \subseteq Namespaces
    BY PrefixesAreNamespaces, Zenon
  <2>3. \A x, q : q \in Namespaces => (Listens(t1, x, q) <=> Listens(t, x, q))
    BY <1>3, <2>2, Zenon DEF Same, Listens
  <2>4. \A x, q : q \in Namespaces => (Listens(u, x, q) <=> Listens(t, x, q))
    BY <1>3, <2>2, Zenon DEF Listens
  <2>5. \A x : x \in Told(t1, ns, s) <=> x # s /\ Listens(t, x, ns)
    <3>1. \A x : x \in Told(t1, ns, s) <=>
                   x # s /\ \E e \in SessionsAlong(t1, ns) : e[1] = x /\ WantsNamespaces(e[2])
      BY Zenon DEF Told
    <3> QED
      BY <1>3, <2>3, <3>1, AlongMeans
  <2>6. ASSUME NEW x \in Sessions PROVE announced'[x] = Heard(u, x) /\ announced'[x] \in SUBSET Namespaces
    <3>1. announced[x] = Heard(t, x)
      BY <1>5, Zenon DEF AnnouncedInv
    <3>2. announced'[x] = IF x \in Told(t1, ns, s) THEN announced[x] \cup {ns} ELSE announced[x]
      BY <1>2, Zenon
    <3>3. Heard(u, x) = {q \in Namespaces : (IF q = ns THEN s ELSE Source(t, q)) \notin {None, x}
                                             /\ Listens(t, x, q)}
      BY <1>3, <2>4, Zenon DEF Heard
    <3>4. ns \notin Heard(t, x)
      BY <2>1, Zenon DEF Heard
    <3>5. CASE x \in Told(t1, ns, s)
      BY <1>1, <2>5, <3>1, <3>2, <3>3, <3>5, Zenon DEF Heard
    <3>6. CASE x \notin Told(t1, ns, s)
      BY <1>1, <2>1, <2>5, <3>1, <3>2, <3>3, <3>4, <3>6, Zenon DEF Heard
    <3>7. Heard(u, x) \in SUBSET Namespaces
      BY Zenon DEF Heard
    <3> QED
      BY <3>5, <3>6, <3>7, Zenon
  <2>7. announced' \in [Sessions -> SUBSET Namespaces]
    BY <1>2, <2>6, Zenon
  <2> QED
    BY <1>2, <2>6, <2>7, Zenon DEF AnnouncedInv
<1>6. /\ PubsKept
      /\ \A p \in Namespaces : p # ns => Source(t', p) = Source(t, p)
  BY <1>2, <1>3, Zenon DEF PubsKept
<1> QED
  BY <1>4, <1>5, <1>6, Zenon

(* NAMESPACE_DONE as well.                                                 *)
LEMMA NamespaceDone ==
  ASSUME NamespaceAssumption, RelayAssumption, RelayTrees, NEW s \in Publishers, NEW ns \in Namespaces,
         publishNamespaceDone(s, ns)
  PROVE  RelayTrees' /\ (AnnouncedInv => AnnouncedInv') /\ PubsKept /\ SourcesKept
<1> DEFINE t == publishNamespaceRoot
           u == removeContent(t, ns, [t[ns] EXCEPT !.sourceSession = None])
<1>1. s \in Sessions /\ TreeInv(t) /\ None \notin Sessions /\ Sound(t)
  BY Zenon DEF RelayAssumption, RelayTrees, NamespaceAssumption, TreeInv
<1>2. /\ t' = u /\ UNCHANGED tracksSubscriberRoot /\ ns \in DOMAIN t /\ t[ns].sourceSession = s
      /\ announced' = [x \in Sessions |->
           IF x \in Told(t, ns, s) THEN announced[x] \ {ns} ELSE announced[x]]
  BY Zenon DEF publishNamespaceDone
<1>3. /\ TreeInv(u)
      /\ \A p \in Namespaces : /\ Source(u, p) = IF p = ns THEN None ELSE Source(t, p)
                               /\ Regs(u, p) = Regs(t, p) /\ Pubs(u, p) = Pubs(t, p)
  BY <1>1, <1>2, SourceCleared, Zenon
<1> HIDE DEF u
<1>4. RelayTrees'
  BY <1>1, <1>2, <1>3, Zenon DEF RelayTrees
<1>5. ASSUME AnnouncedInv PROVE AnnouncedInv'
  <2>1. Source(t, ns) = s
    BY <1>2, Zenon DEF Source
  <2>2. \A q \in Namespaces : Prefixes(q) \subseteq Namespaces
    BY PrefixesAreNamespaces, Zenon
  <2>3. \A x, q : q \in Namespaces => (Listens(u, x, q) <=> Listens(t, x, q))
    BY <1>3, <2>2, Zenon DEF Listens
  <2>4. \A x : x \in Told(t, ns, s) <=> x # s /\ Listens(t, x, ns)
    <3>1. \A x : x \in Told(t, ns, s) <=>
                   x # s /\ \E e \in SessionsAlong(t, ns) : e[1] = x /\ WantsNamespaces(e[2])
      BY Zenon DEF Told
    <3> QED
      BY <1>1, <3>1, AlongMeans, Zenon
  <2>5. ASSUME NEW x \in Sessions PROVE announced'[x] = Heard(u, x) /\ announced'[x] \in SUBSET Namespaces
    <3>1. announced[x] = Heard(t, x)
      BY <1>5, Zenon DEF AnnouncedInv
    <3>2. announced'[x] = IF x \in Told(t, ns, s) THEN announced[x] \ {ns} ELSE announced[x]
      BY <1>2, Zenon
    <3>3. Heard(u, x) = {q \in Namespaces : (IF q = ns THEN None ELSE Source(t, q)) \notin {None, x}
                                             /\ Listens(t, x, q)}
      BY <1>3, <2>3, Zenon DEF Heard
    <3>4. Heard(u, x) = Heard(t, x) \ {ns}
      BY <3>3, Zenon DEF Heard
    <3>5. x \notin Told(t, ns, s) => ns \notin Heard(t, x)
      BY <2>1, <2>4, Zenon DEF Heard
    <3>6. Heard(u, x) \in SUBSET Namespaces
      BY Zenon DEF Heard
    <3> QED
      BY <3>1, <3>2, <3>4, <3>5, <3>6, Zenon
  <2>6. announced' \in [Sessions -> SUBSET Namespaces]
    BY <1>2, <2>5, Zenon
  <2> QED
    BY <1>2, <2>5, <2>6, Zenon DEF AnnouncedInv
<1>6. PubsKept /\ SourcesKept
  BY <1>2, <1>3, Zenon DEF PubsKept, SourcesKept
<1> QED
  BY <1>4, <1>5, <1>6, Zenon

(* What a registration that comes, or goes, changes of who listens.        *)
Joins(t, u, ns, s, info) ==
  \A p \in Namespaces : Regs(u, p) = IF p = ns THEN Regs(t, p) \cup {<<s, info>>} ELSE Regs(t, p)

LEMMA ListensAdded ==
  ASSUME NamespaceAssumption, NEW t, NEW u, NEW ns \in Namespaces, NEW s, NEW info,
         Joins(t, u, ns, s, info), NEW x, NEW q \in Namespaces
  PROVE  Listens(u, x, q) <=>
           Listens(t, x, q) \/ (x = s /\ ns \in Prefixes(q) /\ WantsNamespaces(info))
<1>1. Prefixes(q) \subseteq Namespaces
  BY PrefixesAreNamespaces, Zenon
<1>2. <<s, info>>[1] = s /\ <<s, info>>[2] = info
  BY Zenon
<1>3. \A p \in Prefixes(q) : \A e : e \in Regs(u, p) <=> e \in Regs(t, p) \/ (p = ns /\ e = <<s, info>>)
  BY <1>1, Zenon DEF Joins
<1> QED
  BY <1>2, <1>3, Zenon DEF Listens

LEMMA ListensRemoved ==
  ASSUME NamespaceAssumption, NEW t, TreeInv(t), NEW u, NEW ns \in Namespaces, NEW s,
         s \in Keys(Regs(t, ns)),
         \A p \in Namespaces : Regs(u, p) = IF p = ns THEN {e \in Regs(t, p) : e[1] # s} ELSE Regs(t, p),
         NEW x, NEW q \in Namespaces
  PROVE  Listens(u, x, q) <=> Listens(t, x, q) /\ ~(x = s /\ ns \in Prefixes(q))
<1>1. Prefixes(q) \subseteq Namespaces
  BY PrefixesAreNamespaces, Zenon
<1>2. \A p \in Prefixes(q) : \A e : e \in Regs(u, p) <=> e \in Regs(t, p) /\ ~(p = ns /\ e[1] = s)
  BY <1>1, Zenon
<1>3. ASSUME ns \in Prefixes(q), NEW p \in Prefixes(q), NEW e \in Regs(t, p), e[1] = s PROVE p = ns
  <2>1. s \in Keys(Regs(t, p))
    BY <1>3, Zenon DEF Keys
  <2> QED
    BY <1>3, <2>1, OneAbove, Zenon
<1> QED
  BY <1>2, <1>3, Zenon DEF Listens

(* Above what lies under a registered prefix there is that registration.   *)
LEMMA ListensUnder ==
  ASSUME NamespaceAssumption, NEW t, TreeInv(t), NEW ns \in Namespaces, NEW s, NEW info,
         <<s, info>> \in Regs(t, ns), NEW q \in Namespaces, ns \in Prefixes(q)
  PROVE  Listens(t, s, q) <=> WantsNamespaces(info)
<1>1. <<s, info>>[1] = s /\ <<s, info>>[2] = info
  BY Zenon
<1>2. s \in Keys(Regs(t, ns))
  BY <1>1, Zenon DEF Keys
<1>3. ASSUME NEW p \in Prefixes(q), NEW e \in Regs(t, p), e[1] = s PROVE p = ns /\ e = <<s, info>>
  <2>1. s \in Keys(Regs(t, p))
    BY <1>3, Zenon DEF Keys
  <2>2. p = ns
    BY <1>2, <2>1, OneAbove, Zenon
  <2> QED
    BY <1>1, <1>3, <2>2, Zenon DEF TreeInv, Once
<1> QED
  BY <1>1, <1>3, Zenon DEF Listens

(* What a new registration is shown.                                       *)
LEMMA ShownMeans ==
  ASSUME NamespaceAssumption, NEW t, Sound(t), NEW ns \in Namespaces, NEW skip \in SUBSET Namespaces, NEW s
  PROVE  ExistingNamespaces(t, s, ns, skip) =
           {q \in Namespaces : /\ Source(t, q) \notin {None, s} /\ ns \in Prefixes(q)
                               /\ \A p \in skip : p \notin Prefixes(q)}
<1>1. DOMAIN t \subseteq Namespaces /\ Namespaces \subseteq Seq(Names)
  BY Zenon DEF Sound, Shaped, NamespaceAssumption
<1>2. \A q \in DOMAIN t : /\ startsWith(q, ns) <=> ns \in Prefixes(q)
                          /\ \A p \in skip : startsWith(q, p) <=> p \in Prefixes(q)
  BY <1>1, StartsPrefixes, Zenon
<1>3. \A q \in Namespaces : /\ q \in DOMAIN t => Source(t, q) = t[q].sourceSession
                            /\ q \notin DOMAIN t => Source(t, q) = None
  BY Zenon DEF Source
<1> QED
  BY <1>1, <1>2, <1>3, Zenon DEF ExistingNamespaces, Shown

(* SUBSCRIBE_NAMESPACE is shown what is there.                             *)
LEMMA NamespaceSubscribed ==
  ASSUME NamespaceAssumption, RelayAssumption, RelayTrees, NEW s \in Registrants,
         NEW prefix \in NamespacePrefixes, NEW info \in Infos, subscribeNamespace(s, prefix, info)
  PROVE  RelayTrees' /\ (AnnouncedInv => AnnouncedInv') /\ PubsKept /\ SourcesKept
<1> DEFINE t == publishNamespaceRoot
           u == addSession(t, prefix, s, info)
           shown == IF WantsNamespaces(info) THEN ExistingNamespaces(u, s, prefix, {}) ELSE {}
<1>1. /\ s \in Sessions /\ prefix \in Namespaces /\ info \in Info /\ TreeInv(t) /\ Sound(t)
      /\ {} \in SUBSET Namespaces
  BY Zenon DEF RelayAssumption, RelayTrees, TreeInv
<1>2. /\ t' = u /\ UNCHANGED tracksSubscriberRoot /\ ~hasOverlappingSubscription(t, prefix, s)
      /\ announced' = [announced EXCEPT ![s] = @ \cup shown]
  BY Zenon DEF subscribeNamespace
<1>3. /\ Sound(u)
      /\ \A p \in Namespaces :
           /\ Source(u, p) = Source(t, p) /\ Pubs(u, p) = Pubs(t, p)
           /\ Regs(u, p) = IF p = prefix THEN Regs(t, p) \cup {<<s, info>>} ELSE Regs(t, p)
  BY <1>1, SessionAdded
<1> HIDE DEF u
<1>4. TreeInv(u)
  <2>1. ~Overlaps(t, prefix, s)
    BY <1>1, <1>2, OverlapMeans, Zenon
  <2> QED
    BY <1>1, <1>3, <2>1, RegsGrow, Zenon
<1>5. RelayTrees'
  BY <1>2, <1>4, Zenon DEF RelayTrees
<1>6. ASSUME AnnouncedInv PROVE AnnouncedInv'
  <2>1. \A x, q : q \in Namespaces =>
          (Listens(u, x, q) <=>
             Listens(t, x, q) \/ (x = s /\ prefix \in Prefixes(q) /\ WantsNamespaces(info)))
    <3>1. Joins(t, u, prefix, s, info)
      BY <1>3, Zenon DEF Joins
    <3> QED
      BY <1>1, <3>1, ListensAdded
  <2>2. shown = {q \in Namespaces : /\ Source(t, q) \notin {None, s} /\ prefix \in Prefixes(q)
                                    /\ WantsNamespaces(info)}
    <3>1. ExistingNamespaces(u, s, prefix, {}) =
            {q \in Namespaces : /\ Source(u, q) \notin {None, s} /\ prefix \in Prefixes(q)
                                /\ \A p \in {} : p \notin Prefixes(q)}
      BY <1>1, <1>3, ShownMeans
    <3> QED
      BY <1>3, <3>1, Zenon
  <2> HIDE DEF shown
  <2>3. announced \in [Sessions -> SUBSET Namespaces] /\ \A x \in Sessions : announced[x] = Heard(t, x)
    BY <1>6, Zenon DEF AnnouncedInv
  <2>4. ASSUME NEW x \in Sessions PROVE announced'[x] = Heard(u, x)
    <3>1. announced'[x] = IF x = s THEN Heard(t, x) \cup shown ELSE Heard(t, x)
      BY <1>2, <2>3, Zenon
    <3>2. Heard(u, x) =
            {q \in Namespaces : /\ Source(t, q) \notin {None, x}
                                /\ \/ Listens(t, x, q)
                                   \/ x = s /\ prefix \in Prefixes(q) /\ WantsNamespaces(info)}
      BY <1>3, <2>1, Zenon DEF Heard
    <3> QED
      BY <2>2, <3>1, <3>2, Zenon DEF Heard
  <2>5. announced' \in [Sessions -> SUBSET Namespaces]
    BY <1>2, <2>2, <2>3, Zenon
  <2> QED
    BY <1>2, <2>4, <2>5, Zenon DEF AnnouncedInv
<1>7. PubsKept /\ SourcesKept
  BY <1>2, <1>3, Zenon DEF PubsKept, SourcesKept
<1> QED
  BY <1>5, <1>6, <1>7, Zenon

(* UNSUBSCRIBE_NAMESPACE forgets what lay under its prefix, which no other *)
(* registration of the session covers.                                     *)
LEMMA NamespaceUnsubscribed ==
  ASSUME NamespaceAssumption, RelayAssumption, RelayTrees, NEW s \in Registrants,
         NEW prefix \in NamespacePrefixes, unsubscribeNamespace(s, prefix)
  PROVE  RelayTrees' /\ (AnnouncedInv => AnnouncedInv') /\ PubsKept /\ SourcesKept
<1> DEFINE t == publishNamespaceRoot
           u == removeSession(t, prefix, s)
<1>1. s \in Sessions /\ prefix \in Namespaces /\ TreeInv(t) /\ Sound(t)
  BY Zenon DEF RelayAssumption, RelayTrees, TreeInv
<1>2. /\ t' = u /\ UNCHANGED tracksSubscriberRoot /\ prefix \in DOMAIN t /\ s \in Keys(Regs(t, prefix))
      /\ announced' = [announced EXCEPT ![s] = {ns \in @ : ~startsWith(ns, prefix)}]
  BY Zenon DEF unsubscribeNamespace, Registered, Regs
<1>3. /\ Sound(u)
      /\ \A p \in Namespaces :
           /\ Source(u, p) = Source(t, p) /\ Pubs(u, p) = Pubs(t, p)
           /\ Regs(u, p) = IF p = prefix THEN {e \in Regs(t, p) : e[1] # s} ELSE Regs(t, p)
  BY <1>1, <1>2, SessionRemoved
<1> HIDE DEF u
<1>4. TreeInv(u)
  BY <1>1, <1>3, RegsShrink, Zenon
<1>5. RelayTrees'
  BY <1>2, <1>4, Zenon DEF RelayTrees
<1>6. ASSUME AnnouncedInv PROVE AnnouncedInv'
  <2>1. \A x, q : q \in Namespaces =>
          (Listens(u, x, q) <=> Listens(t, x, q) /\ ~(x = s /\ prefix \in Prefixes(q)))
    BY <1>1, <1>2, <1>3, ListensRemoved
  <2>2. \A q \in Namespaces : startsWith(q, prefix) <=> prefix \in Prefixes(q)
    BY <1>1, StartsPrefixes, Zenon DEF NamespaceAssumption
  <2>3. announced \in [Sessions -> SUBSET Namespaces] /\ \A x \in Sessions : announced[x] = Heard(t, x)
    BY <1>6, Zenon DEF AnnouncedInv
  <2>4. ASSUME NEW x \in Sessions PROVE announced'[x] = Heard(u, x)
    <3>1. announced'[x] = IF x = s THEN {ns \in Heard(t, x) : ~startsWith(ns, prefix)} ELSE Heard(t, x)
      BY <1>2, <2>3, Zenon
    <3>2. Heard(u, x) =
            {q \in Namespaces : /\ Source(t, q) \notin {None, x} /\ Listens(t, x, q)
                                /\ ~(x = s /\ prefix \in Prefixes(q))}
      BY <1>3, <2>1, Zenon DEF Heard
    <3> QED
      BY <2>2, <3>1, <3>2, Zenon DEF Heard
  <2>5. announced' \in [Sessions -> SUBSET Namespaces]
    BY <1>2, <2>3, Zenon
  <2> QED
    BY <1>2, <2>4, <2>5, Zenon DEF AnnouncedInv
<1>7. PubsKept /\ SourcesKept
  BY <1>2, <1>3, Zenon DEF PubsKept, SourcesKept
<1> QED
  BY <1>5, <1>6, <1>7, Zenon

(* A subscription that moves keeps what lies under both prefixes.          *)
LEMMA NamespaceMoved ==
  ASSUME NamespaceAssumption, RelayAssumption, RelayTrees, NEW s \in Registrants,
         NEW old \in NamespacePrefixes, NEW new \in NamespacePrefixes,
         updateNamespaceSubscriptionPrefix(s, old, new)
  PROVE  RelayTrees' /\ (AnnouncedInv => AnnouncedInv') /\ PubsKept /\ SourcesKept
<1> DEFINE t == publishNamespaceRoot
           info == InfoOf(t, old, s)
           m == updateSubscriptionPrefix(t, old, new, s)
           u == m.tree
           shown == IF WantsNamespaces(info) THEN ExistingNamespaces(u, s, new, {old}) ELSE {}
<1>1. /\ s \in Sessions /\ old \in Namespaces /\ new \in Namespaces /\ TreeInv(t) /\ Sound(t)
      /\ {old} \in SUBSET Namespaces
  BY Zenon DEF RelayAssumption, RelayTrees, TreeInv
<1>2. /\ t' = u /\ UNCHANGED tracksSubscriberRoot /\ old \in DOMAIN t /\ s \in Keys(Regs(t, old))
      /\ announced' = [announced EXCEPT ![s] =
           IF ~m.ok THEN @
           ELSE {ns \in @ : ~startsWith(ns, old) \/ startsWith(ns, new)} \cup shown]
  BY Zenon DEF updateNamespaceSubscriptionPrefix, Registered, Regs
<1>3. /\ TreeInv(u) /\ m.ok \in BOOLEAN /\ <<s, info>> \in Regs(t, old)
      /\ \A p \in Namespaces : Source(u, p) = Source(t, p) /\ Pubs(u, p) = Pubs(t, p)
      /\ m.ok => \A p \in Namespaces :
                   Regs(u, p) = (IF p = old THEN {e \in Regs(t, p) : e[1] # s} ELSE Regs(t, p))
                                  \cup (IF p = new THEN {<<s, info>>} ELSE {})
      /\ ~m.ok => \A p \in Namespaces : Regs(u, p) = Regs(t, p)
  BY <1>1, <1>2, PrefixUpdated
<1> DEFINE ok == m.ok
<1>4. /\ ok \in BOOLEAN
      /\ announced' = [announced EXCEPT ![s] =
           IF ~ok THEN @
           ELSE {ns \in @ : ~startsWith(ns, old) \/ startsWith(ns, new)} \cup shown]
      /\ ok => \A p \in Namespaces :
                 Regs(u, p) = (IF p = old THEN {e \in Regs(t, p) : e[1] # s} ELSE Regs(t, p))
                                \cup (IF p = new THEN {<<s, info>>} ELSE {})
      /\ ~ok => \A p \in Namespaces : Regs(u, p) = Regs(t, p)
  BY <1>2, <1>3, Zenon
<1> HIDE DEF info, m, u, ok
<1>5. RelayTrees'
  BY <1>2, <1>3, Zenon DEF RelayTrees
<1>6. ASSUME AnnouncedInv PROVE AnnouncedInv'
  <2>1. announced \in [Sessions -> SUBSET Namespaces] /\ \A x \in Sessions : announced[x] = Heard(t, x)
    BY <1>6, Zenon DEF AnnouncedInv
  <2>2. CASE ~ok
    <3>1. announced' = announced
      BY <1>1, <1>4, <2>1, <2>2, Zenon
    <3>2. \A x : Heard(u, x) = Heard(t, x)
      BY <1>3, <1>4, <2>2, HeardSame, Zenon
    <3> QED
      BY <1>2, <2>1, <3>1, <3>2, Zenon DEF AnnouncedInv
  <2>3. CASE ok
    <3> DEFINE d == removeSession(t, old, s)
    <3>1. \A p \in Namespaces :
            Regs(d, p) = IF p = old THEN {e \in Regs(t, p) : e[1] # s} ELSE Regs(t, p)
      BY <1>1, <1>2, SessionRemoved
    <3> HIDE DEF d
    <3>2. Joins(d, u, new, s, info)
      BY <1>4, <2>3, <3>1, Zenon DEF Joins
    <3>3. \A x, q : q \in Namespaces =>
            (Listens(d, x, q) <=> Listens(t, x, q) /\ ~(x = s /\ old \in Prefixes(q)))
      BY <1>1, <1>2, <3>1, ListensRemoved
    <3>4. \A x, q : q \in Namespaces =>
            (Listens(u, x, q) <=>
               Listens(d, x, q) \/ (x = s /\ new \in Prefixes(q) /\ WantsNamespaces(info)))
      BY <1>1, <3>2, ListensAdded
    <3>5. \A q \in Namespaces : old \in Prefixes(q) => (Listens(t, s, q) <=> WantsNamespaces(info))
      BY <1>1, <1>3, ListensUnder, Zenon
    <3>6. \A q \in Namespaces : /\ startsWith(q, old) <=> old \in Prefixes(q)
                                /\ startsWith(q, new) <=> new \in Prefixes(q)
      BY <1>1, StartsPrefixes, Zenon DEF NamespaceAssumption
    <3>7. shown = {q \in Namespaces : /\ Source(t, q) \notin {None, s} /\ new \in Prefixes(q)
                                      /\ old \notin Prefixes(q) /\ WantsNamespaces(info)}
      <4>1. ExistingNamespaces(u, s, new, {old}) =
              {q \in Namespaces : /\ Source(u, q) \notin {None, s} /\ new \in Prefixes(q)
                                  /\ \A p \in {old} : p \notin Prefixes(q)}
        BY <1>1, <1>3, ShownMeans DEF TreeInv
      <4> QED
        BY <1>3, <4>1, Zenon
    <3> HIDE DEF shown
    <3>8. ASSUME NEW x \in Sessions PROVE announced'[x] = Heard(u, x)
      <4>1. announced'[x] =
              IF x = s THEN {ns \in Heard(t, x) : ~startsWith(ns, old) \/ startsWith(ns, new)} \cup shown
              ELSE Heard(t, x)
        BY <1>4, <2>1, <2>3, Zenon
      <4>2. Heard(u, x) =
              {q \in Namespaces : /\ Source(t, q) \notin {None, x}
                                  /\ \/ Listens(t, x, q) /\ ~(x = s /\ old \in Prefixes(q))
                                     \/ x = s /\ new \in Prefixes(q) /\ WantsNamespaces(info)}
        BY <1>3, <3>3, <3>4, Zenon DEF Heard
      <4> QED
        BY <3>5, <3>6, <3>7, <4>1, <4>2, Zenon DEF Heard
    <3>9. announced' \in [Sessions -> SUBSET Namespaces]
      BY <1>4, <2>1, <2>3, <3>7, Zenon
    <3> QED
      BY <1>2, <3>8, <3>9, Zenon DEF AnnouncedInv
  <2> QED
    BY <1>4, <2>2, <2>3, Zenon
<1>7. PubsKept /\ SourcesKept
  BY <1>2, <1>3, Zenon DEF PubsKept, SourcesKept
<1> QED
  BY <1>5, <1>6, <1>7, Zenon

(* announced has its shape, takeovers or not.                              *)
AnnouncedTyped == announced \in [Sessions -> SUBSET Namespaces]

LEMMA AnnouncedTypes ==
  ASSUME RelayAssumption, RelayTrees', AnnouncedTyped, NamespaceStep
  PROVE  AnnouncedTyped'
<1>1. DOMAIN publishNamespaceRoot' \subseteq Namespaces
  BY Zenon DEF RelayTrees, TreeInv, Sound, Shaped
<1>2. ASSUME NEW A, NEW ns \in Namespaces,
             \/ announced' = [x \in Sessions |-> IF x \in A THEN announced[x] \cup {ns} ELSE announced[x]]
             \/ announced' = [x \in Sessions |-> IF x \in A THEN announced[x] \ {ns} ELSE announced[x]]
      PROVE  AnnouncedTyped'
  BY <1>2, Zenon DEF AnnouncedTyped
<1>3. ASSUME NEW s, NEW new \in SUBSET Namespaces, announced' = [announced EXCEPT ![s] = new]
      PROVE  AnnouncedTyped'
  BY <1>3, Zenon DEF AnnouncedTyped
<1>4. \A s \in Registrants : announced[s] \in SUBSET Namespaces
  BY Zenon DEF RelayAssumption, AnnouncedTyped
<1>5. \A s, prefix, skip : ExistingNamespaces(publishNamespaceRoot', s, prefix, skip) \in SUBSET Namespaces
  BY <1>1, Zenon DEF ExistingNamespaces, Shown
<1>6. ASSUME NEW s \in Publishers, NEW ns \in Namespaces,
             publishNamespace(s, ns) \/ publishNamespaceDone(s, ns)
      PROVE  AnnouncedTyped'
  BY <1>2, <1>6, Zenon DEF publishNamespace, publishNamespaceDone
<1>7. ASSUME NEW s \in Registrants, NEW prefix \in NamespacePrefixes, NEW info \in Infos,
             subscribeNamespace(s, prefix, info)
      PROVE  AnnouncedTyped'
  <2> DEFINE shown == IF WantsNamespaces(info)
                      THEN ExistingNamespaces(publishNamespaceRoot', s, prefix, {}) ELSE {}
             new == announced[s] \cup shown
  <2>1. announced' = [announced EXCEPT ![s] = new]
    BY <1>7, Zenon DEF subscribeNamespace
  <2>2. new \in SUBSET Namespaces
    BY <1>4, <1>5, Zenon
  <2> QED
    BY <1>3, <2>1, <2>2, Zenon
<1>8. ASSUME NEW s \in Registrants, NEW prefix \in NamespacePrefixes, unsubscribeNamespace(s, prefix)
      PROVE  AnnouncedTyped'
  <2> DEFINE new == {ns \in announced[s] : ~startsWith(ns, prefix)}
  <2>1. announced' = [announced EXCEPT ![s] = new]
    BY <1>8, Zenon DEF unsubscribeNamespace
  <2>2. new \in SUBSET Namespaces
    BY <1>4, Zenon
  <2> QED
    BY <1>3, <2>1, <2>2, Zenon
<1>9. ASSUME NEW s \in Registrants, NEW old \in NamespacePrefixes, NEW to \in NamespacePrefixes,
             updateNamespaceSubscriptionPrefix(s, old, to)
      PROVE  AnnouncedTyped'
  <2> DEFINE m == updateSubscriptionPrefix(publishNamespaceRoot, old, to, s)
             shown == IF WantsNamespaces(InfoOf(publishNamespaceRoot, old, s))
                      THEN ExistingNamespaces(m.tree, s, to, {old}) ELSE {}
             new == IF ~m.ok THEN announced[s]
                    ELSE {ns \in announced[s] : ~startsWith(ns, old) \/ startsWith(ns, to)} \cup shown
  <2>1. announced' = [announced EXCEPT ![s] = new] /\ publishNamespaceRoot' = m.tree
    BY <1>9, Zenon DEF updateNamespaceSubscriptionPrefix
  <2>2. ExistingNamespaces(m.tree, s, to, {old}) \in SUBSET Namespaces
    BY <1>5, <2>1, Zenon
  <2> HIDE DEF m
  <2>3. new \in SUBSET Namespaces
    BY <1>4, <2>2, Zenon
  <2> QED
    BY <1>3, <2>1, <2>3, Zenon DEF m
<1>10. ASSUME UNCHANGED announced PROVE AnnouncedTyped'
  BY <1>10, Zenon DEF AnnouncedTyped
<1> QED
  BY <1>6, <1>7, <1>8, <1>9, <1>10, Zenon
     DEF NamespaceStep, unsubscribeTracks, subscribeTracks, updateSubscribeTracks,
         applySubscriptionUpdate

(* What the lookup of a rendezvous finds.                                  *)
LEMMA NothingToAwait ==
  ASSUME NamespaceAssumption, RelayAssumption, RelayTrees, NEW r \in Request
  PROVE  LET found == findPublishNamespaceSession(publishNamespaceRoot, r.track[1])
         IN  /\ found \in Sessions \cup {None}
             /\ found = None <=> \A p \in Prefixes(r.track[1]) : Source(publishNamespaceRoot, p) = None
<1>1. r.track[1] \in Namespaces
  BY Zenon DEF Request, RelayAssumption
<1>2. Sound(publishNamespaceRoot)
  BY Zenon DEF RelayTrees, TreeInv
<1> QED
  BY <1>1, <1>2, SourceFound, Zenon

-----------------------------------------------------------------------------
(* The theorems.                                                           *)

LEMMA StepKeepsTrees ==
  ASSUME NamespaceAssumption, RelayAssumption, RelayTrees, [Next]_vars
  PROVE  RelayTrees' /\ (~Takeovers /\ AnnouncedInv => AnnouncedInv')
<1>1. CASE UNCHANGED trees
  BY <1>1, Zenon DEF trees, RelayTrees, AnnouncedInv
<1>2. CASE Publishes \/ PublishesEnd
  <2>1. /\ RelayTrees' /\ UNCHANGED <<tracksSubscriberRoot, announced>>
        /\ \A p \in Namespaces :
             /\ Source(publishNamespaceRoot', p) = Source(publishNamespaceRoot, p)
             /\ Regs(publishNamespaceRoot', p) = Regs(publishNamespaceRoot, p)
    BY <1>2, TrackAdded, TrackRemoved, Zenon DEF Publishes, PublishesEnd
  <2>2. \A s : Heard(publishNamespaceRoot', s) = Heard(publishNamespaceRoot, s)
    BY <2>1, HeardSame, Zenon
  <2> QED
    BY <2>1, <2>2, Zenon DEF AnnouncedInv
<1>3. CASE NamespaceStep
  <2>1. ASSUME NEW s \in Publishers, NEW ns \in Namespaces,
               publishNamespace(s, ns) \/ publishNamespaceDone(s, ns)
        PROVE  RelayTrees' /\ (~Takeovers /\ AnnouncedInv => AnnouncedInv')
    BY <2>1, NamespacePublished, NamespaceDone, Zenon
  <2>2. ASSUME NEW s \in Registrants, NEW prefix \in NamespacePrefixes,
               \/ \E info \in Infos : subscribeNamespace(s, prefix, info)
               \/ unsubscribeNamespace(s, prefix)
               \/ \E new \in NamespacePrefixes : updateNamespaceSubscriptionPrefix(s, prefix, new)
        PROVE  RelayTrees' /\ (~Takeovers /\ AnnouncedInv => AnnouncedInv')
    BY <2>2, NamespaceSubscribed, NamespaceUnsubscribed, NamespaceMoved, Zenon
  <2>3. ASSUME NEW s \in Registrants, NEW prefix \in TracksPrefixes,
               \/ unsubscribeTracks(s, prefix)
               \/ \E forward \in Forwards :
                    \/ subscribeTracks(s, prefix, forward)
                    \/ \E new \in TracksPrefixes : updateSubscribeTracks(s, prefix, new, forward)
                    \/ applySubscriptionUpdate(s, prefix, forward)
        PROVE  RelayTrees' /\ (~Takeovers /\ AnnouncedInv => AnnouncedInv')
    <3>1. RelayTrees' /\ UNCHANGED <<publishNamespaceRoot, announced>>
      BY <2>3, TracksKeepTrees, Zenon
    <3> QED
      BY <3>1, Zenon DEF AnnouncedInv
  <2> QED
    BY <1>3, <2>1, <2>2, <2>3, Zenon DEF NamespaceStep
<1> QED
  BY <1>1, <1>2, <1>3, TreeSteps, Zenon

LEMMA TreesAtFirst ==
  ASSUME NamespaceAssumption, Init PROVE RelayTrees /\ AnnouncedInv
<1>1. RelayTrees
  BY EmptyTreeSound, Zenon DEF Init, RelayTrees
<1>2. \A s \in Sessions : Heard(EmptyTree, s) = {}
  BY EmptyTreeSound, Zenon DEF Heard
<1>3. AnnouncedInv
  BY <1>2, Zenon DEF Init, AnnouncedInv
<1> QED
  BY <1>1, <1>3, Zenon

(* Whatever namespaces, sessions, prefixes and tracks there are, and in    *)
(* whatever order publishes, namespaces and prefix subscriptions come, go  *)
(* and move: in both trees every node that holds something is reachable    *)
(* and counted by its parent, so that tryPruneChild never prunes a live    *)
(* registration, and the prefixes of a session never overlap.              *)
THEOREM RelayTreesSound ==
  ASSUME NamespaceAssumption, RelayAssumption PROVE Spec => []TreesSound
<1>1. Init => RelayTrees
  BY TreesAtFirst, Zenon
<1>2. RelayTrees /\ [Next]_vars => RelayTrees'
  BY StepKeepsTrees, Zenon
<1>3. RelayTrees => TreesSound
  <2>1. ASSUME NEW t, TreeInv(t) PROVE ContentIsCounted(t) /\ PrefixesDisjoint(t)
    BY <2>1, DisjointMeans, Zenon DEF TreeInv, Sound
  <2> QED
    BY <2>1, Zenon DEF RelayTrees, TreesSound, TreesCounted, NoOverlap
<1> QED
  BY <1>1, <1>2, <1>3, PTL DEF Spec

(* A session has been told, by NAMESPACE less NAMESPACE_DONE, exactly of   *)
(* the namespaces that others publish under its prefixes, however the      *)
(* publishers, the registrations and the prefix updates interleave, as     *)
(* long as no publisher takes over a namespace that another one has.       *)
THEOREM RelayAnnouncesExactly ==
  ASSUME NamespaceAssumption, RelayAssumption, ~Takeovers PROVE Spec => []AnnouncedExactly
<1> DEFINE Inv == RelayTrees /\ AnnouncedInv
<1>1. Init => Inv
  BY TreesAtFirst, Zenon
<1>2. Inv /\ [Next]_vars => Inv'
  BY StepKeepsTrees, Zenon
<1>3. Inv => AnnouncedExactly
  BY AnnouncedMeans, Zenon DEF RelayTrees
<1> QED
  BY <1>1, <1>2, <1>3, PTL DEF Spec
=============================================================================
