------------------------------ MODULE MoQRelay ------------------------------
(***************************************************************************)
(* MoQRelay (moxygen/relay/MoQRelay.{h,cpp}): the namespace and tracks     *)
(* trees, the subscriptions_ map with one forwarder per track, and the     *)
(* coroutines that are suspended while upstream, a publisher or a timeout  *)
(* decides.  An action is one stretch of code between two suspensions.     *)
(*                                                                         *)
(* A forwarder is what MoQForwarder promises its owner: who subscribes,    *)
(* who forwards, whether a subgroup is open, onEmpty when the last of both *)
(* is gone.  Its upstream field is the state of the request the relay has  *)
(* at the upstream session: "pending" until it is answered, "live" while   *)
(* the publisher may send, "gone" once either side ended it.               *)
(*                                                                         *)
(* Left out: fetch and trackStatus, which change nothing here; versions,   *)
(* authorization, properties, priorities, the cache.                       *)
(***************************************************************************)
EXTENDS NamespaceTree

CONSTANTS
  Forwarders,   \* bound: names for the forwarders alive at the same time
  Infos,        \* what SUBSCRIBE_NAMESPACE asks for: NamespaceSubscriberInfos
  Forwards,     \* the Forward values requests ask for
  NamespacePrefixes,  \* prefixes of SUBSCRIBE_NAMESPACE
  TracksPrefixes,     \* prefixes of SUBSCRIBE_TRACKS
  Publishers,   \* sessions that publish tracks and namespaces
  Subscribers,  \* sessions that subscribe to tracks
  Registrants,  \* sessions that subscribe to prefixes
  MaxPublishing,  \* bound on the publishToSession coroutines under way
  Takeovers,    \* whether a name may be published before it was given up
  EarlyFailures,  \* whether a delivery may fail before SUBSCRIBE_OK is handled
  MaxCount      \* bound on activeChildCount_

VARIABLES
  publishNamespaceRoot,   \* publishNamespaceRoot_
  tracksSubscriberRoot,   \* tracksSubscriberRoot_
  subscriptions,          \* subscriptions_: the set of its RelaySubscriptions
  forwarders,             \* the MoQForwarders
  coalescing,             \* subscribes suspended on the promise of another
  pendingRendezvous,      \* pendingRendezvousRoot_: subscribes without a publisher
  signalled,              \* those whose baton is signalled but did not resume
  publishing,             \* publishToSession coroutines
  announced,              \* history: the namespaces a session was told about
  detached                \* history: subscribers whose forwarder went away untold

vars == <<publishNamespaceRoot, tracksSubscriberRoot, subscriptions, forwarders,
          coalescing, pendingRendezvous, signalled, publishing, announced, detached>>
trees == <<publishNamespaceRoot, tracksSubscriberRoot, announced>>

RelaySubscription ==
  [track : Tracks, forwarder : Forwarders, upstream : Sessions \cup {None},
   handle : BOOLEAN, fulfilled : BOOLEAN, isPublish : BOOLEAN]

Forwarder ==
  [track : Tracks, subscribers : SUBSET Sessions, forwarding : SUBSET Sessions,
   draining : BOOLEAN, open : BOOLEAN,
   upstream : {"none", "pending", "live", "rejected", "gone"},
   starting : BOOLEAN,      \* subscribeToFirstRelaySubscription is suspended
   told : BOOLEAN]          \* the forward state upstream was last asked for

(* A request: the session, the track and the Forward value it asks for.    *)
Request == [session : Subscribers, track : Tracks, forward : Forwards]

RelayAssumption ==
  /\ Infos \subseteq Info
  /\ \A track \in Tracks : track = <<track[1], track[2]>> /\ track[1] \in Namespaces
  /\ Tracks # {} \/ Forwarders = {}
  /\ Publishers \cup Subscribers \cup Registrants \subseteq Sessions
  /\ Forwards \subseteq BOOLEAN
  /\ NamespacePrefixes \cup TracksPrefixes \subseteq Namespaces
  /\ Takeovers \in BOOLEAN /\ EarlyFailures \in BOOLEAN
  /\ MaxCount \in Nat /\ MaxPublishing \in Nat

NoForwarder ==
  [track |-> CHOOSE track \in Tracks : TRUE, subscribers |-> {}, forwarding |-> {},
   draining |-> FALSE, open |-> FALSE, upstream |-> "none", starting |-> FALSE,
   told |-> FALSE]

(* The state has its shape.                                                *)
TypeOK ==
  /\ DOMAIN publishNamespaceRoot \subseteq Namespaces
  /\ DOMAIN tracksSubscriberRoot \subseteq Namespaces
  /\ subscriptions \subseteq RelaySubscription
  /\ DOMAIN forwarders \subseteq Forwarders
  /\ \A f \in DOMAIN forwarders : /\ forwarders[f] \in Forwarder
                                  /\ forwarders[f].forwarding \subseteq forwarders[f].subscribers
  /\ \A c \in coalescing : c.request \in Request /\ c.forwarder \in Forwarders
  /\ pendingRendezvous \subseteq Request
  /\ signalled \subseteq Request
  /\ \A p \in publishing : p.session \in Sessions /\ p.forwarder \in Forwarders
  /\ announced \in [Sessions -> SUBSET Namespaces]
  /\ detached \subseteq Sessions

Init ==
  /\ publishNamespaceRoot = EmptyTree
  /\ tracksSubscriberRoot = EmptyTree
  /\ subscriptions = {}
  /\ forwarders = [f \in Forwarders |-> NoForwarder]
  /\ coalescing = {}
  /\ pendingRendezvous = {}
  /\ signalled = {}
  /\ publishing = {}
  /\ announced = [s \in Sessions |-> {}]
  /\ detached = {}

-----------------------------------------------------------------------------
(* The part of the state the forwarders' callbacks reach into, passed from *)
(* operator to operator: subscriptions_, the forwarders and the subscribes *)
(* that wait for a promise in subscriptions_.                              *)
Current == [subscriptions |-> subscriptions, forwarders |-> forwarders,
            coalescing |-> coalescing]

Find(st, track) == {sub \in st.subscriptions : sub.track = track}

(* Mutant: the promise of an erased entry is forgotten, not broken.        *)
Erase_KeepsWaiters(st, subs) == [st EXCEPT !.subscriptions = @ \ subs]

(* Erasing an entry breaks its promise: who waits for it gets an exception *)
(* and answers with an error.                                              *)
Erase(st, subs) ==
  [st EXCEPT !.subscriptions = @ \ subs,
             !.coalescing = {c \in @ : ~ \E sub \in subs :
                               c.waits /\ c.forwarder = sub.forwarder}]

Replace(st, sub, new) == [st EXCEPT !.subscriptions = (@ \ {sub}) \cup {new}]

(* onEmpty and forwardChanged find the subscription by the track's name.   *)
onEmpty(st, f) ==
  LET found == Find(st, st.forwarders[f].track)
      sub == CHOOSE x \in found : TRUE
  IN IF found = {} THEN st
     ELSE IF ~sub.handle THEN Erase(st, found)
     ELSE IF sub.isPublish THEN [st EXCEPT !.forwarders[sub.forwarder].told = FALSE]
     ELSE Erase([st EXCEPT !.forwarders[sub.forwarder].upstream = "gone"], found)

forwardChanged(st, f) ==
  LET found == {x \in Find(st, st.forwarders[f].track) : x.fulfilled /\ x.handle}
      sub == CHOOSE x \in found : TRUE
  IN IF found = {} THEN st
     ELSE [st EXCEPT !.forwarders[sub.forwarder].told = (st.forwarders[f].forwarding # {})]

(* What the relay sees of MoQForwarder.  addSubscriber of a session that   *)
(* subscribes already returns the subscriber it has.                       *)
updateForwardState(st, f, s, forward) ==
  LET before == st.forwarders[f].forwarding
      after == IF forward THEN before \cup {s} ELSE before \ {s}
      updated == [st EXCEPT !.forwarders[f].forwarding = after]
  IN IF (before = {}) # (after = {}) THEN forwardChanged(updated, f) ELSE updated

(* Mutant: a subscriber that joins does not turn forwarding on.            *)
addSubscriber_Quiet(st, f, s, forward) ==
  IF st.forwarders[f].draining \/ s \in st.forwarders[f].subscribers THEN st
  ELSE [st EXCEPT !.forwarders[f].subscribers = @ \cup {s},
                  !.forwarders[f].forwarding = IF forward THEN @ \cup {s} ELSE @]

addSubscriber(st, f, s, forward) ==
  IF st.forwarders[f].draining \/ s \in st.forwarders[f].subscribers THEN st
  ELSE updateForwardState([st EXCEPT !.forwarders[f].subscribers = @ \cup {s}], f, s, forward)

(* Mutant: the count of forwarding subscribers is left as it was.          *)
removeSubscribers_KeepsForwarding(st, f, gone) ==
  LET removed == [st EXCEPT !.forwarders[f].subscribers = @ \ gone]
  IN IF st.forwarders[f].subscribers \subseteq gone /\ ~st.forwarders[f].open
     THEN onEmpty(removed, f) ELSE removed

(* The last subscriber's forwardChanged is suppressed in favour of onEmpty. *)
removeSubscribers(st, f, gone) ==
  LET fw == st.forwarders[f]
      removed == [st EXCEPT !.forwarders[f].subscribers = @ \ gone,
                            !.forwarders[f].forwarding = @ \ gone]
  IN IF fw.subscribers \subseteq gone
     THEN IF fw.open THEN removed ELSE onEmpty(removed, f)
     ELSE IF fw.forwarding # {} /\ fw.forwarding \subseteq gone
     THEN forwardChanged(removed, f)
     ELSE removed

(* Subscribers with an open stream (stay) drain, the others leave.         *)
drainForwarder(st, f, stay) ==
  LET drained == [st EXCEPT !.forwarders[f].draining = TRUE]
  IN IF st.forwarders[f].subscribers \subseteq stay THEN drained
     ELSE removeSubscribers(drained, f, st.forwarders[f].subscribers \ stay)

Draining(f) == {stay \in SUBSET forwarders[f].subscribers : forwarders[f].open \/ stay = {}}

(* A forwarder lives while subscriptions_, the consumer the upstream       *)
(* session writes to, or a suspended coroutine holds it.  ~MoQForwarder    *)
(* detaches the subscribers it still has; one that drains knows why.       *)
Held(st, tasks, f) ==
  \/ \E sub \in st.subscriptions : sub.forwarder = f
  \/ \E p \in tasks : p.forwarder = f
  \/ st.forwarders[f].upstream \in {"pending", "live"}
  \/ st.forwarders[f].starting

Commit(st, tasks) ==
  LET dead == {f \in Forwarders : ~Held(st, tasks, f)}
  IN /\ subscriptions' = st.subscriptions
     /\ coalescing' = st.coalescing
     /\ publishing' = tasks
     /\ forwarders' =
          [f \in Forwarders |-> IF f \in dead THEN NoForwarder ELSE st.forwarders[f]]
     /\ detached' = detached \cup
          UNION {st.forwarders[f].subscribers : f \in {x \in dead : ~st.forwarders[x].draining}}

-----------------------------------------------------------------------------
(* Subscribing to a track.                                                 *)

subscribeToExistingRelaySubscription(st, sub, r) ==
  IF sub.fulfilled THEN addSubscriber(st, sub.forwarder, r.session, r.forward)
  ELSE [st EXCEPT !.coalescing =
          @ \cup {[request |-> r, forwarder |-> sub.forwarder, waits |-> TRUE]}]

(* Up to the co_await of upstreamSession->subscribe.                       *)
subscribeToFirstRelaySubscription(st, r, upstream, f) ==
  [st EXCEPT
     !.subscriptions = @ \cup {[track |-> r.track, forwarder |-> f, upstream |-> upstream,
                                handle |-> FALSE, fulfilled |-> FALSE, isPublish |-> FALSE]},
     !.forwarders[f] = [NoForwarder EXCEPT
                          !.track = r.track, !.subscribers = {r.session},
                          !.forwarding = IF r.forward THEN {r.session} ELSE {},
                          !.upstream = "pending", !.starting = TRUE, !.told = r.forward]]

Unused(f) == forwarders[f] = NoForwarder

(* The lookups of subscribe, before and again after a rendezvous.          *)
Attach(r, f) ==
  LET found == Find(Current, r.track)
      upstream == findPublishNamespaceSession(publishNamespaceRoot, r.track[1])
  IN \/ \E sub \in found :
          Commit(subscribeToExistingRelaySubscription(Current, sub, r), publishing)
     \/ /\ found = {} /\ upstream # None /\ Unused(f)
        /\ Commit(subscribeToFirstRelaySubscription(Current, r, upstream, f), publishing)

(* One request of a session for a track is under way at a time.            *)
InFlight(r) ==
  \/ \E x \in pendingRendezvous \cup signalled : x.session = r.session /\ x.track = r.track
  \/ \E c \in coalescing : c.request.session = r.session /\ c.request.track = r.track

subscribe(r, f) ==
  /\ ~InFlight(r)
  /\ Attach(r, f)
  /\ UNCHANGED <<trees, pendingRendezvous, signalled>>

(* RENDEZVOUS_TIMEOUT: wait for a publisher, until the timeout or until    *)
(* the subscriber cancels.                                                 *)
subscribeRendezvous(r) ==
  /\ ~InFlight(r)
  /\ Find(Current, r.track) = {}
  /\ findPublishNamespaceSession(publishNamespaceRoot, r.track[1]) = None
  /\ pendingRendezvous' = pendingRendezvous \cup {r}
  /\ UNCHANGED <<trees, subscriptions, forwarders, coalescing, signalled, publishing, detached>>

rendezvousTimeout(r) ==
  /\ r \in pendingRendezvous
  /\ pendingRendezvous' = pendingRendezvous \ {r}
  /\ UNCHANGED <<trees, subscriptions, forwarders, coalescing, signalled, publishing, detached>>

resumeRendezvous(r, f) ==
  /\ r \in signalled
  /\ signalled' = signalled \ {r}
  /\ \/ Attach(r, f)
     \/ /\ Find(Current, r.track) = {}
        /\ findPublishNamespaceSession(publishNamespaceRoot, r.track[1]) = None
        /\ UNCHANGED <<subscriptions, forwarders, coalescing, publishing, detached>>
  /\ UNCHANGED <<trees, pendingRendezvous>>

(* The upstream session answers the SUBSCRIBE ...                          *)
upstreamAnswers(f, answer) ==
  /\ forwarders[f].upstream = "pending"
  /\ forwarders' = [forwarders EXCEPT ![f].upstream = answer]
  /\ UNCHANGED <<trees, subscriptions, coalescing, pendingRendezvous, signalled, publishing,
                 detached>>

(* ... and subscribeToFirstRelaySubscription resumes.  Its guard erases    *)
(* the entry of a SUBSCRIBE that failed.                                   *)
Failed(st, f) ==
  [Erase(st, {sub \in st.subscriptions : sub.forwarder = f}) EXCEPT
     !.forwarders[f] = [@ EXCEPT !.upstream = "gone", !.starting = FALSE,
                                 !.subscribers = {}, !.forwarding = {}]]

resumeFirst(f) ==
  LET found == {sub \in Find(Current, forwarders[f].track) : sub.forwarder = f}
      sub == CHOOSE x \in found : TRUE
      resumed == [Current EXCEPT !.forwarders[f].starting = FALSE]
      fulfilled == [Replace(resumed, sub, [sub EXCEPT !.handle = TRUE, !.fulfilled = TRUE])
                      EXCEPT !.coalescing =
                        {[c EXCEPT !.waits = @ /\ c.forwarder # f] : c \in @}]
  IN /\ forwarders[f].starting /\ forwarders[f].upstream # "pending"
     /\ Commit(IF forwarders[f].upstream = "rejected" THEN Failed(Current, f)
               ELSE IF found = {} THEN resumed ELSE fulfilled, publishing)
     /\ UNCHANGED <<trees, pendingRendezvous, signalled>>

(* The subscriber cancels its SUBSCRIBE, or closes, before the answer: the *)
(* co_await throws, and the upstream SUBSCRIBE is cancelled with it.       *)
cancelFirst(f) ==
  /\ forwarders[f].upstream = "pending"
  /\ Commit(Failed(Current, f), publishing)
  /\ UNCHANGED <<trees, pendingRendezvous, signalled>>

cancelCoalesced(c) ==
  /\ c.waits
  /\ Commit([Current EXCEPT !.coalescing = @ \ {c}], publishing)
  /\ UNCHANGED <<trees, pendingRendezvous, signalled>>

(* Mutant: there is no answer for a track that has gone meanwhile.         *)
resumeCoalesced_IfPresent(c) ==
  LET found == Find(Current, c.request.track)
      sub == CHOOSE x \in found : TRUE
      resumed == [Current EXCEPT !.coalescing = @ \ {c}]
  IN /\ c \in coalescing /\ ~c.waits /\ found # {}
     /\ Commit(addSubscriber(resumed, sub.forwarder, c.request.session, c.request.forward),
               publishing)
     /\ UNCHANGED <<trees, pendingRendezvous, signalled>>

(* A subscribe that coalesced looks the track up again when it resumes.    *)
resumeCoalesced(c) ==
  LET found == Find(Current, c.request.track)
      sub == CHOOSE x \in found : TRUE
      resumed == [Current EXCEPT !.coalescing = @ \ {c}]
  IN /\ c \in coalescing /\ ~c.waits
     /\ Commit(IF found = {} THEN resumed
               ELSE addSubscriber(resumed, sub.forwarder, c.request.session, c.request.forward),
               publishing)
     /\ UNCHANGED <<trees, pendingRendezvous, signalled>>

-----------------------------------------------------------------------------
(* What a forwarder reports: its subscribers and its publisher.            *)

(* A subscriber unsubscribes or its stream fails; before the SUBSCRIBE_OK  *)
(* is handled, only the delivery of a buffered datagram can fail.          *)
leave(f, s) ==
  /\ s \in forwarders[f].subscribers
  /\ forwarders[f].starting => forwarders[f].upstream = "live" /\ EarlyFailures
  /\ Commit(removeSubscribers(Current, f, {s}), publishing)
  /\ UNCHANGED <<trees, pendingRendezvous, signalled>>

updateForward(f, s, forward) ==
  /\ s \in forwarders[f].subscribers /\ ~forwarders[f].starting
  /\ Commit(updateForwardState(Current, f, s, forward), publishing)
  /\ UNCHANGED <<trees, pendingRendezvous, signalled>>

(* Subgroups that arrive early are delivered after the subscribe resumed.  *)
openSubgroup(f) ==
  /\ forwarders[f].upstream = "live" /\ ~forwarders[f].starting
  /\ ~forwarders[f].draining /\ forwarders[f].subscribers # {}
  /\ forwarders' = [forwarders EXCEPT ![f].open = TRUE]
  /\ UNCHANGED <<trees, subscriptions, coalescing, pendingRendezvous, signalled, publishing,
                 detached>>

(* The last subgroup ends: draining subscribers leave.                     *)
closeSubgroup(f) ==
  LET fw == forwarders[f]
      closed == [Current EXCEPT !.forwarders[f].open = FALSE]
  IN /\ fw.open
     /\ Commit(IF fw.draining \/ fw.subscribers = {}
               THEN removeSubscribers(closed, f, fw.subscribers) ELSE closed, publishing)
     /\ UNCHANGED <<trees, pendingRendezvous, signalled>>

(* TerminationFilter::publishDone: onPublishDoneImpl, by the track's name, *)
(* and then the forwarder.                                                 *)
onPublishDoneImpl_KeepsHandle(st, track) ==
  LET found == Find(st, track)
      sub == CHOOSE x \in found : TRUE
  IN IF found = {} THEN st
     ELSE IF st.forwarders[sub.forwarder].subscribers = {} THEN Erase(st, found)
     ELSE Replace(st, sub, [sub EXCEPT !.upstream = None])
onPublishDoneImpl(st, track) ==
  LET found == Find(st, track)
      sub == CHOOSE x \in found : TRUE
  IN IF found = {} THEN st
     ELSE IF st.forwarders[sub.forwarder].subscribers = {} THEN Erase(st, found)
     ELSE Replace(st, sub, [sub EXCEPT !.handle = FALSE, !.upstream = None])

publishDone(f, stay) ==
  LET track == forwarders[f].track
  IN /\ forwarders[f].upstream = "live"
     /\ publishNamespaceRoot' =
          IF \E sub \in Find(Current, track) : sub.isPublish
          THEN removePublish(publishNamespaceRoot, track) ELSE publishNamespaceRoot
     /\ Commit([drainForwarder(onPublishDoneImpl(Current, track), f, stay)
                  EXCEPT !.forwarders[f].upstream = "gone"], publishing)
     /\ UNCHANGED <<tracksSubscriberRoot, announced, pendingRendezvous, signalled>>

-----------------------------------------------------------------------------
(* Publishing tracks.                                                      *)

Task(s, f, forward, via) ==
  [session |-> s, forwarder |-> f, forward |-> forward, via |-> via, sent |-> FALSE]

Bounded(t) == \A p \in DOMAIN t : t[p].activeChildCount <= MaxCount
AtMost(tasks) == Cardinality(tasks) <= MaxPublishing

WantsTracks(info) == info.options \in {"PUBLISH", "BOTH"}
WantsNamespaces(info) == info.options \in {"NAMESPACE", "BOTH"}

(* publish: a publisher that takes a track over ends the subscription that *)
(* was there; XCHECK "Duplicate publish" is the guard on publishes.        *)
publish(s, track, f, stay) ==
  LET t == findInTree(publishNamespaceRoot, track[1])
      node == t[track[1]]
      found == Find(Current, track)
      sub == CHOOSE x \in found : TRUE
      kept == IF found = {} THEN node.publishes
              ELSE {e \in node.publishes : e[1] # track[2]}
      ended == IF found = {} THEN Current
               ELSE drainForwarder(
                      [Erase(Current, found) EXCEPT
                         !.forwarders[sub.forwarder].upstream =
                           IF sub.handle THEN "gone" ELSE @], sub.forwarder, stay)
      tasks == {Task(e[1], f, e[2].forward, "namespace") :
                  e \in {x \in SessionsAlong(t, track[1]) : x[1] # s /\ WantsTracks(x[2])}}
               \cup
               {Task(e[1], f, e[2].forward, "tracks") :
                  e \in {x \in SessionsAlong(tracksSubscriberRoot, track[1]) : x[1] # s}}
      started == [ended EXCEPT
                    !.subscriptions = @ \cup
                      {[track |-> track, forwarder |-> f, upstream |-> s, handle |-> TRUE,
                        fulfilled |-> TRUE, isPublish |-> TRUE]},
                    !.forwarders[f] = [NoForwarder EXCEPT
                      !.track = track, !.upstream = "live",
                      !.told = \E p \in tasks : p.forward]]
      woken == {r \in pendingRendezvous : r.track = track}
  IN /\ Unused(f)
     /\ Takeovers \/ found = {}
     /\ stay \in IF found = {} THEN {{}} ELSE Draining(sub.forwarder)
     /\ track[2] \notin Keys(kept)
     /\ publishNamespaceRoot' =
          addContent(t, track[1], [node EXCEPT !.publishes = kept \cup {<<track[2], s>>}],
                     ~hasLocalSessions(node))
     /\ Bounded(publishNamespaceRoot')
     /\ AtMost(publishing \cup tasks)
     /\ Commit(started, publishing \cup tasks)
     /\ pendingRendezvous' = pendingRendezvous \ woken
     /\ signalled' = signalled \cup woken
     /\ UNCHANGED <<tracksSubscriberRoot, announced>>

(* publishToSession, up to the PUBLISH it sends (ok) or fails to send.     *)
publishToSession(p, ok) ==
  LET added == addSubscriber(Current, p.forwarder, p.session, p.forward)
      others == publishing \ {p}
  IN /\ p \in publishing /\ ~p.sent
     /\ IF forwarders[p.forwarder].draining THEN Commit(Current, others)
        ELSE IF ok THEN Commit(added, others \cup {[p EXCEPT !.sent = TRUE]})
        ELSE Commit(removeSubscribers(added, p.forwarder, {p.session}), others)
     /\ UNCHANGED <<trees, pendingRendezvous, signalled>>

(* The subscriber answers PUBLISH_OK with a forward state (none at draft   *)
(* 22, forward = {}), or refuses, which unsubscribes it.  One that left in *)
(* the meantime is detached.                                               *)
publishAnswered(p, ok, forward) ==
  LET f == p.forwarder
  IN /\ p \in publishing /\ p.sent
     /\ Commit(IF p.session \notin forwarders[f].subscribers THEN Current
               ELSE IF ~ok THEN removeSubscribers(Current, f, {p.session})
               ELSE IF forward = {} THEN Current
               ELSE updateForwardState(Current, f, p.session, TRUE \in forward),
               publishing \ {p})
     /\ UNCHANGED <<trees, pendingRendezvous, signalled>>

-----------------------------------------------------------------------------
(* Namespaces: who publishes them and who wants to hear of them.           *)

Untouched == UNCHANGED <<subscriptions, forwarders, coalescing, detached>>

(* NAMESPACE and NAMESPACE_DONE go to the subscribers above ns.            *)
Told(t, ns, s) == {e[1] : e \in {x \in SessionsAlong(t, ns) : x[1] # s /\ WantsNamespaces(x[2])}}

(* The rendezvous that a publisher of ns can serve.                        *)
wakePendingRendezvousUnderNamespace(ns) ==
  {r \in pendingRendezvous : startsWith(r.track[1], ns)}

(* publishNamespace: a new publisher's takeover drops the subscriptions to *)
(* the old one from subscriptions_.                                        *)
publishNamespace(s, ns) ==
  LET t == findInTree(publishNamespaceRoot, ns)
      old == t[ns].sourceSession
      cleared == [t[ns] EXCEPT !.sourceSession = None]
      dropped == {sub \in subscriptions : /\ old # None /\ sub.upstream = old
                                          /\ startsWith(sub.track[1], ns)}
      woken == wakePendingRendezvousUnderNamespace(ns)
  IN /\ Takeovers \/ old = None
     /\ publishNamespaceRoot' =
          addContent(t, ns, [cleared EXCEPT !.sourceSession = s], ~hasLocalSessions(cleared))
     /\ Bounded(publishNamespaceRoot')
     /\ announced' = [x \in Sessions |->
          IF x \in Told(t, ns, s) THEN announced[x] \cup {ns} ELSE announced[x]]
     /\ Commit(Erase(Current, dropped), publishing)
     /\ pendingRendezvous' = pendingRendezvous \ woken
     /\ signalled' = signalled \cup woken
     /\ UNCHANGED tracksSubscriberRoot

publishNamespaceDone(s, ns) ==
  LET t == publishNamespaceRoot
  IN /\ ns \in DOMAIN t /\ t[ns].sourceSession = s
     /\ publishNamespaceRoot' = removeContent(t, ns, [t[ns] EXCEPT !.sourceSession = None])
     /\ announced' = [x \in Sessions |->
          IF x \in Told(t, ns, s) THEN announced[x] \ {ns} ELSE announced[x]]
     /\ Untouched
     /\ UNCHANGED <<tracksSubscriberRoot, pendingRendezvous, signalled, publishing>>

(* The content under prefix that a new registration is shown at once, but  *)
(* for what the prefix it had before (skip, if any) has shown already.     *)
Shown(t, prefix, skip) ==
  {q \in DOMAIN t : startsWith(q, prefix) /\ \A p \in skip : ~startsWith(q, p)}

ExistingNamespaces(t, s, prefix, skip) ==
  {q \in Shown(t, prefix, skip) : t[q].sourceSession \notin {None, s}}

ExistingTracks(t, s, prefix, skip, forward, via) ==
  {Task(s, sub.forwarder, forward, via) :
     sub \in {x \in subscriptions : \E q \in Shown(t, prefix, skip) :
                \E e \in t[q].publishes : x.track = <<q, e[1]>> /\ e[2] # s}}

subscribeNamespace(s, prefix, info) ==
  /\ ~hasOverlappingSubscription(publishNamespaceRoot, prefix, s)
  /\ publishNamespaceRoot' = addSession(publishNamespaceRoot, prefix, s, info)
  /\ Bounded(publishNamespaceRoot')
  /\ announced' = [announced EXCEPT ![s] = @ \cup
       IF WantsNamespaces(info) THEN ExistingNamespaces(publishNamespaceRoot', s, prefix, {})
       ELSE {}]
  /\ publishing' = publishing \cup
       IF WantsTracks(info)
       THEN ExistingTracks(publishNamespaceRoot', s, prefix, {}, info.forward, "namespace")
       ELSE {}
  /\ AtMost(publishing')
  /\ Untouched
  /\ UNCHANGED <<tracksSubscriberRoot, pendingRendezvous, signalled>>

Registered(t, prefix, s) == prefix \in DOMAIN t /\ s \in Keys(t[prefix].sessions)

unsubscribeNamespace(s, prefix) ==
  /\ Registered(publishNamespaceRoot, prefix, s)
  /\ publishNamespaceRoot' = removeSession(publishNamespaceRoot, prefix, s)
  /\ announced' = [announced EXCEPT ![s] = {ns \in @ : ~startsWith(ns, prefix)}]
  /\ Untouched
  /\ UNCHANGED <<tracksSubscriberRoot, pendingRendezvous, signalled, publishing>>

(* A SUBSCRIBE_NAMESPACE moves to another prefix (REQUEST_UPDATE).  The    *)
(* namespaces outside the new prefix are no longer the subscription's.     *)
updateNamespaceSubscriptionPrefix(s, oldPrefix, newPrefix) ==
  LET info == InfoOf(publishNamespaceRoot, oldPrefix, s)
      moved == updateSubscriptionPrefix(publishNamespaceRoot, oldPrefix, newPrefix, s)
  IN /\ Registered(publishNamespaceRoot, oldPrefix, s)
     /\ publishNamespaceRoot' = moved.tree
     /\ Bounded(moved.tree)
     /\ announced' = [announced EXCEPT ![s] =
          IF ~moved.ok THEN @
          ELSE {ns \in @ : ~startsWith(ns, oldPrefix) \/ startsWith(ns, newPrefix)} \cup
               IF WantsNamespaces(info)
               THEN ExistingNamespaces(moved.tree, s, newPrefix, {oldPrefix}) ELSE {}]
     /\ publishing' = publishing \cup
          IF moved.ok /\ WantsTracks(info)
          THEN ExistingTracks(moved.tree, s, newPrefix, {oldPrefix}, info.forward, "namespace")
          ELSE {}
     /\ AtMost(publishing')
     /\ Untouched
     /\ UNCHANGED <<tracksSubscriberRoot, pendingRendezvous, signalled>>

(* SUBSCRIBE_TRACKS has a tree and an overlap rule of its own.             *)
subscribeTracks(s, prefix, forward) ==
  /\ ~hasOverlappingSubscription(tracksSubscriberRoot, prefix, s)
  /\ tracksSubscriberRoot' =
       addSession(tracksSubscriberRoot, prefix, s, [forward |-> forward, options |-> "PUBLISH"])
  /\ Bounded(tracksSubscriberRoot')
  /\ publishing' = publishing \cup
       ExistingTracks(publishNamespaceRoot, s, prefix, {}, forward, "tracks")
  /\ AtMost(publishing')
  /\ Untouched
  /\ UNCHANGED <<publishNamespaceRoot, announced, pendingRendezvous, signalled>>

unsubscribeTracks(s, prefix) ==
  /\ Registered(tracksSubscriberRoot, prefix, s)
  /\ tracksSubscriberRoot' = removeSession(tracksSubscriberRoot, prefix, s)
  /\ Untouched
  /\ UNCHANGED <<publishNamespaceRoot, announced, pendingRendezvous, signalled, publishing>>

(* Its update may change the forward state, for tracks to come; a prefix   *)
(* that is refused leaves everything as it was.                            *)
updateSubscribeTracks(s, oldPrefix, newPrefix, forward) ==
  LET moved == updateSubscriptionPrefix(tracksSubscriberRoot, oldPrefix, newPrefix, s)
  IN /\ Registered(tracksSubscriberRoot, oldPrefix, s)
     /\ tracksSubscriberRoot' =
          IF moved.ok THEN SetForward(moved.tree, newPrefix, s, forward) ELSE moved.tree
     /\ Bounded(tracksSubscriberRoot')
     /\ publishing' = publishing \cup
          IF moved.ok
          THEN ExistingTracks(publishNamespaceRoot, s, newPrefix, {oldPrefix}, forward, "tracks")
          ELSE {}
     /\ AtMost(publishing')
     /\ Untouched
     /\ UNCHANGED <<publishNamespaceRoot, announced, pendingRendezvous, signalled>>

applySubscriptionUpdate(s, prefix, forward) ==
  /\ Registered(tracksSubscriberRoot, prefix, s)
  /\ tracksSubscriberRoot' = SetForward(tracksSubscriberRoot, prefix, s, forward)
  /\ Untouched
  /\ UNCHANGED <<publishNamespaceRoot, announced, pendingRendezvous, signalled, publishing>>

-----------------------------------------------------------------------------
SubscribeStep ==
  \/ \E r \in Request :
       \/ \E f \in Forwarders : subscribe(r, f) \/ resumeRendezvous(r, f)
       \/ subscribeRendezvous(r)
       \/ rendezvousTimeout(r)
  \/ \E f \in Forwarders : resumeFirst(f) \/ cancelFirst(f)
  \/ \E c \in coalescing : resumeCoalesced(c) \/ cancelCoalesced(c)

ForwarderStep ==
  \E f \in Forwarders :
    \/ \E answer \in {"live", "rejected"} : upstreamAnswers(f, answer)
    \/ \E s \in Sessions : leave(f, s) \/ \E forward \in Forwards : updateForward(f, s, forward)
    \/ openSubgroup(f)
    \/ closeSubgroup(f)
    \/ \E stay \in Draining(f) : publishDone(f, stay)

PublishStep ==
  \/ \E s \in Publishers, track \in Tracks, f \in Forwarders, stay \in SUBSET Sessions :
       publish(s, track, f, stay)
  \/ \E p \in publishing, ok \in BOOLEAN :
       \/ publishToSession(p, ok)
       \/ \E forward \in {{}} \cup {{x} : x \in Forwards} : publishAnswered(p, ok, forward)

NamespaceStep ==
  \/ \E s \in Publishers, ns \in Namespaces :
       publishNamespace(s, ns) \/ publishNamespaceDone(s, ns)
  \/ \E s \in Registrants, prefix \in NamespacePrefixes :
       \/ \E info \in Infos : subscribeNamespace(s, prefix, info)
       \/ unsubscribeNamespace(s, prefix)
       \/ \E new \in NamespacePrefixes : updateNamespaceSubscriptionPrefix(s, prefix, new)
  \/ \E s \in Registrants, prefix \in TracksPrefixes :
       \/ unsubscribeTracks(s, prefix)
       \/ \E forward \in Forwards :
            \/ subscribeTracks(s, prefix, forward)
            \/ \E new \in TracksPrefixes : updateSubscribeTracks(s, prefix, new, forward)
            \/ applySubscriptionUpdate(s, prefix, forward)

Next == SubscribeStep \/ ForwarderStep \/ PublishStep \/ NamespaceStep

Spec == Init /\ [][Next]_vars

(* Every coroutine of the executor that can go on does go on, and the      *)
(* upstream session answers every SUBSCRIBE, with an error when it closes. *)
Fairness ==
  /\ \A f \in Forwarders :
       /\ WF_vars(\E answer \in {"live", "rejected"} : upstreamAnswers(f, answer))
       /\ WF_vars(resumeFirst(f))
  /\ \A r \in Request : WF_vars(\E c \in coalescing : c.request = r /\ resumeCoalesced(c))

FairSpec == Spec /\ Fairness

-----------------------------------------------------------------------------
(* Both trees keep a node reachable and counted while it or anything below *)
(* it holds a registration, a publish or a publisher, through every order  *)
(* of adding, moving and removing: pruning one never takes another away.   *)
TreesCounted == ContentIsCounted(publishNamespaceRoot) /\ ContentIsCounted(tracksSubscriberRoot)

(* PREFIX_OVERLAP: within a session, no registered prefix extends another, *)
(* in each tree, also after the updates that move a prefix.                *)
NoOverlap == PrefixesDisjoint(publishNamespaceRoot) /\ PrefixesDisjoint(tracksSubscriberRoot)

(* What NAMESPACE and NAMESPACE_DONE have told a session is the namespaces *)
(* that others publish under its prefixes, whichever came first.           *)
AnnouncedExactly ==
  \A s \in Sessions :
    announced[s] =
      {ns \in DOMAIN publishNamespaceRoot :
         /\ publishNamespaceRoot[ns].sourceSession \notin {None, s}
         /\ \E e \in SessionsAlong(publishNamespaceRoot, ns) : e[1] = s /\ WantsNamespaces(e[2])}

(* subscriptions_ is a map, and the forwarder of an entry is its own.      *)
OneSubscriptionPerTrack ==
  \A x, y \in subscriptions : x # y => x.track # y.track /\ x.forwarder # y.forwarder

(* The publishes of the tree are the live PUBLISHes of subscriptions_:     *)
(* "Invalid state, no subscription for publish" is not met, and the XCHECK *)
(* "Duplicate publish" does not fail.                                      *)
PublishesHaveSubscription ==
  /\ \A ns \in DOMAIN publishNamespaceRoot : \A e \in publishNamespaceRoot[ns].publishes :
       \E sub \in subscriptions : /\ sub.track = <<ns, e[1]>> /\ sub.upstream = e[2]
                                  /\ sub.isPublish /\ sub.handle
  /\ \A sub \in subscriptions : sub.isPublish /\ sub.handle =>
       /\ sub.track[1] \in DOMAIN publishNamespaceRoot
       /\ <<sub.track[2], sub.upstream>> \in publishNamespaceRoot[sub.track[1]].publishes

(* Whoever subscribes through a forwarder that has not been told the track *)
(* ended has an upstream request behind it.                                *)
SubscribersAreServed ==
  \A f \in DOMAIN forwarders : forwarders[f].subscribers # {} /\ ~forwarders[f].draining =>
    forwarders[f].upstream \in {"pending", "live"} \/ forwarders[f].starting

(* A subscribe that waits for the promise of another waits for an entry    *)
(* that is there and whose first subscribe is still to resume.             *)
CoalescingIsServed ==
  \A c \in coalescing : c.waits =>
    /\ forwarders[c.forwarder].starting
    /\ \E sub \in subscriptions : /\ sub.forwarder = c.forwarder
                                  /\ sub.track = c.request.track /\ ~sub.fulfilled

(* No subscribe sleeps on in a rendezvous for a track that came meanwhile. *)
RendezvousIsWoken ==
  \A r \in pendingRendezvous :
    /\ findPublishNamespaceSession(publishNamespaceRoot, r.track[1]) = None
    /\ ~ \E sub \in subscriptions : sub.track = r.track /\ sub.isPublish /\ sub.handle

(* While a subscriber of a published track wants objects, the publisher    *)
(* has been asked to forward them, whatever updates crossed.               *)
PublisherForwards ==
  \A sub \in subscriptions :
    sub.isPublish /\ sub.handle /\ forwarders[sub.forwarder].forwarding # {} =>
      forwarders[sub.forwarder].told

(* No subscriber loses its forwarder without having left, having been      *)
(* refused, or having been told that the track ended.                      *)
NoneDetached == detached = {}

(* An upstream subscription the relay has is one it can end: it is in      *)
(* subscriptions_.                                                         *)
UpstreamIsHeld ==
  \A f \in Forwarders : forwarders[f].upstream = "live" /\ ~forwarders[f].starting =>
    \E sub \in subscriptions : sub.forwarder = f

(* subscriptions_ is a map, and it agrees with the publishes of the tree.  *)
SubscriptionsAgree == OneSubscriptionPerTrack /\ PublishesHaveSubscription

(* Whoever subscribes to a track, coalesces with a subscribe or waits in a *)
(* rendezvous is served or will be.                                        *)
EveryoneIsServed == SubscribersAreServed /\ CoalescingIsServed /\ RendezvousIsWoken

(* Both trees stay counted and the prefixes in them disjoint.              *)
TreesSound == TreesCounted /\ NoOverlap

(* A subscribe that coalesced is answered, however the first one ends.     *)
CoalescedIsAnswered ==
  \A r \in Request :
    (\E c \in coalescing : c.request = r) ~> ~ \E c \in coalescing : c.request = r
=============================================================================
