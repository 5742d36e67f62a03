---------------------------- MODULE MoQForwarder ----------------------------
(***************************************************************************)
(* MoQForwarder (moxygen/relay/MoQForwarder.{h,cpp}): fans one upstream    *)
(* track out to its subscribers.  One action is one call into the          *)
(* forwarder, from the publisher, a subscriber's handle or the owner, and  *)
(* covers the whole call: the pass over the subscribers, the removals the  *)
(* pass decides on, and the single onEmpty that OnEmptyGuard lets out at   *)
(* the end.  What each downstream consumer answers is the function r.      *)
(*                                                                         *)
(* Passes visit an unordered map.  The visits commute, except for whether  *)
(* forwardChanged(false) is called when the last forwarding subscriber and *)
(* a paused one leave in the same pass: Settle leaves that open.           *)
(*                                                                         *)
(* Left out: payloads, extensions, aliases, priorities, group order, the   *)
(* diagnostic counters.  Calls on a SubgroupForwarder that was detached    *)
(* reach no subscriber and change nothing here.                            *)
(***************************************************************************)
EXTENDS Integers, FiniteSets

CONSTANTS
  Sessions,         \* subscriber sessions
  PassiveSessions,  \* those that join as passive subscribers
  MaxGroup,         \* bound: groups are 0 .. MaxGroup
  MaxObject,        \* bound: object ids are 0 .. MaxObject
  SubgroupIDs,      \* subgroup ids within a group
  Filters,          \* location filters of SUBSCRIBE, PUBLISH_OK, REQUEST_UPDATE
  NewGroupRequests, \* values of the NEW_GROUP_REQUEST parameter
  CacheInterests,   \* values beginSubgroup may set cacheInterest_ to
  deferPublishDone  \* deferPublishDone_

(* Locations are compared lexicographically; Loc packs one in an integer.  *)
(* Every group has room for its objects, for the object after the last and *)
(* for the "end of group" object id kEightByteLimit.                       *)
Width == MaxObject + 2
Loc(g, o) == g * Width + o
GroupOf(l) == l \div Width
EndOfGroup(g) == Loc(g, MaxObject + 1)
kLocationMax == Loc(MaxGroup + 1, 0)
None == -1

Groups == 0 .. MaxGroup
Objects == 0 .. MaxObject
Subgroups == Groups \X SubgroupIDs

ASSUME ForwarderAssumption ==
  /\ IsFiniteSet(Sessions)
  /\ PassiveSessions \subseteq Sessions
  /\ MaxGroup \in Nat /\ MaxObject \in Nat
  /\ \A f \in Filters : /\ f.fieldCount \in 0 .. 4
                        /\ f.start \in Nat /\ f.end \in Nat
  /\ NewGroupRequests \subseteq Nat
  /\ CacheInterests \subseteq BOOLEAN
  /\ deferPublishDone \in BOOLEAN

VARIABLES
  subscribers,                 \* keys of subscribers_
  sub,                         \* the Subscriber of each of them
  subgroups,                   \* keys of subgroups_
  sg,                          \* the SubgroupForwarder of each of them
  largest,                     \* largest_, None if not set
  outstandingNewGroupRequest,  \* outstandingNewGroupRequest_, None if not set
  forwardingSubscribers,       \* forwardingSubscribers_
  passiveCount,                \* passiveCount_
  refusedUpstream,             \* refusedUpstream_
  draining,                    \* draining_
  pendingPublishDone,          \* pendingPublishDone_ is set
  alive,                       \* ~MoQForwarder has not run
  wanted,                      \* history: upstream was last told to send
  owed,                        \* history: onEmpty is due once all have left
  forgotten                    \* history: subscribers released without publishDone

vars == <<subscribers, sub, subgroups, sg, largest, outstandingNewGroupRequest,
          forwardingSubscribers, passiveCount, refusedUpstream, draining,
          pendingPublishDone, alive, wanted, owed, forgotten>>

Subscriber ==
  [start : Nat, end : Nat,               \* range
   shouldForward : BOOLEAN,
   passive : BOOLEAN,
   named : BOOLEAN,                      \* requestID is the subscription's own
   receivedPublishDone : BOOLEAN,
   subgroups : SUBSET Subgroups,         \* those with an open consumer
   tombstoned : SUBSET Subgroups]

SubgroupForwarder ==
  [busy : BOOLEAN,                       \* currentObjectLength_ is set
   lastObjectId : Objects \cup {None},
   cacheInterest : BOOLEAN]

NoSubscriber ==
  [start |-> 0, end |-> 0, shouldForward |-> FALSE, passive |-> FALSE,
   named |-> FALSE, receivedPublishDone |-> FALSE,
   subgroups |-> {}, tombstoned |-> {}]

NewSubgroup == [busy |-> FALSE, lastObjectId |-> None, cacheInterest |-> FALSE]

(* The state has its shape; in particular no counter runs below zero.     *)
TypeOK ==
  /\ subscribers \subseteq Sessions
  /\ sub \in [Sessions -> Subscriber]
  /\ subgroups \subseteq Subgroups
  /\ sg \in [Subgroups -> SubgroupForwarder]
  /\ largest \in Nat \cup {None}
  /\ outstandingNewGroupRequest \in NewGroupRequests \cup {None}
  /\ forwardingSubscribers \in Nat
  /\ passiveCount \in Nat
  /\ refusedUpstream \in BOOLEAN
  /\ draining \in BOOLEAN
  /\ pendingPublishDone \in BOOLEAN
  /\ alive \in BOOLEAN
  /\ wanted \in BOOLEAN
  /\ owed \in BOOLEAN
  /\ forgotten \subseteq Sessions

Init ==
  /\ subscribers = {}
  /\ sub = [s \in Sessions |-> NoSubscriber]
  /\ subgroups = {}
  /\ sg = [id \in Subgroups |-> NewSubgroup]
  /\ largest = None
  /\ outstandingNewGroupRequest = None
  /\ forwardingSubscribers = 0
  /\ passiveCount = 0
  /\ refusedUpstream = FALSE
  /\ draining = FALSE
  /\ pendingPublishDone = FALSE
  /\ alive = TRUE
  /\ wanted = FALSE
  /\ owed = FALSE
  /\ forgotten = {}

-----------------------------------------------------------------------------
(* LocationFilter::resolve for a subscription: the [start, end] a filter   *)
(* stands for when the track's largest object is lg.                       *)
IsNextObjectForm(f) == f.fieldCount = 2 /\ f.start = 0

resolve(f, lg) ==
  LET nextObject == IF lg = None THEN 0 ELSE lg + 1
      nextGroup == IF lg = None THEN 0 ELSE GroupOf(lg) + 1
      groupsBack == GroupOf(f.start)
  IN [start |-> IF f.fieldCount = 1
                THEN Loc(IF groupsBack > nextGroup THEN 0 ELSE nextGroup - groupsBack, 0)
                ELSE IF IsNextObjectForm(f) \/ (lg # None /\ f.start < lg)
                THEN nextObject
                ELSE f.start,
      end |-> CASE f.fieldCount < 3 -> kLocationMax
                [] f.fieldCount = 3 -> EndOfGroup(GroupOf(f.end))
                [] f.fieldCount = 4 -> f.end]

(* What a visit decides for one subscriber: its new record, whether it     *)
(* leaves, whether its consumer is sent PUBLISH_DONE on the way, and       *)
(* whether the data counts as forwarded (anyForwarded).                    *)
Keep(u) == [u |-> u, gone |-> FALSE, sent |-> FALSE]
Retire(u) == [Keep(u) EXCEPT !.gone = TRUE]

shouldRemove(u) == u.receivedPublishDone /\ u.subgroups = {}

RetireIfDrained(u) == IF shouldRemove(u) THEN Retire(u) ELSE Keep(u)

closeSubgroupForSubscriber(u, id) ==
  RetireIfDrained([u EXCEPT !.subgroups = @ \ {id}, !.tombstoned = @ \ {id}])

Tombstone(u, id) == [u EXCEPT !.subgroups = @ \ {id}, !.tombstoned = @ \cup {id}]

(* What a downstream call may answer: success, CANCELLED, any other error, *)
(* or an error from beginSubgroup when the call has to open the stream.    *)
Results == {"ok", "soft", "hard", "refused"}

(* Mutant: a soft error does not retire a draining subscriber.             *)
Write_StaysDrained(u, id, closes, r) ==
  CASE r = "ok" -> IF closes THEN closeSubgroupForSubscriber(u, id) ELSE Keep(u)
    [] r = "soft" -> IF closes THEN closeSubgroupForSubscriber(Tombstone(u, id), id)
                     ELSE Keep(Tombstone(u, id))
    [] OTHER -> Retire(u)

(* fn of a SubgroupForwarder call and handleSubgroupError.                 *)
Write(u, id, closes, r) ==
  CASE r = "ok" -> IF closes THEN closeSubgroupForSubscriber(u, id) ELSE Keep(u)
    [] r = "soft" -> IF closes /\ ~shouldRemove(Tombstone(u, id))
                     THEN closeSubgroupForSubscriber(Tombstone(u, id), id)
                     ELSE RetireIfDrained(Tombstone(u, id))
    [] OTHER -> Retire(u)

(* The visit of forEachSubscriberSubgroup; obj is newObjectID.             *)
Visit(u, id, obj, closes, r, lg) ==
  IF id \in u.subgroups
  THEN IF lg > u.end THEN Retire(u)
       ELSE IF ~u.shouldForward THEN closeSubgroupForSubscriber(u, id)
       ELSE [Write(u, id, closes, r) EXCEPT !.sent = TRUE]
  ELSE IF obj = None \/ u.receivedPublishDone \/ Loc(id[1], obj) < u.start THEN Keep(u)
  ELSE IF lg > u.end THEN Retire(u)
  ELSE IF id \in u.tombstoned \/ ~u.shouldForward THEN Keep(u)
  ELSE IF r = "refused" THEN Retire(u)
  ELSE [Write([u EXCEPT !.subgroups = @ \cup {id}], id, closes, r) EXCEPT !.sent = TRUE]

subscriberMayAcceptLaterObject(u, id, last) ==
  /\ last # None
  /\ id \notin u.subgroups /\ id \notin u.tombstoned
  /\ u.shouldForward /\ ~u.receivedPublishDone
  /\ GroupOf(u.start) = id[1] /\ u.start > Loc(id[1], last) /\ u.start <= u.end

-----------------------------------------------------------------------------
updateLargest(l) ==
  /\ largest' = IF l > largest THEN l ELSE largest
  /\ outstandingNewGroupRequest' =
       IF l > largest /\ (largest = None \/ GroupOf(l) > GroupOf(largest))
       THEN None ELSE outstandingNewGroupRequest

Active(S) == {s \in S : ~sub[s].passive}
Forwarding(S) == {s \in Active(S) : sub[s].shouldForward}

(* Mutant: the count is not taken down for the last active subscriber.     *)
Depart_LastKeepsCount(stay, G, checked, refuse) ==
  LET left == subscribers \ stay
      empty == checked /\ Active(stay) = {} /\ G = {}
  IN /\ subscribers' = stay
     /\ subgroups' = G
     /\ forwardingSubscribers' =
          IF Active(stay) = {} THEN forwardingSubscribers
          ELSE forwardingSubscribers - Cardinality(Forwarding(left))
     /\ passiveCount' = passiveCount - Cardinality(left \ Active(left))
     /\ refusedUpstream' = (refusedUpstream \/ refuse)
     /\ owed' = (~empty /\ (owed \/ Active(stay) # {} \/ G # {}))
     /\ wanted' = (wanted /\ ~refuse /\ ~empty)

(* Mutant: passive subscribers hold onEmpty back.                          *)
Depart_PassiveHoldsOnEmpty(stay, G, checked, refuse) ==
  LET left == subscribers \ stay
      empty == checked /\ stay = {} /\ G = {}
  IN /\ subscribers' = stay
     /\ subgroups' = G
     /\ forwardingSubscribers' = forwardingSubscribers - Cardinality(Forwarding(left))
     /\ passiveCount' = passiveCount - Cardinality(left \ Active(left))
     /\ refusedUpstream' = (refusedUpstream \/ refuse)
     /\ owed' = (~empty /\ (owed \/ Active(stay) # {} \/ G # {}))
     /\ wanted' = (wanted /\ ~refuse /\ ~empty)

(* removeSubscriberIt for every subscriber but those in stay: the counters *)
(* and the calls to the owner.  When the last forwarding subscriber leaves *)
(* together with a paused one, forwardChanged(false) depends on the order. *)
Depart(stay, G, checked, refuse) ==
  LET left == subscribers \ stay
      empty == checked /\ Active(stay) = {} /\ G = {}
      toZero == /\ Forwarding(left) # {}
                /\ forwardingSubscribers = Cardinality(Forwarding(left))
  IN /\ subscribers' = stay
     /\ subgroups' = G
     /\ forwardingSubscribers' = forwardingSubscribers - Cardinality(Forwarding(left))
     /\ passiveCount' = passiveCount - Cardinality(left \ Active(left))
     /\ refusedUpstream' = (refusedUpstream \/ refuse)
     /\ owed' = (~empty /\ (owed \/ Active(stay) # {} \/ G # {}))
     /\ \/ /\ ~toZero \/ Active(stay) = {}
           /\ wanted' = (wanted /\ ~refuse /\ ~empty)
        \/ /\ toZero
           /\ Active(stay) # {} \/ Active(left) # Forwarding(left)
           /\ wanted' = FALSE

(* How a call ends, once fate is decided: removals, checkAndFireOnEmpty    *)
(* with the deferred PUBLISH_DONE it may release to all, and the outermost *)
(* OnEmptyGuard.  G is subgroups_ after the call; `checked' says that the  *)
(* call reached checkAndFireOnEmpty, `refuse' that it set refusedUpstream_. *)
Settle(fate, G, checked, refuse) ==
  /\ Depart(IF checked /\ pendingPublishDone /\ G = {} THEN {}
            ELSE {s \in subscribers : ~fate[s].gone},
            G, checked, refuse)
  /\ sub' = [s \in Sessions |-> IF s \in subscribers' THEN fate[s].u ELSE NoSubscriber]
  /\ pendingPublishDone' = (pendingPublishDone /\ ~(checked /\ G = {}))
  /\ UNCHANGED forgotten

SettleRemovals(fate) ==
  Settle(fate, subgroups, \E s \in subscribers : fate[s].gone, FALSE)

-----------------------------------------------------------------------------
(* Subscribers joining and changing what they ask for.                     *)

addForwardingSubscriber ==
  /\ forwardingSubscribers' = forwardingSubscribers + 1
  /\ refusedUpstream' = FALSE
  /\ wanted' = (wanted \/ forwardingSubscribers = 0 \/ refusedUpstream)

renewForwarding ==
  /\ refusedUpstream' = FALSE
  /\ wanted' = (wanted \/ refusedUpstream)
  /\ UNCHANGED forwardingSubscribers

removeForwardingSubscriber ==
  /\ forwardingSubscribers' = forwardingSubscribers - 1
  /\ wanted' = (wanted /\ forwardingSubscribers # 1)
  /\ UNCHANGED refusedUpstream

(* Mutant: a draining forwarder still takes subscribers.                   *)
Join_WhileDraining(s, range, forward, named) ==
  /\ alive /\ s \notin subscribers
  /\ subscribers' = subscribers \cup {s}
  /\ sub' = [sub EXCEPT ![s] =
               [NoSubscriber EXCEPT
                  !.start = range.start, !.end = range.end,
                  !.shouldForward = forward, !.named = named]]
  /\ owed' = TRUE
  /\ IF forward THEN addForwardingSubscriber
     ELSE UNCHANGED <<forwardingSubscribers, refusedUpstream, wanted>>
  /\ UNCHANGED <<subgroups, sg, largest, outstandingNewGroupRequest, passiveCount,
                 draining, pendingPublishDone, alive, forgotten>>

(* The Subscriber constructor and the insertion all overloads share.       *)
Join(s, range, forward, named) ==
  /\ alive /\ ~draining /\ s \notin subscribers
  /\ subscribers' = subscribers \cup {s}
  /\ sub' = [sub EXCEPT ![s] =
               [NoSubscriber EXCEPT
                  !.start = range.start, !.end = range.end,
                  !.shouldForward = forward, !.named = named,
                  !.passive = s \in PassiveSessions]]
  /\ IF s \in PassiveSessions
     THEN /\ passiveCount' = passiveCount + 1
          /\ UNCHANGED <<forwardingSubscribers, refusedUpstream, wanted, owed>>
     ELSE /\ owed' = TRUE
          /\ UNCHANGED passiveCount
          /\ IF forward THEN addForwardingSubscriber
             ELSE UNCHANGED <<forwardingSubscribers, refusedUpstream, wanted>>
  /\ UNCHANGED <<subgroups, sg, largest, outstandingNewGroupRequest, draining,
                 pendingPublishDone, alive, forgotten>>

(* addSubscriber for a SUBSCRIBE.                                          *)
addSubscriber(s, filter, forward) ==
  s \notin PassiveSessions /\ Join(s, resolve(filter, largest), forward, TRUE)

(* addSubscriber for a PUBLISH to the subscriber, or for a passive one.    *)
addSubscriberUnfiltered(s, forward) ==
  Join(s, [start |-> 0, end |-> kLocationMax], forward, FALSE)

(* The request worth passing on, or what is outstanding already.           *)
tryProcessNewGroupRequest(value) ==
  IF \/ value = None
     \/ value # 0 /\ largest # None /\ value <= GroupOf(largest)
     \/ outstandingNewGroupRequest # None /\ outstandingNewGroupRequest >= value
  THEN outstandingNewGroupRequest
  ELSE value

(* Mutant: Forward=0 takes the count down even if it was 0 already.        *)
updateForwardState_AlwaysRemoves(s, u, forward) ==
  /\ sub' = [sub EXCEPT ![s] = [u EXCEPT !.shouldForward = forward]]
  /\ IF ~forward THEN removeForwardingSubscriber
     ELSE IF u.shouldForward THEN renewForwarding ELSE addForwardingSubscriber

(* updateForwardState, given the record u that s is left with otherwise.   *)
updateForwardState(s, u, forward) ==
  /\ sub' = [sub EXCEPT ![s] = [u EXCEPT !.shouldForward = forward]]
  /\ CASE forward /\ ~u.shouldForward -> addForwardingSubscriber
       [] forward /\ u.shouldForward -> renewForwarding
       [] ~forward /\ u.shouldForward -> removeForwardingSubscriber
       [] OTHER -> UNCHANGED <<forwardingSubscribers, refusedUpstream, wanted>>

(* Subscriber::onPublishOk.  PUBLISH_OK of draft 22 carries no FORWARD and *)
(* only settles the request id.                                            *)
onPublishOk(s, filter, forward, value) ==
  /\ alive /\ s \in subscribers \ PassiveSessions /\ ~sub[s].named
  /\ updateForwardState(s, [sub[s] EXCEPT !.named = TRUE,
                              !.start = resolve(filter, largest).start,
                              !.end = resolve(filter, largest).end], forward)
  /\ outstandingNewGroupRequest' = tryProcessNewGroupRequest(value)
  /\ UNCHANGED <<subscribers, subgroups, sg, largest, passiveCount, draining,
                 pendingPublishDone, alive, owed, forgotten>>

onPublishOkWithoutForward(s) ==
  /\ alive /\ s \in subscribers \ PassiveSessions /\ ~sub[s].named
  /\ sub' = [sub EXCEPT ![s].named = TRUE]
  /\ UNCHANGED <<subscribers, subgroups, sg, largest, outstandingNewGroupRequest,
                 forwardingSubscribers, passiveCount, refusedUpstream, draining,
                 pendingPublishDone, alive, wanted, owed, forgotten>>

(* The range a REQUEST_UPDATE's filter stands for: an absolute start is    *)
(* taken as written.                                                       *)
UpdatedRange(f) ==
  LET range == resolve(f, largest)
  IN IF f.fieldCount = 0 THEN [range EXCEPT !.start = 0]
     ELSE IF f.fieldCount = 1 \/ IsNextObjectForm(f) THEN range
     ELSE [range EXCEPT !.start = f.start]

(* Subscriber::requestUpdate.  An update carries at most one filter and at *)
(* most one Forward value; one whose range is empty is rejected whole.     *)
requestUpdate(s, filter, forward, value) ==
  LET range == IF filter = {} THEN [start |-> sub[s].start, end |-> sub[s].end]
               ELSE UpdatedRange(CHOOSE f \in filter : TRUE)
      u == [sub[s] EXCEPT !.start = range.start, !.end = range.end,
              !.tombstoned = IF TRUE \in forward THEN {} ELSE @]
  IN /\ alive /\ s \in subscribers \ PassiveSessions /\ sub[s].named
     /\ filter # {} => range.start <= range.end
     /\ IF forward = {}
        THEN /\ sub' = [sub EXCEPT ![s] = u]
             /\ UNCHANGED <<forwardingSubscribers, refusedUpstream, wanted>>
        ELSE updateForwardState(s, u, TRUE \in forward)
     /\ outstandingNewGroupRequest' = tryProcessNewGroupRequest(value)
     /\ UNCHANGED <<subscribers, subgroups, sg, largest, passiveCount, draining,
                    pendingPublishDone, alive, owed, forgotten>>

(* SUBSCRIBE_OK from upstream tells the forwarder the track's largest.     *)
upstreamLargest(l) ==
  /\ alive /\ subscribers # {} /\ ~draining
  /\ updateLargest(l)
  /\ UNCHANGED <<subscribers, sub, subgroups, sg, forwardingSubscribers,
                 passiveCount, refusedUpstream, draining, pendingPublishDone,
                 alive, wanted, owed, forgotten>>

-----------------------------------------------------------------------------
(* Subscribers leaving, and the end of the track.                          *)

(* removeSubscriber, from a handle or from the owner with a PUBLISH_DONE.  *)
(* The reset of an open stream and publishDone are calls out, from which   *)
(* other subscribers (also) may unsubscribe.                               *)
removeSubscriber(s, also) ==
  /\ alive /\ s \in subscribers
  /\ Settle([x \in subscribers |->
               IF x = s \/ x \in also THEN Retire(sub[x]) ELSE Keep(sub[x])],
            subgroups, TRUE, FALSE)
  /\ UNCHANGED <<sg, largest, outstandingNewGroupRequest, draining, alive>>

(* drainSubscriber.  A handle may unsubscribe from inside publishDone.     *)
drainSubscriber(u, reenters) ==
  IF reenters \/ u.subgroups = {} THEN Retire(u)
  ELSE Keep([u EXCEPT !.receivedPublishDone = TRUE])

publishDone(reenters) ==
  /\ alive /\ ~draining
  /\ draining' = TRUE
  /\ IF deferPublishDone /\ subgroups # {}
     THEN /\ pendingPublishDone' = TRUE
          /\ UNCHANGED <<subscribers, sub, subgroups, forwardingSubscribers,
                         passiveCount, refusedUpstream, wanted, owed, forgotten>>
     ELSE SettleRemovals(
            [s \in subscribers |-> drainSubscriber(sub[s], s \in reenters)])
  /\ UNCHANGED <<sg, largest, outstandingNewGroupRequest, alive>>

(* ~MoQForwarder: the owner lets go of the forwarder.                      *)
destroy ==
  /\ alive
  /\ alive' = FALSE
  /\ subscribers' = {} /\ subgroups' = {}
  /\ sub' = [s \in Sessions |-> NoSubscriber]
  /\ sg' = [id \in Subgroups |-> NewSubgroup]
  /\ forwardingSubscribers' = 0 /\ passiveCount' = 0
  /\ pendingPublishDone' = FALSE
  /\ wanted' = FALSE /\ owed' = FALSE
  /\ LET told == IF pendingPublishDone THEN subscribers ELSE {}
     IN forgotten' = {s \in subscribers \ told : draining /\ ~sub[s].receivedPublishDone}
  /\ UNCHANGED <<largest, outstandingNewGroupRequest, refusedUpstream, draining>>

-----------------------------------------------------------------------------
(* The publisher's calls.                                                  *)

(* The first pass of beginSubgroup over a subgroup that is open already.   *)
ReopenCandidate(u, id) ==
  /\ id \notin u.subgroups /\ ~u.passive /\ ~u.receivedPublishDone
  /\ id \notin u.tombstoned /\ GroupOf(u.start) <= id[1]

VisitDuplicate(u, id, lg) ==
  IF id \in u.subgroups THEN RetireIfDrained([u EXCEPT !.subgroups = @ \ {id}])
  ELSE IF ReopenCandidate(u, id) /\ lg > u.end THEN Retire(u)
  ELSE Keep(u)

(* Mutant: a declined subgroup is opened again.                            *)
VisitBegin_IgnoresTombstone(u, id, r, lg) ==
  IF u.receivedPublishDone \/ Loc(id[1], 0) < u.start THEN Keep(u)
  ELSE IF lg > u.end THEN Retire(u)
  ELSE IF ~u.shouldForward \/ id \in u.subgroups THEN Keep(u)
  ELSE IF r = "ok" THEN Keep([u EXCEPT !.subgroups = @ \cup {id}])
  ELSE Retire(u)

(* Mutant: the header is held against the track's largest only.            *)
VisitBegin_LargestOnly(u, id, r, lg) ==
  IF u.receivedPublishDone \/ lg < u.start THEN Keep(u)
  ELSE IF lg > u.end THEN Retire(u)
  ELSE IF ~u.shouldForward \/ id \in u.subgroups \cup u.tombstoned THEN Keep(u)
  ELSE IF r = "ok" THEN Keep([u EXCEPT !.subgroups = @ \cup {id}])
  ELSE Retire(u)

(* Its second pass, which opens the subgroup downstream.                   *)
VisitBegin(u, id, r, lg) ==
  IF u.receivedPublishDone \/ Loc(id[1], 0) < u.start THEN Keep(u)
  ELSE IF lg > u.end THEN Retire(u)
  ELSE IF ~u.shouldForward \/ id \in u.subgroups \cup u.tombstoned THEN Keep(u)
  ELSE IF r = "ok" THEN Keep([u EXCEPT !.subgroups = @ \cup {id}])
  ELSE Retire(u)

(* The early returns of beginSubgroup, given the first pass.               *)
RefusesDuplicate(id, cacheInterest, lg) ==
  /\ id \in subgroups /\ ~cacheInterest
  /\ \A s \in Active(subscribers) : id \notin sub[s].subgroups
  /\ \A s \in subscribers :
       ReopenCandidate(sub[s], id) => lg > sub[s].end \/ ~sub[s].shouldForward

ReturnsEarly(id, cacheInterest, lg, first) ==
  \/ RefusesDuplicate(id, cacheInterest, lg)
  \/ id \in subgroups /\ \A s \in subscribers : first[s].gone
  \/ draining /\ ~cacheInterest

(* A removal in the second pass that finds subgroups_ empty releases a     *)
(* deferred PUBLISH_DONE to everyone.                                      *)
Registers(id, first, second) ==
  /\ \E s \in subscribers : ~second[s].gone
  /\ ~ /\ pendingPublishDone /\ subgroups \ {id} = {}
       /\ \E s \in subscribers : second[s].gone /\ ~first[s].gone

BeginSettled(id, fate, registered, checked, refuse, cacheInterest) ==
  /\ Settle(fate, IF registered THEN subgroups \cup {id} ELSE subgroups \ {id},
            checked, refuse)
  /\ sg' = [sg EXCEPT ![id] =
              IF registered THEN [NewSubgroup EXCEPT !.cacheInterest = cacheInterest]
              ELSE NewSubgroup]

(* Mutant: the early returns do not check for empty.                       *)
BeginPasses_ReturnsUnchecked(id, cacheInterest, r, lg, first) ==
  IF ReturnsEarly(id, cacheInterest, lg, first)
  THEN BeginSettled(id, first, FALSE, FALSE, RefusesDuplicate(id, cacheInterest, lg),
                    cacheInterest)
  ELSE LET second == [s \in subscribers |->
                        IF first[s].gone THEN first[s]
                        ELSE VisitBegin(first[s].u, id, r[s], lg)]
       IN BeginSettled(id, second, Registers(id, first, second), subscribers # {},
                       FALSE, cacheInterest)

BeginPasses(id, cacheInterest, r, lg, first) ==
  IF ReturnsEarly(id, cacheInterest, lg, first)
  THEN BeginSettled(id, first, FALSE, TRUE, RefusesDuplicate(id, cacheInterest, lg),
                    cacheInterest)
  ELSE LET second == [s \in subscribers |->
                        IF first[s].gone THEN first[s]
                        ELSE VisitBegin(first[s].u, id, r[s], lg)]
       IN BeginSettled(id, second, Registers(id, first, second), subscribers # {},
                       FALSE, cacheInterest)

beginSubgroup(id, cacheInterest, r) ==
  LET l == Loc(id[1], 0)
      lg == IF l > largest THEN l ELSE largest
  IN /\ alive
     /\ updateLargest(l)
     /\ BeginPasses(id, cacheInterest, r, lg,
                    [s \in subscribers |-> IF id \in subgroups
                                           THEN VisitDuplicate(sub[s], id, lg)
                                           ELSE Keep(sub[s])])
     /\ UNCHANGED <<draining, alive>>

(* The part every SubgroupForwarder call shares: the pass, then either     *)
(* removeSubgroupAndCheckEmpty (closes) or cleanupOnError.  obj is the     *)
(* object that may open a stream, next the subgroup's state afterwards.    *)
NobodyTakes(id, next, fate) ==
  \/ \A s \in subscribers : fate[s].gone
  \/ /\ ~next.cacheInterest
     /\ \A s \in subscribers :
          /\ ~fate[s].sent
          /\ \/ fate[s].gone
             \/ ~subscriberMayAcceptLaterObject(fate[s].u, id, next.lastObjectId)

CallSettled(id, next, fate, closes, failed) ==
  /\ Settle(fate, IF closes \/ failed THEN subgroups \ {id} ELSE subgroups,
            closes \/ failed \/ \E s \in subscribers : fate[s].gone,
            failed /\ ~closes)
  /\ sg' = [sg EXCEPT ![id] = IF closes \/ failed THEN NewSubgroup ELSE next]

CallPassed(id, next, fate, closes) ==
  CallSettled(id, next, fate, closes, NobodyTakes(id, next, fate))

SubgroupCall(id, obj, closes, r, next) ==
  LET l == Loc(id[1], obj)
      lg == IF obj # None /\ l > largest THEN l ELSE largest
  IN /\ alive /\ id \in subgroups
     /\ IF obj = None THEN UNCHANGED <<largest, outstandingNewGroupRequest>>
        ELSE updateLargest(l)
     /\ CallPassed(id, next,
                   [s \in subscribers |-> Visit(sub[s], id, obj, closes, r[s], lg)],
                   closes)
     /\ UNCHANGED <<draining, alive>>

(* Object ids of a subgroup increase: SubgroupConsumer's contract.         *)
NextObject(id, o) == ~sg[id].busy /\ o > sg[id].lastObjectId

(* object, with or without FIN, endOfGroup and endOfTrackAndGroup, which   *)
(* always end the subgroup, and beginObject with the whole payload.        *)
object(id, o, ends, r) ==
  /\ NextObject(id, o)
  /\ SubgroupCall(id, o, ends, r, [sg[id] EXCEPT !.lastObjectId = o])

(* beginObject with payload still to come.                                 *)
beginObject(id, o, r) ==
  /\ NextObject(id, o)
  /\ SubgroupCall(id, o, FALSE, r, [sg[id] EXCEPT !.lastObjectId = o, !.busy = TRUE])

(* beginObject during an object is an error, found after updateLargest.    *)
beginObjectBusy(id, o) ==
  /\ alive /\ id \in subgroups /\ sg[id].busy /\ o > sg[id].lastObjectId
  /\ updateLargest(Loc(id[1], o))
  /\ UNCHANGED <<subscribers, sub, subgroups, sg, forwardingSubscribers,
                 passiveCount, refusedUpstream, draining, pendingPublishDone,
                 alive, wanted, owed, forgotten>>

(* last: the payload completes the object; only such a payload may carry   *)
(* the subgroup's FIN.                                                     *)
objectPayload(id, last, fin, r) ==
  /\ id \in subgroups /\ sg[id].busy
  /\ fin => last
  /\ SubgroupCall(id, None, fin, r, [sg[id] EXCEPT !.busy = ~last])

endOfSubgroup(id, r) ==
  /\ ~sg[id].busy
  /\ SubgroupCall(id, None, TRUE, r, sg[id])

reset(id) ==
  SubgroupCall(id, None, TRUE, [s \in Sessions |-> "ok"], sg[id])

setCacheInterest(id, interest) ==
  /\ alive /\ id \in subgroups
  /\ sg' = [sg EXCEPT ![id].cacheInterest = interest]
  /\ UNCHANGED <<subscribers, sub, subgroups, largest, outstandingNewGroupRequest,
                 forwardingSubscribers, passiveCount, refusedUpstream, draining,
                 pendingPublishDone, alive, wanted, owed, forgotten>>

(* objectStream and datagram make the same pass.                           *)
VisitSingle(u, l, r, lg) ==
  IF u.receivedPublishDone \/ l < u.start THEN Keep(u)
  ELSE IF lg > u.end \/ (u.shouldForward /\ r # "ok") THEN Retire(u)
  ELSE [Keep(u) EXCEPT !.sent = u.shouldForward]

objectStream(g, o, r) ==
  LET l == Loc(g, o)
      lg == IF l > largest THEN l ELSE largest
  IN /\ alive
     /\ updateLargest(l)
     /\ SettleRemovals([s \in subscribers |-> VisitSingle(sub[s], l, r[s], lg)])
     /\ UNCHANGED <<sg, draining, alive>>

-----------------------------------------------------------------------------
Optional(S) == {{}} \cup {{x} : x \in S}

(* What the consumers may answer.  Data goes to a subscriber only while it *)
(* forwards, and an open stream is not opened again; elsewhere the answer  *)
(* is not asked for and is fixed to "ok".  beginSubgroup and objectStream  *)
(* take any error as fatal, a call without an object opens no stream.      *)
Answers(results) ==
  {r \in [subscribers -> results] : \A s \in subscribers : r[s] = "ok" \/ sub[s].shouldForward}

ObjectAnswers(id) ==
  {r \in Answers(Results) : \A s \in subscribers : r[s] = "refused" => id \notin sub[s].subgroups}

SubscriberStep ==
  \E s \in Sessions :
    \/ \E f \in Filters, forward \in BOOLEAN : addSubscriber(s, f, forward)
    \/ \E forward \in BOOLEAN : addSubscriberUnfiltered(s, forward)
    \/ \E value \in NewGroupRequests \cup {None} :
         \/ \E f \in Filters, forward \in BOOLEAN : onPublishOk(s, f, forward, value)
         \/ \E f \in Optional(Filters), forward \in Optional(BOOLEAN) :
              requestUpdate(s, f, forward, value)
    \/ onPublishOkWithoutForward(s)
    \/ \E also \in SUBSET subscribers : removeSubscriber(s, also)

PublisherStep ==
  \/ \E id \in Subgroups, c \in CacheInterests, r \in Answers({"ok", "hard"}) :
       beginSubgroup(id, c, r)
  \/ \E id \in subgroups :
       \/ \E o \in Objects, r \in ObjectAnswers(id) :
            \/ \E ends \in BOOLEAN : object(id, o, ends, r)
            \/ beginObject(id, o, r)
       \/ \E r \in Answers({"ok", "soft", "hard"}) :
            \/ \E last, fin \in BOOLEAN : objectPayload(id, last, fin, r)
            \/ endOfSubgroup(id, r)
       \/ reset(id)
       \/ \E o \in Objects : beginObjectBusy(id, o)
       \/ \E c \in CacheInterests : setCacheInterest(id, c)
  \/ \E g \in Groups, o \in Objects, r \in Answers({"ok", "hard"}) :
       objectStream(g, o, r)
  \/ \E reenters \in SUBSET subscribers : publishDone(reenters)

OwnerStep ==
  \/ \E g \in Groups, o \in Objects : upstreamLargest(Loc(g, o))
  \/ destroy

Next == SubscriberStep \/ PublisherStep \/ OwnerStep

Spec == Init /\ [][Next]_vars

(* Every upstream subgroup stream ends: MoQSession finishes or resets the  *)
(* consumer of each stream it reads.                                       *)
FairSpec == Spec /\ \A id \in Subgroups : WF_vars(reset(id))

-----------------------------------------------------------------------------
(* The two counters follow subscribers_ through every way in and out: the  *)
(* joins, Forward updates, errors, range ends, drains and re-entrant       *)
(* removals.  forwardChanged and onEmpty are decided from these counters.  *)
CountsAgree ==
  /\ forwardingSubscribers = Cardinality(Forwarding(subscribers))
  /\ passiveCount = Cardinality(subscribers \ Active(subscribers))

(* A subscriber's open consumers belong to subgroups the publisher still   *)
(* has open, so each of them will get its terminal call.                   *)
OpenIsRegistered == \A s \in subscribers : sub[s].subgroups \subseteq subgroups

(* A subscriber that was sent PUBLISH_DONE stays only for a stream that is *)
(* still open; without one, nothing would ever remove it.                  *)
DrainingHoldsStream ==
  \A s \in subscribers : sub[s].receivedPublishDone => sub[s].subgroups # {}

(* What the forwarder's fan-out is decided from agrees with the            *)
(* subscribers there are: the counters, the open consumers, the drains.    *)
FanOutAgrees == CountsAgree /\ OpenIsRegistered /\ DrainingHoldsStream

(* After PUBLISH_DONE a subscriber takes no new subgroup.                  *)
NoStreamAfterDone ==
  \A s \in subscribers \cap subscribers' :
    sub[s].receivedPublishDone => /\ sub'[s].receivedPublishDone
                                  /\ sub'[s].subgroups \subseteq sub[s].subgroups

(* A subgroup that a subscriber declined (STOP_SENDING, delivery timeout)  *)
(* is not opened for it again, by a later object or by a duplicate         *)
(* beginSubgroup, until an update has renewed its interest.                *)
DeclinedIsNotReopened ==
  \A s \in subscribers \cap subscribers' :
    sub[s].tombstoned \cap sub'[s].subgroups = {}

(* No step opens a stream for a subscriber that is done with it.           *)
StreamsNotReopened == [][NoStreamAfterDone /\ DeclinedIsNotReopened]_vars

(* A stream is opened for a subscriber only by an object its filter        *)
(* admits, whichever call opens it: the header of the subgroup, a first    *)
(* object, a late one after a Forward update or a moved range.             *)
OpensInRange ==
  [][\A s \in subscribers \cap subscribers' : \A id \in sub'[s].subgroups \ sub[s].subgroups :
       LET last == sg'[id].lastObjectId
           l == Loc(id[1], IF last = None THEN 0 ELSE last)
       IN sub'[s].start <= l /\ l <= sub'[s].end]_vars

(* A deferred PUBLISH_DONE always has a subgroup whose end releases it.    *)
DeferredDoneIsReleased == pendingPublishDone => draining /\ subgroups # {}

(* Once the source has ended and nothing is deferred, every subscriber     *)
(* that is still there has been told.                                      *)
EndIsTold ==
  alive /\ draining /\ ~pendingPublishDone =>
    \A s \in subscribers : sub[s].receivedPublishDone

(* An owner that releases the forwarder after the source ended leaves no   *)
(* subscriber without its PUBLISH_DONE.                                    *)
ReleaseTells == forgotten = {}

(* However the track ends (at once, deferred, with the forwarder), the end *)
(* reaches every subscriber.                                               *)
EndIsReleased == DeferredDoneIsReleased /\ EndIsTold /\ ReleaseTells

(* onEmpty is not lost: when the last active subscriber and the last       *)
(* subgroup are gone, in whichever order and from whichever call, the      *)
(* owner has heard of it.                                                  *)
NoLostOnEmpty ==
  alive /\ owed => Active(subscribers) # {} \/ subgroups # {}

(* While a subscriber forwards, upstream has been told to send since it    *)
(* was last told to stop or was refused a subgroup; or the refusal is      *)
(* remembered, and the next subscriber to ask for data restarts upstream.  *)
UpstreamSends == forwardingSubscribers > 0 => wanted \/ refusedUpstream

(* An outstanding NEW_GROUP_REQUEST asks for a group that has not begun:   *)
(* otherwise later requests would be held back by one already fulfilled.   *)
OutstandingIsUnmet ==
  outstandingNewGroupRequest # None /\ outstandingNewGroupRequest # 0 =>
    largest = None \/ outstandingNewGroupRequest > GroupOf(largest)

(* What the owner of the forwarder was told about demand is true.          *)
OwnerIsInformed == NoLostOnEmpty /\ UpstreamSends /\ OutstandingIsUnmet

(* After the source ended, every subscriber leaves in the end, even if     *)
(* late streams of the publisher keep opening and closing subgroups.       *)
DrainsOut == draining ~> subscribers = {}

-----------------------------------------------------------------------------
(* A statement of the code that the forwarder does not keep.               *)

(* "Last non-passive subscriber: onEmpty is about to fire, suppress the    *)
(* intermediate forwardChanged" (MoQForwarder.cpp:501): upstream is not    *)
(* left sending for a track that nobody forwards.                          *)
NobodyForwardsIsReported == wanted => forwardingSubscribers > 0

=============================================================================
