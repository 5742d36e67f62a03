------------------------- MODULE MoQForwarderProofs -------------------------
(***************************************************************************)
(* The safety properties of MoQForwarder, for any number of sessions,      *)
(* groups, objects, subgroups and filters.                                 *)
(***************************************************************************)
EXTENDS MoQForwarder, FiniteSetTheorems, TLAPS

(* Every call leaves a subscriber passive or active as it joined.          *)
PassiveKept == \A s \in subscribers : sub[s].passive = (s \in PassiveSessions)

-----------------------------------------------------------------------------
(* Locations.                                                              *)

(* A packed location is a natural number.                                  *)
LEMMA LocNat ==
  ASSUME NEW g \in Nat, NEW o \in Nat
  PROVE  Loc(g, o) \in Nat
<1>1. Width \in Nat
  BY ForwarderAssumption DEF Width
<1>2. g * Width \in Nat
  BY <1>1
<1> QED
  BY <1>2 DEF Loc

(* The group of a location is a natural number.                            *)
LEMMA GroupNat ==
  ASSUME NEW l \in Nat
  PROVE  GroupOf(l) \in Nat
<1>1. Width \in Nat /\ Width > 0
  BY ForwarderAssumption DEF Width
<1>2. l \div Width \in Nat
  BY <1>1
<1> QED
  BY <1>2, Zenon DEF GroupOf

(* Every filter resolves to a range of naturals, whatever the largest      *)
(* object is.                                                              *)
LEMMA ResolveNat ==
  ASSUME NEW f \in Filters, NEW lg \in Nat \cup {None}
  PROVE  resolve(f, lg).start \in Nat /\ resolve(f, lg).end \in Nat
<1>1. f.start \in Nat /\ f.end \in Nat /\ f.fieldCount \in 0 .. 4
  BY ForwarderAssumption, Zenon
<1>2. GroupOf(f.start) \in Nat /\ GroupOf(f.end) \in Nat
  BY <1>1, GroupNat, Zenon
<1>3. EndOfGroup(GroupOf(f.end)) \in Nat /\ kLocationMax \in Nat
  <2>1. MaxObject + 1 \in Nat /\ MaxGroup + 1 \in Nat
    BY ForwarderAssumption
  <2>2. Loc(GroupOf(f.end), MaxObject + 1) \in Nat
    BY <1>2, <2>1, LocNat, Zenon
  <2>3. Loc(MaxGroup + 1, 0) \in Nat
    BY <2>1, LocNat, Zenon
  <2> QED
    BY <2>2, <2>3, Zenon DEF EndOfGroup, kLocationMax
<1> DEFINE nextGroup == IF lg = None THEN 0 ELSE GroupOf(lg) + 1
           back == IF GroupOf(f.start) > nextGroup THEN 0 ELSE nextGroup - GroupOf(f.start)
<1>4. nextGroup \in Nat
  BY GroupNat DEF None
<1>5. back \in Nat
  BY <1>2, <1>4
<1>6. Loc(back, 0) \in Nat
  BY <1>5, LocNat, Zenon
<1>7. (IF lg = None THEN 0 ELSE lg + 1) \in Nat
  BY DEF None
<1> QED
  BY <1>1, <1>3, <1>6, <1>7 DEF resolve

(* The location of an object within the bounds is a natural number.       *)
LEMMA LocationNat ==
  ASSUME NEW id \in Subgroups, NEW o \in Objects
  PROVE  id[1] \in Nat /\ Loc(id[1], o) \in Nat
<1>1. id[1] \in Nat
  BY ForwarderAssumption DEF Subgroups, Groups
<1>2. o \in Nat
  BY ForwarderAssumption DEF Objects
<1> QED
  BY <1>1, <1>2, LocNat, ZenonT(30)

-----------------------------------------------------------------------------
(* What the visit of one subscriber decides.  u is its record before, v    *)
(* the outcome; G is what subgroups_ will be.                              *)

(* The outcome is well formed and leaves the kind of subscriber alone.     *)
Outcome(u, v) ==
  /\ v \in [u : Subscriber, gone : BOOLEAN, sent : BOOLEAN]
  /\ v.u.passive = u.passive
  /\ v.u.shouldForward = u.shouldForward
  /\ u.receivedPublishDone => v.u.receivedPublishDone

(* A subscriber that stays has open streams among G only, and still has    *)
(* one if it is draining.                                                  *)
Stays(v, G) ==
  ~v.gone => /\ v.u.subgroups \subseteq G
             /\ v.u.receivedPublishDone => v.u.subgroups # {}

(* What the invariant says of a subscriber between calls.                  *)
Settled(u, G) ==
  /\ u \in Subscriber
  /\ u.subgroups \subseteq G
  /\ u.receivedPublishDone => u.subgroups # {}

(* Closing a subscriber's consumer of a subgroup leaves it settled without *)
(* that subgroup.                                                          *)
LEMMA CloseOutcome ==
  ASSUME NEW u \in Subscriber, NEW id \in Subgroups, NEW G, u.subgroups \subseteq G
  PROVE  LET v == closeSubgroupForSubscriber(u, id)
         IN /\ Outcome(u, v) /\ Stays(v, G) /\ Stays(v, G \ {id})
            /\ ~v.gone => id \notin v.u.subgroups
            /\ v.sent = FALSE
BY ZenonT(30) DEF closeSubgroupForSubscriber, RetireIfDrained, shouldRemove, Retire, Keep,
       Outcome, Stays, Subscriber

(* A removal is an outcome that keeps nothing.                             *)
LEMMA RetireOutcome ==
  ASSUME NEW u \in Subscriber, NEW G
  PROVE  /\ Outcome(u, Retire(u)) /\ Stays(Retire(u), G) /\ Retire(u).gone
BY ZenonT(30) DEF Retire, Keep, Outcome, Stays

(* A subscriber a pass skips stays as it was.                              *)
LEMMA KeepOutcome ==
  ASSUME NEW G, NEW u, Settled(u, G)
  PROVE  Outcome(u, Keep(u)) /\ Stays(Keep(u), G)
BY Zenon DEF Keep, Outcome, Stays, Settled

(* Marking that the subscriber took the object changes nothing else.       *)
LEMMA SentOutcome ==
  ASSUME NEW u, NEW v, NEW G, Outcome(u, v), Stays(v, G)
  PROVE  LET w == [v EXCEPT !.sent = TRUE]
         IN Outcome(u, w) /\ Stays(w, G) /\ w.sent
BY ZenonT(30) DEF Outcome, Stays

(* A tombstone takes the consumer out and leaves the flags that are        *)
(* counted.                                                                *)
LEMMA TombstoneFields ==
  ASSUME NEW u \in Subscriber, NEW id \in Subgroups
  PROVE  LET w == Tombstone(u, id)
         IN /\ w \in Subscriber
            /\ w.passive = u.passive /\ w.shouldForward = u.shouldForward
            /\ w.receivedPublishDone = u.receivedPublishDone
            /\ w.subgroups = u.subgroups \ {id}
BY ZenonT(30) DEF Tombstone, Subscriber

(* A write to an open consumer, whatever the consumer answers, is an       *)
(* outcome.                                                                *)
LEMMA WriteOutcome ==
  ASSUME NEW u \in Subscriber, NEW id \in Subgroups, NEW closes \in BOOLEAN, NEW r,
         NEW G, u.subgroups \subseteq G, id \in u.subgroups
  PROVE  LET v == Write(u, id, closes, r)
         IN Outcome(u, v) /\ Stays(v, IF closes THEN G \ {id} ELSE G)
<1> DEFINE w == Tombstone(u, id)
           v == Write(u, id, closes, r)
<1>w. /\ w \in Subscriber
      /\ w.passive = u.passive /\ w.shouldForward = u.shouldForward
      /\ w.receivedPublishDone = u.receivedPublishDone
      /\ w.subgroups \subseteq G
  BY TombstoneFields, Zenon
<1>1. CASE r = "ok" /\ closes
  BY <1>1, CloseOutcome, ZenonT(30) DEF Write
<1>2. CASE r = "ok" /\ ~closes
  <2>1. v = Keep(u)
    BY <1>2, Zenon DEF Write
  <2> QED
    BY <1>2, <2>1, KeepOutcome, Zenon DEF Settled
<1>3. CASE r = "soft" /\ closes /\ ~shouldRemove(w)
  <2>1. v = closeSubgroupForSubscriber(w, id)
    BY <1>3, Zenon DEF Write
  <2>2. Outcome(w, v) /\ Stays(v, G \ {id})
    BY <1>w, <2>1, CloseOutcome, ZenonT(30)
  <2> QED
    BY <1>3, <1>w, <2>2, ZenonT(30) DEF Outcome
<1>4. CASE r = "soft" /\ ~(closes /\ ~shouldRemove(w))
  <2>1. v = RetireIfDrained(w)
    BY <1>4, Zenon DEF Write
  <2>2. CASE shouldRemove(w)
    <3>1. Outcome(w, v) /\ v.gone
      BY <1>w, <2>1, <2>2, RetireOutcome, Zenon DEF RetireIfDrained
    <3> QED
      BY <1>w, <3>1, Zenon DEF Outcome, Stays
  <2>3. CASE ~shouldRemove(w)
    <3>1. Settled(w, G)
      BY <1>w, <2>3, Zenon DEF Settled, shouldRemove
    <3>2. Outcome(w, v) /\ Stays(v, G) /\ ~closes
      BY <1>4, <2>1, <2>3, <3>1, KeepOutcome, Zenon DEF RetireIfDrained
    <3> QED
      BY <1>w, <3>2, Zenon DEF Outcome
  <2> QED
    BY <2>2, <2>3, Zenon
<1>5. CASE r # "ok" /\ r # "soft"
  <2>1. v = Retire(u)
    BY <1>5, Zenon DEF Write
  <2> QED
    BY <2>1, RetireOutcome, Zenon
<1> QED
  BY <1>1, <1>2, <1>3, <1>4, <1>5, Zenon

(* The visit of a SubgroupForwarder call: if the call ends the subgroup,   *)
(* or the data went to no one, the subscriber is left without a stream.    *)
LEMMA VisitOutcome ==
  ASSUME NEW G, NEW u, Settled(u, G), NEW id \in G, G \subseteq Subgroups,
         NEW obj, NEW closes \in BOOLEAN, NEW r, NEW lg
  PROVE  LET v == Visit(u, id, obj, closes, r, lg)
         IN /\ Outcome(u, v) /\ Stays(v, G)
            /\ closes \/ ~v.sent => Stays(v, G \ {id})
<1> DEFINE v == Visit(u, id, obj, closes, r, lg)
<1>u. u \in Subscriber /\ u.subgroups \subseteq G /\ id \in Subgroups
  BY Zenon DEF Settled
<1>1. CASE id \in u.subgroups
  <2>1. CASE lg > u.end
    <3>1. v = Retire(u)
      BY <1>1, <2>1, Zenon DEF Visit
    <3> QED
      BY <1>u, <3>1, RetireOutcome, Zenon
  <2>2. CASE ~(lg > u.end) /\ ~u.shouldForward
    <3>1. v = closeSubgroupForSubscriber(u, id)
      BY <1>1, <2>2, Zenon DEF Visit
    <3> QED
      BY <1>u, <3>1, CloseOutcome, ZenonT(30)
  <2>3. CASE ~(lg > u.end) /\ u.shouldForward
    <3>1. v = [Write(u, id, closes, r) EXCEPT !.sent = TRUE]
      BY <1>1, <2>3, Zenon DEF Visit
    <3>2. /\ Outcome(u, Write(u, id, closes, r))
          /\ Stays(Write(u, id, closes, r), IF closes THEN G \ {id} ELSE G)
      BY <1>1, <1>u, WriteOutcome, Zenon
    <3>3. Outcome(u, v) /\ Stays(v, IF closes THEN G \ {id} ELSE G) /\ v.sent
      BY <3>1, <3>2, SentOutcome, SMTT(30)
    <3> QED
      BY <3>3, Zenon DEF Stays
  <2> QED
    BY <2>1, <2>2, <2>3, Zenon
<1>2. CASE id \notin u.subgroups
  <2>k. Outcome(u, Keep(u)) /\ Stays(Keep(u), G) /\ Stays(Keep(u), G \ {id})
    <3>1. Settled(u, G \ {id})
      BY <1>2, Zenon DEF Settled
    <3> QED
      BY <3>1, KeepOutcome, Zenon
  <2>d. /\ Outcome(u, Retire(u))
        /\ Stays(Retire(u), G) /\ Stays(Retire(u), G \ {id})
    BY <1>u, RetireOutcome, Zenon
  <2> DEFINE w == [u EXCEPT !.subgroups = @ \cup {id}]
             x == Write(w, id, closes, r)
  <2>w. /\ w \in Subscriber /\ w.subgroups \subseteq G /\ id \in w.subgroups
        /\ w.passive = u.passive /\ w.shouldForward = u.shouldForward
        /\ w.receivedPublishDone = u.receivedPublishDone
    BY <1>u, Zenon DEF Subscriber
  <2>x. Outcome(w, x) /\ Stays(x, IF closes THEN G \ {id} ELSE G)
    BY <1>u, <2>w, WriteOutcome, ZenonT(30)
  <2>y. Outcome(u, x)
    BY <2>w, <2>x, Zenon DEF Outcome
  <2>z. LET z == [x EXCEPT !.sent = TRUE]
        IN Outcome(u, z) /\ Stays(z, IF closes THEN G \ {id} ELSE G) /\ z.sent
    BY <2>x, <2>y, SentOutcome, ZenonT(30)
  <2>1. v \in {Keep(u), Retire(u), [x EXCEPT !.sent = TRUE]}
    BY <1>2, Zenon DEF Visit
  <2> QED
    <3> HIDE DEF w, x
    <3>1. CASE v = Keep(u)
      BY <3>1, <2>k, Zenon
    <3>2. CASE v = Retire(u)
      BY <3>2, <2>d, Zenon
    <3>3. CASE v = [x EXCEPT !.sent = TRUE]
      BY <3>3, <2>z, Zenon DEF Stays
    <3> QED
      BY <2>1, <3>1, <3>2, <3>3, Zenon
<1> QED
  BY <1>1, <1>2, Zenon

(* The visit of a duplicate beginSubgroup ends the old consumer of the     *)
(* subgroup.                                                               *)
LEMMA VisitDuplicateOutcome ==
  ASSUME NEW G, NEW u, Settled(u, G), NEW id \in Subgroups, NEW lg
  PROVE  LET v == VisitDuplicate(u, id, lg)
         IN Outcome(u, v) /\ Stays(v, G \ {id})
<1> DEFINE v == VisitDuplicate(u, id, lg)
           w == [u EXCEPT !.subgroups = @ \ {id}]
<1>u. u \in Subscriber /\ u.subgroups \subseteq G
  BY Zenon DEF Settled
<1>1. CASE id \in u.subgroups
  <2>1. /\ w \in Subscriber /\ w.subgroups \subseteq G \ {id}
        /\ w.passive = u.passive /\ w.shouldForward = u.shouldForward
        /\ w.receivedPublishDone = u.receivedPublishDone
    BY <1>u, Zenon DEF Subscriber
  <2>2. v = RetireIfDrained(w)
    BY <1>1, Zenon DEF VisitDuplicate
  <2>3. CASE shouldRemove(w)
    <3>1. Outcome(w, v) /\ Stays(v, G \ {id})
      BY <2>1, <2>2, <2>3, RetireOutcome, Zenon DEF RetireIfDrained
    <3> QED
      BY <2>1, <3>1, Zenon DEF Outcome
  <2>4. CASE ~shouldRemove(w)
    <3>1. Settled(w, G \ {id})
      BY <2>1, <2>4, Zenon DEF Settled, shouldRemove
    <3>2. Outcome(w, v) /\ Stays(v, G \ {id})
      BY <2>2, <2>4, <3>1, KeepOutcome, Zenon DEF RetireIfDrained
    <3> QED
      BY <2>1, <3>2, Zenon DEF Outcome
  <2> QED
    BY <2>3, <2>4, Zenon
<1>2. CASE id \notin u.subgroups
  <2>1. Settled(u, G \ {id})
    BY <1>2, Zenon DEF Settled
  <2>2. v \in {Keep(u), Retire(u)}
    BY <1>2, Zenon DEF VisitDuplicate
  <2> QED
    BY <1>u, <2>1, <2>2, KeepOutcome, RetireOutcome, Zenon
<1> QED
  BY <1>1, <1>2, Zenon

(* The visit of beginSubgroup may add a consumer of the new subgroup, and  *)
(* nothing else.                                                           *)
LEMMA VisitBeginOutcome ==
  ASSUME NEW G, NEW u, Settled(u, G), NEW id \in Subgroups, NEW r, NEW lg
  PROVE  LET v == VisitBegin(u, id, r, lg)
         IN Outcome(u, v) /\ Stays(v, G \cup {id})
<1> DEFINE w == [u EXCEPT !.subgroups = @ \cup {id}]
<1>1. Settled(u, G \cup {id}) /\ u \in Subscriber
  BY Zenon DEF Settled
<1>2. /\ Settled(w, G \cup {id})
      /\ w.passive = u.passive /\ w.shouldForward = u.shouldForward
      /\ w.receivedPublishDone = u.receivedPublishDone
  BY Zenon DEF Settled, Subscriber
<1>3. Outcome(w, Keep(w)) /\ Stays(Keep(w), G \cup {id})
  BY <1>2, KeepOutcome, Zenon
<1>4. Outcome(u, Keep(w))
  BY <1>2, <1>3, Zenon DEF Outcome
<1>5. VisitBegin(u, id, r, lg) \in {Keep(u), Retire(u), Keep(w)}
  BY Zenon DEF VisitBegin
<1> QED
  <2> HIDE DEF w
  <2> QED BY <1>1, <1>3, <1>4, <1>5, KeepOutcome, RetireOutcome, SMTT(30)

(* The visit of objectStream or datagram opens nothing that outlives the   *)
(* call.                                                                   *)
LEMMA VisitSingleOutcome ==
  ASSUME NEW G, NEW u, Settled(u, G), NEW l, NEW r, NEW lg
  PROVE  LET v == VisitSingle(u, l, r, lg)
         IN Outcome(u, v) /\ Stays(v, G)
<1> DEFINE w == [Keep(u) EXCEPT !.sent = u.shouldForward]
<1>1. u \in Subscriber /\ u.shouldForward \in BOOLEAN
  BY Zenon DEF Settled, Subscriber
<1>2. Outcome(u, Keep(u)) /\ Stays(Keep(u), G)
  BY KeepOutcome, Zenon
<1>3. Outcome(u, w) /\ Stays(w, G)
  BY <1>1, <1>2, Zenon DEF Outcome, Stays
<1>4. VisitSingle(u, l, r, lg) \in {Keep(u), Retire(u), w}
  BY Zenon DEF VisitSingle
<1> QED
  <2> HIDE DEF w
  <2> QED BY <1>1, <1>2, <1>3, <1>4, RetireOutcome, SMTT(30)

(* drainSubscriber leaves only subscribers that have received              *)
(* PUBLISH_DONE.                                                           *)
LEMMA DrainOutcome ==
  ASSUME NEW G, NEW u, Settled(u, G), NEW reenters
  PROVE  LET v == drainSubscriber(u, reenters)
         IN Outcome(u, v) /\ Stays(v, G) /\ (~v.gone => v.u.receivedPublishDone)
<1> DEFINE w == [u EXCEPT !.receivedPublishDone = TRUE]
           v == Keep(w)
<1>1. u \in Subscriber /\ u.subgroups \subseteq G
  BY Zenon DEF Settled
<1>2. CASE reenters \/ u.subgroups = {}
  BY <1>1, <1>2, RetireOutcome, Zenon DEF drainSubscriber
<1>3. CASE ~(reenters \/ u.subgroups = {})
  <2>1. /\ Settled(w, G) /\ w.receivedPublishDone
        /\ w.passive = u.passive /\ w.shouldForward = u.shouldForward
    BY <1>1, <1>3, ZenonT(30) DEF Settled, Subscriber
  <2>2. Outcome(w, Keep(w)) /\ Stays(Keep(w), G) /\ Keep(w).u = w
    BY <2>1, KeepOutcome, ZenonT(30) DEF Keep
  <2>3. Outcome(u, v) /\ Stays(v, G) /\ v.u = w
    <3> HIDE DEF w
    <3> QED BY <2>1, <2>2 DEF Outcome, Stays
  <2>4. drainSubscriber(u, reenters) = v
    BY <1>3, Zenon DEF drainSubscriber
  <2> QED
    BY <2>1, <2>3, <2>4, ZenonT(30)
<1> QED
  BY <1>2, <1>3, Zenon

-----------------------------------------------------------------------------
(* Counting.                                                               *)

(* The cardinality of a finite set splits over a subset and the rest.      *)
LEMMA CountLeft ==
  ASSUME NEW S, NEW T \in SUBSET S, IsFiniteSet(S)
  PROVE  /\ IsFiniteSet(T) /\ IsFiniteSet(S \ T)
         /\ Cardinality(S) = Cardinality(T) + Cardinality(S \ T)
         /\ Cardinality(S) \in Nat /\ Cardinality(T) \in Nat
         /\ Cardinality(S \ T) \in Nat
<1>1. IsFiniteSet(T) /\ IsFiniteSet(S \ T)
  BY FS_Subset, Zenon
<1>2. T \cup (S \ T) = S /\ T \cap (S \ T) = {}
  BY Zenon
<1>3. Cardinality(S) = Cardinality(T) + Cardinality(S \ T) - 0
  BY <1>1, <1>2, FS_Union, FS_EmptySet, Zenon
<1> QED
  BY <1>1, <1>3, FS_CardinalityType, SMTT(30)

(* Adding a new element adds one to the cardinality.                       *)
LEMMA CountOne ==
  ASSUME NEW S, IsFiniteSet(S), NEW x, x \notin S
  PROVE  /\ Cardinality(S \cup {x}) = Cardinality(S) + 1
         /\ (S \cup {x}) \ {x} = S
BY FS_AddElement, Zenon

-----------------------------------------------------------------------------
(* The inductive invariant, by the variables it speaks of.                 *)

(* subscribers_, their records, and everything counted from them.          *)
FanOutType ==
  /\ subscribers \subseteq Sessions
  /\ sub \in [Sessions -> Subscriber]
  /\ subgroups \subseteq Subgroups
  /\ forwardingSubscribers \in Nat
  /\ passiveCount \in Nat
  /\ refusedUpstream \in BOOLEAN
  /\ draining \in BOOLEAN
  /\ pendingPublishDone \in BOOLEAN
  /\ alive \in BOOLEAN
  /\ wanted \in BOOLEAN
  /\ owed \in BOOLEAN
  /\ forgotten \subseteq Sessions

FanOutInv ==
  /\ FanOutType
  /\ PassiveKept /\ CountsAgree
  /\ OpenIsRegistered /\ DrainingHoldsStream
  /\ DeferredDoneIsReleased /\ EndIsTold /\ ReleaseTells
  /\ NoLostOnEmpty /\ UpstreamSends

(* largest_ and outstandingNewGroupRequest_.                               *)
LargestInv ==
  /\ largest \in Nat \cup {None}
  /\ outstandingNewGroupRequest \in NewGroupRequests \cup {None}
  /\ OutstandingIsUnmet

SubgroupType == sg \in [Subgroups -> SubgroupForwarder]

IInv == FanOutInv /\ LargestInv /\ SubgroupType

(* Between two calls every subscriber is settled.                          *)
LEMMA SettledNow ==
  ASSUME FanOutInv
  PROVE  \A s \in subscribers : Settled(sub[s], subgroups)
BY Zenon DEF FanOutInv, FanOutType, OpenIsRegistered, DrainingHoldsStream, Settled

(* The default Subscriber has its type.                                    *)
LEMMA NoSubscriberType == NoSubscriber \in Subscriber
BY Zenon DEF NoSubscriber, Subscriber

(* Removals: the counters stay right, onEmpty is not lost, and upstream    *)
(* is still told to send if someone forwards.                              *)
LEMMA DepartStep ==
  ASSUME FanOutInv, NEW stay \in SUBSET subscribers, NEW G \in SUBSET Subgroups,
         NEW checked \in BOOLEAN, NEW refuse \in BOOLEAN,
         Depart(stay, G, checked, refuse),
         alive' = alive, alive,
         ~checked => G = subgroups /\ stay = subscribers,
         \A s \in stay : sub'[s].passive = sub[s].passive /\ sub'[s].shouldForward = sub[s].shouldForward
  PROVE  /\ subscribers' = stay /\ subgroups' = G
         /\ forwardingSubscribers' \in Nat /\ passiveCount' \in Nat
         /\ refusedUpstream' \in BOOLEAN /\ wanted' \in BOOLEAN /\ owed' \in BOOLEAN
         /\ CountsAgree' /\ NoLostOnEmpty' /\ UpstreamSends'
<1> DEFINE left == subscribers \ stay
           P(S) == S \ Active(S)
<1>1. subscribers' = stay /\ subgroups' = G
  BY Zenon DEF Depart
<1>2. IsFiniteSet(subscribers)
  BY ForwarderAssumption, FS_Subset, ZenonT(30) DEF FanOutInv, FanOutType
<1>3. Forwarding(subscribers)' = Forwarding(stay) /\ Active(subscribers)' = Active(stay)
  BY <1>1, ZenonT(30) DEF Forwarding, Active
<1>4. /\ Forwarding(left) \subseteq Forwarding(subscribers)
      /\ Forwarding(subscribers) \ Forwarding(left) = Forwarding(stay)
      /\ P(left) \subseteq P(subscribers)
      /\ P(subscribers) \ P(left) = P(stay)
  BY Zenon DEF Forwarding, Active
<1>5. /\ IsFiniteSet(Forwarding(subscribers)) /\ IsFiniteSet(P(subscribers))
      /\ IsFiniteSet(Forwarding(stay))
  <2>1. Forwarding(subscribers) \in SUBSET subscribers /\ P(subscribers) \in SUBSET subscribers
        /\ Forwarding(stay) \in SUBSET subscribers
    BY Zenon DEF Forwarding, Active
  <2> QED
    BY <1>2, <2>1, FS_Subset, Zenon
<1>6. /\ forwardingSubscribers' = Cardinality(Forwarding(stay))
      /\ forwardingSubscribers' \in Nat
      /\ Cardinality(Forwarding(left)) \in Nat
  <2>1. Cardinality(Forwarding(subscribers)) = Cardinality(Forwarding(left)) + Cardinality(Forwarding(stay))
        /\ Cardinality(Forwarding(left)) \in Nat /\ Cardinality(Forwarding(stay)) \in Nat
    <3> DEFINE S == Forwarding(subscribers)
               T == Forwarding(left)
    <3>1. T \in SUBSET S /\ IsFiniteSet(S) /\ S \ T = Forwarding(stay)
      BY <1>4, <1>5, ZenonT(30)
    <3> HIDE DEF S, T
    <3>2. /\ Cardinality(S) = Cardinality(T) + Cardinality(S \ T)
          /\ Cardinality(T) \in Nat /\ Cardinality(S \ T) \in Nat
      BY <3>1, CountLeft, ZenonT(30)
    <3> QED
      BY <3>1, <3>2, ZenonT(30) DEF S, T
  <2>2. forwardingSubscribers' = forwardingSubscribers - Cardinality(Forwarding(left))
    BY ZenonT(30) DEF Depart
  <2>3. forwardingSubscribers = Cardinality(Forwarding(subscribers))
    BY Zenon DEF FanOutInv, CountsAgree
  <2> QED
    BY <2>1, <2>2, <2>3, SMTT(30)
<1>7. passiveCount' = Cardinality(P(stay)) /\ passiveCount' \in Nat
  <2>1. Cardinality(P(subscribers)) = Cardinality(P(left)) + Cardinality(P(stay))
        /\ Cardinality(P(left)) \in Nat /\ Cardinality(P(stay)) \in Nat
    <3> DEFINE S == P(subscribers)
               T == P(left)
    <3>1. T \in SUBSET S /\ IsFiniteSet(S) /\ S \ T = P(stay)
      BY <1>4, <1>5, ZenonT(30)
    <3> HIDE DEF S, T, P
    <3>2. /\ Cardinality(S) = Cardinality(T) + Cardinality(S \ T)
          /\ Cardinality(T) \in Nat /\ Cardinality(S \ T) \in Nat
      BY <3>1, CountLeft, ZenonT(30)
    <3> QED
      BY <3>1, <3>2, ZenonT(30) DEF S, T
  <2>2. passiveCount' = passiveCount - Cardinality(P(left))
    BY Zenon DEF Depart
  <2>3. passiveCount = Cardinality(P(subscribers))
    BY Zenon DEF FanOutInv, CountsAgree
  <2> QED
    BY <2>1, <2>2, <2>3
<1>8. CountsAgree'
  BY <1>1, <1>3, <1>6, <1>7, Zenon DEF CountsAgree
<1>9. NoLostOnEmpty'
  <2>1. CASE checked
    BY <1>1, <1>3, <2>1, ZenonT(30) DEF NoLostOnEmpty, Depart
  <2>2. CASE ~checked
    BY <1>1, <1>3, <2>2, ZenonT(30) DEF NoLostOnEmpty, Depart, FanOutInv
  <2> QED
    BY <2>1, <2>2, ZenonT(30)
<1>10. UpstreamSends'
  <2> SUFFICES ASSUME forwardingSubscribers' > 0
               PROVE  wanted' \/ refusedUpstream'
    BY Zenon DEF UpstreamSends
  <2>1. Forwarding(stay) # {}
    <3>1. Cardinality(Forwarding(stay)) # 0
      BY <1>6, SMTT(30)
    <3> QED
      BY <3>1, FS_EmptySet, Zenon
  <2>2. Active(stay) # {}
    BY <2>1, Zenon DEF Forwarding
  <2>3. forwardingSubscribers > 0 /\ forwardingSubscribers # Cardinality(Forwarding(left))
    <3>1. forwardingSubscribers' = forwardingSubscribers - Cardinality(Forwarding(left))
      BY ZenonT(30) DEF Depart
    <3>2. forwardingSubscribers \in Nat
      BY Zenon DEF FanOutInv, FanOutType
    <3> QED
      BY <1>6, <3>1, <3>2, SMTT(30)
  <2>4. wanted \/ refusedUpstream
    BY <2>3, Zenon DEF FanOutInv, UpstreamSends
  <2>5. wanted' = (wanted /\ ~refuse)
    BY <2>2, <2>3, ZenonT(30) DEF Depart
  <2>6. refusedUpstream' = (refusedUpstream \/ refuse)
    BY Zenon DEF Depart
  <2> QED
    BY <2>4, <2>5, <2>6, ZenonT(30)
<1>11. refusedUpstream' \in BOOLEAN /\ wanted' \in BOOLEAN /\ owed' \in BOOLEAN
  BY ZenonT(30) DEF Depart
<1> QED
  BY <1>1, <1>6, <1>7, <1>8, <1>9, <1>10, <1>11, Zenon

(* The end of every call that visits subscribers.                          *)
LEMMA SettleStep ==
  ASSUME FanOutInv, alive, alive' = alive,
         NEW fate, NEW G \in SUBSET Subgroups,
         NEW checked \in BOOLEAN, NEW refuse \in BOOLEAN,
         Settle(fate, G, checked, refuse),
         \A s \in subscribers : Outcome(sub[s], fate[s]),
         \/ checked /\ pendingPublishDone /\ G = {}
         \/ \A s \in subscribers : Stays(fate[s], G),
         ~checked => G = subgroups /\ \A s \in subscribers : ~fate[s].gone,
         draining' \in BOOLEAN, draining => draining',
         \/ draining' = draining
         \/ \A s \in subscribers : ~fate[s].gone => fate[s].u.receivedPublishDone
  PROVE  FanOutInv'
<1> DEFINE released == checked /\ pendingPublishDone /\ G = {}
           stay == IF released THEN {} ELSE {s \in subscribers : ~fate[s].gone}
<1> USE DEF FanOutInv
<1>1. stay \in SUBSET subscribers /\ Depart(stay, G, checked, refuse)
  BY ZenonT(30) DEF Settle
<1>2. subscribers' = stay
  BY <1>1, ZenonT(30) DEF Depart
<1>3. sub' = [s \in Sessions |-> IF s \in stay THEN fate[s].u ELSE NoSubscriber]
  BY <1>2, ZenonT(30) DEF Settle
<1>4. stay \subseteq Sessions
  BY <1>1, ZenonT(30) DEF FanOutType
<1>5. \A s \in stay : sub'[s] = fate[s].u
  <2> HIDE DEF stay
  <2> QED BY <1>3, <1>4, ZenonT(30)
<1>6. \A s \in stay : ~fate[s].gone /\ Outcome(sub[s], fate[s]) /\ Stays(fate[s], G)
  BY ZenonT(30)
<1>7. ~checked => G = subgroups /\ stay = subscribers
  BY Zenon
<1> HIDE DEF stay
<1>8. \A s \in stay : sub'[s].passive = sub[s].passive /\ sub'[s].shouldForward = sub[s].shouldForward
  BY <1>5, <1>6, Zenon DEF Outcome
<1>9. /\ subscribers' = stay /\ subgroups' = G
      /\ forwardingSubscribers' \in Nat /\ passiveCount' \in Nat
      /\ refusedUpstream' \in BOOLEAN /\ wanted' \in BOOLEAN /\ owed' \in BOOLEAN
      /\ CountsAgree' /\ NoLostOnEmpty' /\ UpstreamSends'
  BY <1>1, <1>7, <1>8, DepartStep, Zenon
<1>10. sub' \in [Sessions -> Subscriber]
  <2>1. \A s \in Sessions : s \in stay => fate[s].u \in Subscriber
    BY <1>6, Zenon DEF Outcome
  <2> QED
    BY <1>3, <2>1, NoSubscriberType, Zenon
<1>11. PassiveKept'
  BY <1>1, <1>8, <1>9, Zenon DEF PassiveKept
<1>12. OpenIsRegistered' /\ DrainingHoldsStream'
  BY <1>5, <1>6, <1>9, ZenonT(30) DEF OpenIsRegistered, DrainingHoldsStream, Stays
<1>13. pendingPublishDone' = (pendingPublishDone /\ ~released)
  BY Zenon DEF Settle, FanOutType
<1>14. DeferredDoneIsReleased'
  <2> SUFFICES ASSUME pendingPublishDone'
               PROVE  draining' /\ G # {}
    BY <1>9, ZenonT(30) DEF DeferredDoneIsReleased
  <2>1. pendingPublishDone /\ ~released
    BY <1>13, ZenonT(30)
  <2>2. draining /\ subgroups # {}
    BY <2>1, Zenon DEF DeferredDoneIsReleased
  <2> QED
    BY <2>1, <2>2, Zenon
<1>15. EndIsTold'
  <2> SUFFICES ASSUME draining', ~pendingPublishDone', NEW s \in stay
               PROVE  sub'[s].receivedPublishDone
    BY <1>9, ZenonT(30) DEF EndIsTold
  <2>1. ~pendingPublishDone
    <3>1. ~released
      BY ZenonT(30) DEF stay
    <3> QED
      BY <1>13, <3>1, ZenonT(30)
  <2>2. s \in subscribers /\ ~fate[s].gone /\ Outcome(sub[s], fate[s]) /\ sub'[s] = fate[s].u
    BY <1>1, <1>5, <1>6, ZenonT(30)
  <2>3. CASE draining' = draining
    <3>1. sub[s].receivedPublishDone
      BY <2>1, <2>2, <2>3, Zenon DEF EndIsTold
    <3> QED
      BY <2>2, <3>1, Zenon DEF Outcome
  <2>4. CASE \A x \in subscribers : ~fate[x].gone => fate[x].u.receivedPublishDone
    BY <2>2, <2>4, ZenonT(30)
  <2> QED
    BY <2>3, <2>4, ZenonT(30)
<1>16. ReleaseTells' /\ forgotten' \subseteq Sessions
  BY ZenonT(30) DEF Settle, ReleaseTells, FanOutType
<1>17. FanOutType'
  <2>1. pendingPublishDone' \in BOOLEAN
    BY <1>13, Zenon DEF FanOutType
  <2>2. subscribers' \subseteq Sessions /\ subgroups' \subseteq Subgroups
    BY <1>4, <1>9, ZenonT(30)
  <2>3. alive' \in BOOLEAN
    BY Zenon DEF FanOutType
  <2> QED
    BY <1>9, <1>10, <1>16, <2>1, <2>2, <2>3, Zenon DEF FanOutType
<1> QED
  BY <1>9, <1>11, <1>12, <1>14, <1>15, <1>16, <1>17, ZenonT(30)

(* updateLargest clears a request that the new group fulfils.              *)
LEMMA LargestStep ==
  ASSUME LargestInv, NEW l \in Nat, updateLargest(l)
  PROVE  LargestInv'
<1> USE DEF LargestInv, updateLargest, OutstandingIsUnmet, None
<1>1. GroupOf(l) \in Nat /\ (largest # None => GroupOf(largest) \in Nat)
  BY GroupNat, Zenon
<1>2. outstandingNewGroupRequest' \in NewGroupRequests \cup {None}
  BY Zenon
<1>3. largest' \in Nat \cup {None}
  BY Zenon
<1>4. outstandingNewGroupRequest \in Nat \cup {None}
  BY ForwarderAssumption, Zenon
<1>5. OutstandingIsUnmet'
  <2>1. CASE l > largest /\ (largest = None \/ GroupOf(l) > GroupOf(largest))
    BY <2>1, Zenon
  <2>2. CASE l > largest /\ ~(largest = None \/ GroupOf(l) > GroupOf(largest))
    <3>1. largest' = l /\ outstandingNewGroupRequest' = outstandingNewGroupRequest
      BY <2>2, Zenon
    <3>2. largest # None /\ GroupOf(l) <= GroupOf(largest)
      BY <1>1, <2>2, SMTT(30)
    <3> QED
      BY <1>1, <1>4, <3>1, <3>2, SMTT(30)
  <2>3. CASE ~(l > largest)
    BY <2>3, Zenon
  <2> QED
    BY <2>1, <2>2, <2>3, Zenon
<1> QED
  BY <1>2, <1>3, <1>5, Zenon

(* tryProcessNewGroupRequest records only requests for a group that has    *)
(* not begun.                                                              *)
LEMMA RequestStep ==
  ASSUME LargestInv, NEW value \in NewGroupRequests \cup {None},
         largest' = largest,
         outstandingNewGroupRequest' = tryProcessNewGroupRequest(value)
  PROVE  LargestInv'
<1> USE DEF LargestInv, OutstandingIsUnmet, None
<1>1. CASE outstandingNewGroupRequest' = outstandingNewGroupRequest
  BY <1>1, Zenon
<1>2. CASE outstandingNewGroupRequest' # outstandingNewGroupRequest
  <2>1. /\ outstandingNewGroupRequest' = value /\ value # None
        /\ value = 0 \/ largest = None \/ ~(value <= GroupOf(largest))
    BY <1>2, Zenon DEF tryProcessNewGroupRequest
  <2>2. value \in Nat
    BY <2>1, ForwarderAssumption, Zenon
  <2>3. largest # None => GroupOf(largest) \in Nat
    BY GroupNat, Zenon
  <2> QED
    BY <2>1, <2>2, <2>3, SMTT(30)
<1> QED
  BY <1>1, <1>2, Zenon

(* The variables a call leaves alone if no one joins, leaves or changes    *)
(* its forward state.                                                      *)
FanOutCounts ==
  <<subscribers, subgroups, forwardingSubscribers, passiveCount, refusedUpstream,
    pendingPublishDone, alive, wanted, owed, forgotten>>

(* The records agree on what the invariant reads.                          *)
SameSubscriber(u, v) ==
  /\ v \in Subscriber
  /\ v.passive = u.passive
  /\ v.subgroups = u.subgroups
  /\ v.receivedPublishDone = u.receivedPublishDone

(* A change of a range or of a request id touches nothing the fan-out      *)
(* counts.                                                                 *)
LEMMA QuietStep ==
  ASSUME FanOutInv, UNCHANGED <<FanOutCounts, draining>>,
         sub' \in [Sessions -> Subscriber],
         \A s \in subscribers : /\ SameSubscriber(sub[s], sub'[s])
                                /\ sub'[s].shouldForward = sub[s].shouldForward
  PROVE  FanOutInv'
<1> USE DEF FanOutInv, FanOutCounts
<1>1. FanOutType'
  BY Zenon DEF FanOutType
<1>2. Active(subscribers)' = Active(subscribers) /\ Forwarding(subscribers)' = Forwarding(subscribers)
  BY ZenonT(30) DEF Active, Forwarding, SameSubscriber
<1>3. CountsAgree' /\ NoLostOnEmpty' /\ UpstreamSends'
  BY <1>2, ZenonT(30) DEF CountsAgree, NoLostOnEmpty, UpstreamSends
<1>4. PassiveKept' /\ OpenIsRegistered' /\ DrainingHoldsStream'
  BY ZenonT(30) DEF PassiveKept, OpenIsRegistered, DrainingHoldsStream, SameSubscriber
<1>5. DeferredDoneIsReleased' /\ EndIsTold' /\ ReleaseTells'
  BY ZenonT(30) DEF DeferredDoneIsReleased, EndIsTold, ReleaseTells, SameSubscriber
<1> QED
  BY <1>1, <1>3, <1>4, <1>5, ZenonT(30)

(* Any set of subscribers is finite.                                       *)
LEMMA FinitelyMany ==
  ASSUME FanOutInv, NEW S \in SUBSET subscribers
  PROVE  IsFiniteSet(S) /\ Cardinality(S) \in Nat
<1>1. S \in SUBSET Sessions
  BY Zenon DEF FanOutInv, FanOutType
<1> QED
  BY <1>1, ForwarderAssumption, FS_Subset, FS_CardinalityType, Zenon

(* updateForwardState keeps the count of forwarding subscribers and what   *)
(* upstream was told in step.                                              *)
LEMMA ForwardStep ==
  ASSUME FanOutInv, NEW s \in subscribers \ PassiveSessions, NEW u, NEW forward \in BOOLEAN,
         SameSubscriber(sub[s], u), u.shouldForward = sub[s].shouldForward,
         updateForwardState(s, u, forward),
         UNCHANGED <<subscribers, subgroups, passiveCount, pendingPublishDone, alive,
                     owed, forgotten, draining>>
  PROVE  FanOutInv'
<1> DEFINE F == Forwarding(subscribers)
<1> USE DEF FanOutInv
<1>1. /\ s \in Sessions /\ u \in Subscriber /\ u.shouldForward \in BOOLEAN
      /\ subscribers \subseteq Sessions /\ sub \in [Sessions -> Subscriber]
  BY ZenonT(30) DEF FanOutType, SameSubscriber, Subscriber
<1> DEFINE w == [u EXCEPT !.shouldForward = forward]
<1>2. w \in Subscriber /\ SameSubscriber(sub[s], w) /\ w.shouldForward = forward
  BY <1>1, Zenon DEF Subscriber, SameSubscriber
<1>3. /\ sub' \in [Sessions -> Subscriber] /\ sub'[s] = w
      /\ \A x \in Sessions \ {s} : sub'[x] = sub[x]
  <2> HIDE DEF w
  <2>1. sub' = [sub EXCEPT ![s] = w]
    BY Zenon DEF updateForwardState, w
  <2> QED
    BY <1>1, <1>2, <2>1, Zenon
<1> HIDE DEF w
<1>4. \A x \in subscribers : SameSubscriber(sub[x], sub'[x])
  BY <1>1, <1>2, <1>3, Zenon DEF SameSubscriber
<1>5. Active(subscribers)' = Active(subscribers) /\ ~sub[s].passive /\ ~sub'[s].passive
  BY <1>1, <1>2, <1>3, <1>4, ZenonT(30) DEF Active, SameSubscriber, PassiveKept
<1>6. Forwarding(subscribers)' = IF forward THEN F \cup {s} ELSE F \ {s}
  BY <1>1, <1>2, <1>3, <1>5, ZenonT(30) DEF Active, Forwarding
<1>7. s \in F <=> u.shouldForward
  BY <1>5, ZenonT(30) DEF Active, Forwarding
<1>8. /\ IsFiniteSet(F) /\ Cardinality(F) \in Nat /\ forwardingSubscribers = Cardinality(F)
  <2>1. F \in SUBSET subscribers
    BY ZenonT(30) DEF Forwarding, Active
  <2> QED
    BY <2>1, FinitelyMany, ZenonT(30) DEF CountsAgree
<1> HIDE DEF F
<1>9. /\ forwardingSubscribers' \in Nat
      /\ forwardingSubscribers' = Cardinality(Forwarding(subscribers)')
      /\ UpstreamSends'
      /\ refusedUpstream' \in BOOLEAN /\ wanted' \in BOOLEAN
  <2>w. wanted \in BOOLEAN /\ refusedUpstream \in BOOLEAN /\ UpstreamSends
    BY Zenon DEF FanOutType
  <2>1. CASE forward /\ ~u.shouldForward
    <3>1. addForwardingSubscriber
      BY <2>1, Zenon DEF updateForwardState
    <3>2. Cardinality(F \cup {s}) = Cardinality(F) + 1
      BY <1>7, <1>8, <2>1, CountOne, Zenon
    <3>3. Forwarding(subscribers)' = F \cup {s}
      BY <1>6, <2>1, Zenon
    <3>4. forwardingSubscribers' = Cardinality(Forwarding(subscribers)') /\ forwardingSubscribers' \in Nat
      BY <1>8, <3>1, <3>2, <3>3, SMTT(30) DEF addForwardingSubscriber
    <3>5. forwardingSubscribers = 0 \/ wanted \/ refusedUpstream
      BY <1>8, <2>w DEF UpstreamSends
    <3>6. wanted' /\ wanted' \in BOOLEAN /\ refusedUpstream' \in BOOLEAN
      BY <3>1, <3>5, ZenonT(30) DEF addForwardingSubscriber
    <3> QED
      BY <3>4, <3>6, ZenonT(30) DEF UpstreamSends
  <2>2. CASE forward /\ u.shouldForward
    <3>1. renewForwarding
      BY <2>2, Zenon DEF updateForwardState
    <3>2. Forwarding(subscribers)' = F
      BY <1>6, <1>7, <2>2, ZenonT(30)
    <3> QED
      BY <1>8, <3>1, <3>2, <2>w, ZenonT(30) DEF renewForwarding, UpstreamSends
  <2>3. CASE ~forward /\ u.shouldForward
    <3>1. removeForwardingSubscriber
      BY <2>3, Zenon DEF updateForwardState
    <3>2. s \in F /\ Forwarding(subscribers)' = F \ {s}
      BY <1>6, <1>7, <2>3, Zenon
    <3>3. Cardinality(F \ {s}) = Cardinality(F) - 1 /\ Cardinality(F \ {s}) \in Nat
      BY <1>8, <3>2, FS_RemoveElement, FS_CardinalityType, Zenon
    <3> QED
      BY <1>8, <3>1, <3>2, <3>3, <2>w DEF removeForwardingSubscriber, UpstreamSends
  <2>4. CASE ~forward /\ ~u.shouldForward
    <3>1. UNCHANGED <<forwardingSubscribers, refusedUpstream, wanted>>
      BY <2>4, Zenon DEF updateForwardState
    <3>2. Forwarding(subscribers)' = F
      BY <1>6, <1>7, <2>4, Zenon
    <3> QED
      BY <1>8, <3>1, <3>2, <2>w, ZenonT(30) DEF UpstreamSends
  <2> QED
    BY <1>1, <2>1, <2>2, <2>3, <2>4, Zenon
<1>10. CountsAgree' /\ NoLostOnEmpty'
  BY <1>5, <1>9, Zenon DEF CountsAgree, NoLostOnEmpty
<1>11. PassiveKept' /\ OpenIsRegistered' /\ DrainingHoldsStream'
  BY <1>4, Zenon DEF PassiveKept, OpenIsRegistered, DrainingHoldsStream, SameSubscriber
<1>12. DeferredDoneIsReleased' /\ EndIsTold' /\ ReleaseTells'
  BY <1>4, Zenon DEF DeferredDoneIsReleased, EndIsTold, ReleaseTells, SameSubscriber
<1>13. FanOutType'
  BY <1>3, <1>9, ZenonT(30) DEF FanOutType
<1> QED
  BY <1>9, <1>10, <1>11, <1>12, <1>13, Zenon

(* A subscriber that joins starts with no stream, and the forwarder is not *)
(* draining.                                                               *)
LEMMA JoinStep ==
  ASSUME FanOutInv, NEW s \in Sessions, NEW range, NEW forward \in BOOLEAN,
         NEW named \in BOOLEAN, range.start \in Nat, range.end \in Nat,
         Join(s, range, forward, named)
  PROVE  FanOutInv'
<1> DEFINE passive == s \in PassiveSessions
           w == [NoSubscriber EXCEPT
                   !.start = range.start, !.end = range.end,
                   !.shouldForward = forward, !.named = named,
                   !.passive = passive]
           F == Forwarding(subscribers)
           P == subscribers \ Active(subscribers)
<1> USE DEF FanOutInv
<1>1. /\ w \in Subscriber /\ w.passive = passive /\ w.shouldForward = forward
      /\ w.subgroups = {} /\ w.receivedPublishDone = FALSE
  <2>1. passive \in BOOLEAN
    OBVIOUS
  <2> HIDE DEF passive
  <2> QED
    BY <2>1, ZenonT(30) DEF NoSubscriber, Subscriber
<1>2. /\ s \notin subscribers /\ subscribers' = subscribers \cup {s}
      /\ sub' = [sub EXCEPT ![s] = w] /\ ~draining /\ alive
      /\ UNCHANGED <<subgroups, draining, pendingPublishDone, alive, forgotten>>
  BY Zenon DEF Join
<1> HIDE DEF w
<1>3. /\ sub' \in [Sessions -> Subscriber] /\ sub'[s] = w
      /\ \A x \in subscribers : sub'[x] = sub[x]
      /\ subscribers' \subseteq Sessions
  BY <1>1, <1>2, Zenon DEF FanOutType
<1>4. F \in SUBSET subscribers /\ P \in SUBSET subscribers
  BY Zenon DEF Forwarding, Active
<1>5. /\ IsFiniteSet(F) /\ Cardinality(F) \in Nat /\ forwardingSubscribers = Cardinality(F)
      /\ IsFiniteSet(P) /\ Cardinality(P) \in Nat /\ passiveCount = Cardinality(P)
      /\ s \notin F /\ s \notin P
  BY <1>2, <1>4, FinitelyMany, ZenonT(30) DEF CountsAgree
<1>6. /\ Forwarding(subscribers)' = IF forward /\ s \notin PassiveSessions THEN F \cup {s} ELSE F
      /\ (subscribers \ Active(subscribers))' = IF s \in PassiveSessions THEN P \cup {s} ELSE P
      /\ Active(subscribers) \subseteq Active(subscribers)'
      /\ s \notin PassiveSessions => s \in Active(subscribers)'
  BY <1>1, <1>2, <1>3, ZenonT(30) DEF Forwarding, Active
<1> HIDE DEF F, P
<1>7. /\ forwardingSubscribers' \in Nat /\ passiveCount' \in Nat
      /\ CountsAgree' /\ UpstreamSends' /\ NoLostOnEmpty'
      /\ refusedUpstream' \in BOOLEAN /\ wanted' \in BOOLEAN /\ owed' \in BOOLEAN
  <2>w. /\ wanted \in BOOLEAN /\ refusedUpstream \in BOOLEAN /\ owed \in BOOLEAN
        /\ UpstreamSends /\ NoLostOnEmpty
    BY Zenon DEF FanOutType
  <2>1. CASE s \in PassiveSessions
    <3>1. passiveCount' = passiveCount + 1
          /\ UNCHANGED <<forwardingSubscribers, refusedUpstream, wanted, owed>>
      BY <2>1, Zenon DEF Join
    <3>2. CountsAgree' /\ forwardingSubscribers' \in Nat /\ passiveCount' \in Nat
      BY <1>5, <1>6, <2>1, <3>1, CountOne DEF CountsAgree
    <3> QED
      BY <1>2, <1>6, <2>w, <3>1, <3>2, ZenonT(30) DEF UpstreamSends, NoLostOnEmpty
  <2>2. CASE s \notin PassiveSessions /\ ~forward
    <3>1. owed' = TRUE
          /\ UNCHANGED <<passiveCount, forwardingSubscribers, refusedUpstream, wanted>>
      BY <2>2, Zenon DEF Join
    <3>2. CountsAgree' /\ forwardingSubscribers' \in Nat /\ passiveCount' \in Nat
      BY <1>5, <1>6, <2>2, <3>1, Zenon DEF CountsAgree
    <3> QED
      BY <1>6, <2>2, <2>w, <3>1, <3>2, ZenonT(30) DEF UpstreamSends, NoLostOnEmpty
  <2>3. CASE s \notin PassiveSessions /\ forward
    <3>1. owed' = TRUE /\ UNCHANGED passiveCount /\ addForwardingSubscriber
      BY <2>3, Zenon DEF Join
    <3>2. CountsAgree' /\ forwardingSubscribers' \in Nat /\ passiveCount' \in Nat
      <4>1. /\ Forwarding(subscribers)' = F \cup {s}
            /\ (subscribers \ Active(subscribers))' = P
        BY <1>6, <2>3, Zenon
      <4>2. Cardinality(F \cup {s}) = Cardinality(F) + 1
        BY <1>5, CountOne, Zenon
      <4>3. forwardingSubscribers' = Cardinality(Forwarding(subscribers)') /\ forwardingSubscribers' \in Nat
        BY <1>5, <3>1, <4>1, <4>2, SMTT(30) DEF addForwardingSubscriber
      <4>4. passiveCount' = Cardinality((subscribers \ Active(subscribers))') /\ passiveCount' \in Nat
        BY <1>5, <3>1, <4>1, Zenon
      <4> QED
        BY <4>3, <4>4, ZenonT(30) DEF CountsAgree
    <3>3. forwardingSubscribers = 0 \/ wanted \/ refusedUpstream
      BY <1>5, <2>w, SMTT(30) DEF UpstreamSends
    <3>4. wanted' /\ wanted' \in BOOLEAN /\ refusedUpstream' \in BOOLEAN
      BY <3>1, <3>3, ZenonT(30) DEF addForwardingSubscriber
    <3> QED
      BY <1>6, <2>3, <3>1, <3>2, <3>4, ZenonT(30) DEF UpstreamSends, NoLostOnEmpty
  <2> QED
    BY <2>1, <2>2, <2>3, Zenon
<1>8. PassiveKept' /\ OpenIsRegistered' /\ DrainingHoldsStream'
  BY <1>1, <1>2, <1>3, ZenonT(30) DEF PassiveKept, OpenIsRegistered, DrainingHoldsStream
<1>9. DeferredDoneIsReleased' /\ EndIsTold' /\ ReleaseTells'
  BY <1>2, Zenon DEF DeferredDoneIsReleased, EndIsTold, ReleaseTells
<1>10. FanOutType'
  BY <1>2, <1>3, <1>7, Zenon DEF FanOutType
<1> QED
  BY <1>7, <1>8, <1>9, <1>10, Zenon

(* ~MoQForwarder leaves nobody without PUBLISH_DONE once the source has    *)
(* ended.                                                                  *)
LEMMA DestroyStep ==
  ASSUME FanOutInv, destroy
  PROVE  FanOutInv'
<1> USE DEF FanOutInv, destroy
<1>1. FanOutType'
  BY NoSubscriberType, ZenonT(30) DEF FanOutType
<1>2. ReleaseTells'
  BY Zenon DEF ReleaseTells, EndIsTold
<1>3. CountsAgree'
  <2>1. Forwarding(subscribers)' = {} /\ (subscribers \ Active(subscribers))' = {}
    BY ZenonT(30) DEF Forwarding, Active
  <2> QED
    BY <2>1, FS_EmptySet, ZenonT(30) DEF CountsAgree
<1>4. PassiveKept' /\ OpenIsRegistered' /\ DrainingHoldsStream'
  BY Zenon DEF PassiveKept, OpenIsRegistered, DrainingHoldsStream
<1>5. DeferredDoneIsReleased' /\ EndIsTold' /\ NoLostOnEmpty' /\ UpstreamSends'
  BY SMTT(30) DEF DeferredDoneIsReleased, EndIsTold, NoLostOnEmpty, UpstreamSends
<1> QED
  BY <1>1, <1>2, <1>3, <1>4, <1>5, Zenon

-----------------------------------------------------------------------------
(* The calls that visit subscribers.                                       *)

(* removeSubscriber, with the removals its publishDone re-enters,          *)
(* preserves FanOutInv.                                                    *)
LEMMA RemoveStep ==
  ASSUME FanOutInv, NEW s \in Sessions, NEW also, removeSubscriber(s, also)
  PROVE  FanOutInv'
<1> DEFINE fate == [x \in subscribers |->
                      IF x = s \/ x \in also THEN Retire(sub[x]) ELSE Keep(sub[x])]
<1>1. Settle(fate, subgroups, TRUE, FALSE) /\ alive /\ UNCHANGED <<draining, alive>>
  BY ZenonT(30) DEF removeSubscriber
<1>2. \A x \in subscribers : Settled(sub[x], subgroups) /\ sub[x] \in Subscriber
  BY SettledNow, ZenonT(30) DEF Settled
<1>3. \A x \in subscribers : fate[x] \in {Retire(sub[x]), Keep(sub[x])}
  BY Zenon
<1> HIDE DEF fate
<1>4. \A x \in subscribers : Outcome(sub[x], fate[x]) /\ Stays(fate[x], subgroups)
  BY <1>2, <1>3, RetireOutcome, KeepOutcome, ZenonT(30)
<1>5. subgroups \in SUBSET Subgroups /\ draining \in BOOLEAN
  BY Zenon DEF FanOutInv, FanOutType
<1> QED
  BY <1>1, <1>4, <1>5, SettleStep, ZenonT(30)

(* publishDone, deferred or not, preserves FanOutInv.                      *)
LEMMA PublishDoneStep ==
  ASSUME FanOutInv, NEW reenters, publishDone(reenters)
  PROVE  FanOutInv'
<1>a. alive /\ ~draining /\ draining' = TRUE /\ alive' = alive
  BY Zenon DEF publishDone
<1>1. CASE deferPublishDone /\ subgroups # {}
  <2>1. /\ pendingPublishDone' = TRUE
        /\ UNCHANGED <<subscribers, sub, subgroups, forwardingSubscribers,
                       passiveCount, refusedUpstream, wanted, owed, forgotten>>
    BY <1>1, ZenonT(30) DEF publishDone
  <2> USE DEF FanOutInv
  <2>2. FanOutType'
    BY <1>a, <2>1, ZenonT(30) DEF FanOutType
  <2>3. Active(subscribers)' = Active(subscribers) /\ Forwarding(subscribers)' = Forwarding(subscribers)
    BY <2>1, Zenon DEF Active, Forwarding
  <2>4. CountsAgree' /\ NoLostOnEmpty' /\ UpstreamSends'
    BY <1>a, <2>1, <2>3, Zenon DEF CountsAgree, NoLostOnEmpty, UpstreamSends
  <2>5. PassiveKept' /\ OpenIsRegistered' /\ DrainingHoldsStream'
    BY <2>1, ZenonT(30) DEF PassiveKept, OpenIsRegistered, DrainingHoldsStream
  <2>6. DeferredDoneIsReleased' /\ EndIsTold' /\ ReleaseTells'
    BY <1>1, <1>a, <2>1, Zenon DEF DeferredDoneIsReleased, EndIsTold, ReleaseTells
  <2> QED
    BY <2>2, <2>4, <2>5, <2>6, Zenon
<1>2. CASE ~(deferPublishDone /\ subgroups # {})
  <2> DEFINE fate == [s \in subscribers |-> drainSubscriber(sub[s], s \in reenters)]
             checked == \E s \in subscribers : fate[s].gone
  <2>1. Settle(fate, subgroups, checked, FALSE)
    BY <1>2, ZenonT(30) DEF publishDone, SettleRemovals
  <2>2. \A s \in subscribers :
          /\ Outcome(sub[s], fate[s]) /\ Stays(fate[s], subgroups)
          /\ ~fate[s].gone => fate[s].u.receivedPublishDone
    <3>1. \A s \in subscribers : fate[s] = drainSubscriber(sub[s], s \in reenters)
      BY Zenon
    <3> HIDE DEF fate
    <3> TAKE s \in subscribers
    <3>2. Settled(sub[s], subgroups)
      BY SettledNow, Zenon
    <3> DEFINE b == s \in reenters
    <3>3. fate[s] = drainSubscriber(sub[s], b)
      BY <3>1, Zenon
    <3> HIDE DEF b
    <3> QED
      BY <3>2, <3>3, DrainOutcome, ZenonT(30)
  <2> HIDE DEF fate
  <2>3. checked \in BOOLEAN /\ (~checked => \A s \in subscribers : ~fate[s].gone)
    BY Zenon
  <2>4. subgroups \in SUBSET Subgroups
    BY Zenon DEF FanOutInv, FanOutType
  <2> HIDE DEF checked
  <2> QED
    BY <1>a, <2>1, <2>2, <2>3, <2>4, SettleStep, ZenonT(30)
<1> QED
  BY <1>1, <1>2, Zenon

(* objectStream and datagram preserve FanOutInv.                           *)
LEMMA SingleStep ==
  ASSUME FanOutInv, NEW g, NEW o, NEW r, objectStream(g, o, r)
  PROVE  FanOutInv'
<1> DEFINE lg == IF Loc(g, o) > largest THEN Loc(g, o) ELSE largest
           fate == [s \in subscribers |-> VisitSingle(sub[s], Loc(g, o), r[s], lg)]
           checked == \E s \in subscribers : fate[s].gone
<1>1. Settle(fate, subgroups, checked, FALSE) /\ alive /\ UNCHANGED <<draining, alive>>
  BY ZenonT(30) DEF objectStream, SettleRemovals
<1>2. \A s \in subscribers : fate[s] = VisitSingle(sub[s], Loc(g, o), r[s], lg)
  BY ZenonT(30)
<1> HIDE DEF fate, lg
<1>3. \A s \in subscribers : Outcome(sub[s], fate[s]) /\ Stays(fate[s], subgroups)
  BY <1>2, SettledNow, VisitSingleOutcome, ZenonT(30)
<1>4. checked \in BOOLEAN /\ (~checked => \A s \in subscribers : ~fate[s].gone)
  BY Zenon
<1>5. subgroups \in SUBSET Subgroups /\ draining \in BOOLEAN
  BY Zenon DEF FanOutInv, FanOutType
<1> HIDE DEF checked
<1> QED
  BY <1>1, <1>3, <1>4, <1>5, SettleStep, ZenonT(30)

(* A call on an open subgroup preserves FanOutInv.                         *)
LEMMA CallStep ==
  ASSUME FanOutInv, NEW id \in Subgroups, NEW obj, NEW closes \in BOOLEAN, NEW r, NEW next,
         SubgroupCall(id, obj, closes, r, next)
  PROVE  FanOutInv'
<1> DEFINE lg == IF obj # None /\ Loc(id[1], obj) > largest THEN Loc(id[1], obj) ELSE largest
           fate == [s \in subscribers |-> Visit(sub[s], id, obj, closes, r[s], lg)]
           failed == NobodyTakes(id, next, fate)
           G == IF closes \/ failed THEN subgroups \ {id} ELSE subgroups
           checked == closes \/ failed \/ \E s \in subscribers : fate[s].gone
           refuse == failed /\ ~closes
<1>1. /\ Settle(fate, G, checked, refuse)
      /\ alive /\ id \in subgroups /\ UNCHANGED <<draining, alive>>
  BY ZenonT(30) DEF SubgroupCall, CallPassed, CallSettled
<1>2. \A s \in subscribers : fate[s] = Visit(sub[s], id, obj, closes, r[s], lg)
  BY ZenonT(30)
<1> HIDE DEF fate, lg
<1>3. subgroups \subseteq Subgroups /\ draining \in BOOLEAN
  BY Zenon DEF FanOutInv, FanOutType
<1>4. \A s \in subscribers :
        /\ Outcome(sub[s], fate[s]) /\ Stays(fate[s], subgroups)
        /\ closes \/ ~fate[s].sent => Stays(fate[s], subgroups \ {id})
  <2> HIDE DEF failed
  <2> SUFFICES ASSUME NEW s \in subscribers
               PROVE  /\ Outcome(sub[s], fate[s]) /\ Stays(fate[s], subgroups)
                      /\ closes \/ ~fate[s].sent => Stays(fate[s], subgroups \ {id})
    BY ZenonT(30)
  <2>1. Settled(sub[s], subgroups)
    BY SettledNow, Zenon
  <2> DEFINE v == Visit(sub[s], id, obj, closes, r[s], lg)
  <2>2. /\ Outcome(sub[s], v) /\ Stays(v, subgroups)
        /\ closes \/ ~v.sent => Stays(v, subgroups \ {id})
    BY <1>1, <1>3, <2>1, VisitOutcome, ZenonT(30)
  <2>3. fate[s] = v
    BY <1>2, Zenon
  <2> HIDE DEF v
  <2> QED
    BY <2>2, <2>3, Zenon
<1>5. failed => \A s \in subscribers : fate[s].gone \/ ~fate[s].sent
  BY Zenon DEF NobodyTakes
<1>6. \A s \in subscribers : Stays(fate[s], G)
  BY <1>4, <1>5, Zenon DEF Stays
<1>7. ~checked => G = subgroups /\ \A s \in subscribers : ~fate[s].gone
  BY Zenon
<1>8. G \in SUBSET Subgroups
  BY <1>3, Zenon
<1>9. checked \in BOOLEAN /\ refuse \in BOOLEAN
  BY Zenon
<1> HIDE DEF checked, refuse, G
<1> QED
  BY <1>1, <1>3, <1>4, <1>6, <1>7, <1>8, <1>9, SettleStep, ZenonT(30)

(* beginSubgroup, new or duplicate, preserves FanOutInv.                   *)
LEMMA BeginStep ==
  ASSUME FanOutInv, NEW id \in Subgroups, NEW c \in BOOLEAN, NEW r, beginSubgroup(id, c, r)
  PROVE  FanOutInv'
<1> DEFINE l == Loc(id[1], 0)
           lg == IF l > largest THEN l ELSE largest
           first == [s \in subscribers |-> IF id \in subgroups
                                           THEN VisitDuplicate(sub[s], id, lg)
                                           ELSE Keep(sub[s])]
           refuse == RefusesDuplicate(id, c, lg)
<1>1. BeginPasses(id, c, r, lg, first) /\ alive /\ UNCHANGED <<draining, alive>>
  BY Zenon DEF beginSubgroup
<1>2. \A s \in subscribers : first[s] = IF id \in subgroups
                                        THEN VisitDuplicate(sub[s], id, lg) ELSE Keep(sub[s])
  BY Zenon
<1> HIDE DEF first, lg
<1>3. subgroups \subseteq Subgroups /\ draining \in BOOLEAN
  BY Zenon DEF FanOutInv, FanOutType
<1>4. \A s \in subscribers : Outcome(sub[s], first[s]) /\ Stays(first[s], subgroups \ {id})
  <2> SUFFICES ASSUME NEW s \in subscribers
               PROVE  Outcome(sub[s], first[s]) /\ Stays(first[s], subgroups \ {id})
    BY Zenon
  <2> HIDE DEF refuse
  <2>s. Settled(sub[s], subgroups)
    BY SettledNow, Zenon
  <2>1. CASE id \in subgroups
    <3> DEFINE v == VisitDuplicate(sub[s], id, lg)
    <3>1. Outcome(sub[s], v) /\ Stays(v, subgroups \ {id})
      BY <2>s, VisitDuplicateOutcome, Zenon
    <3>2. first[s] = v
      BY <1>2, <2>1, Zenon
    <3> HIDE DEF v
    <3> QED
      BY <3>1, <3>2, Zenon
  <2>2. CASE id \notin subgroups
    <3>1. subgroups \ {id} = subgroups
      BY <2>2, Zenon
    <3>2. Outcome(sub[s], Keep(sub[s])) /\ Stays(Keep(sub[s]), subgroups)
      BY <2>s, KeepOutcome, Zenon
    <3> QED
      BY <1>2, <2>2, <3>1, <3>2, Zenon
  <2> QED
    BY <2>1, <2>2, Zenon
<1>5. CASE ReturnsEarly(id, c, lg, first)
  <2>1. Settle(first, subgroups \ {id}, TRUE, refuse)
    BY <1>1, <1>5, ZenonT(30) DEF BeginPasses, BeginSettled
  <2>2. refuse \in BOOLEAN /\ subgroups \ {id} \in SUBSET Subgroups
    BY <1>3, Zenon DEF RefusesDuplicate
  <2> HIDE DEF refuse
  <2> QED
    BY <1>1, <1>3, <1>4, <2>1, <2>2, SettleStep, Zenon
<1>6. CASE ~ReturnsEarly(id, c, lg, first)
  <2> DEFINE second == [s \in subscribers |->
                          IF first[s].gone THEN first[s]
                          ELSE VisitBegin(first[s].u, id, r[s], lg)]
             registered == Registers(id, first, second)
             G == IF registered THEN subgroups \cup {id} ELSE subgroups \ {id}
             checked == subscribers # {}
  <2>1. Settle(second, G, checked, FALSE)
    BY <1>1, <1>6, ZenonT(30) DEF BeginPasses, BeginSettled
  <2>2. \A s \in subscribers :
          second[s] = IF first[s].gone THEN first[s] ELSE VisitBegin(first[s].u, id, r[s], lg)
    BY Zenon
  <2> HIDE DEF second
  <2>3. \A s \in subscribers :
          Outcome(sub[s], second[s]) /\ Stays(second[s], subgroups \cup {id})
    <3> TAKE s \in subscribers
    <3>1. CASE first[s].gone
      BY <1>4, <2>2, <3>1, ZenonT(30) DEF Stays
    <3>2. CASE ~first[s].gone
      <4>1. Settled(first[s].u, subgroups \ {id})
        BY <1>4, <3>2, Zenon DEF Outcome, Stays, Settled
      <4> DEFINE v == VisitBegin(first[s].u, id, r[s], lg)
      <4>a. Outcome(first[s].u, v) /\ Stays(v, (subgroups \ {id}) \cup {id})
        BY <4>1, VisitBeginOutcome, ZenonT(30)
      <4>b. second[s] = v
        BY <2>2, <3>2, Zenon
      <4> HIDE DEF v
      <4>2. /\ Outcome(first[s].u, second[s])
            /\ Stays(second[s], (subgroups \ {id}) \cup {id})
        BY <4>a, <4>b, Zenon
      <4> QED
        BY <1>4, <4>2, ZenonT(30) DEF Outcome, Stays
    <3> QED
      BY <3>1, <3>2, Zenon
  <2>4. \/ checked /\ pendingPublishDone /\ G = {}
        \/ \A s \in subscribers : Stays(second[s], G)
    <3>1. CASE registered
      BY <2>3, <3>1, ZenonT(30)
    <3>2. CASE ~registered
      <4>1. \/ \A s \in subscribers : second[s].gone
            \/ /\ pendingPublishDone /\ subgroups \ {id} = {} /\ subscribers # {}
        BY <3>2, Zenon DEF Registers
      <4> QED
        BY <3>2, <4>1, Zenon DEF Stays
    <3> QED
      BY <3>1, <3>2, Zenon
  <2>5. ~checked => G = subgroups /\ \A s \in subscribers : ~second[s].gone
    <3> SUFFICES ASSUME subscribers = {}
                 PROVE  G = subgroups
      BY Zenon
    <3>1. ~registered
      BY Zenon DEF Registers
    <3>2. id \notin subgroups
      BY <1>6, Zenon DEF ReturnsEarly
    <3> QED
      BY <3>1, <3>2, Zenon
  <2>6. G \in SUBSET Subgroups /\ checked \in BOOLEAN
    BY <1>3, Zenon
  <2> HIDE DEF G, checked
  <2> QED
    BY <1>1, <1>3, <2>1, <2>3, <2>4, <2>5, <2>6, SettleStep, Zenon
<1> QED
  BY <1>5, <1>6, Zenon

-----------------------------------------------------------------------------
(* SubgroupForwarder records.                                              *)

(* The updates the calls make to a SubgroupForwarder keep its type.        *)
LEMMA SubgroupFields ==
  ASSUME SubgroupType, NEW id \in Subgroups, NEW o \in Objects, NEW b \in BOOLEAN
  PROVE  /\ sg[id] \in SubgroupForwarder
         /\ NewSubgroup \in SubgroupForwarder
         /\ [NewSubgroup EXCEPT !.cacheInterest = b] \in SubgroupForwarder
         /\ [sg[id] EXCEPT !.lastObjectId = o] \in SubgroupForwarder
         /\ [sg[id] EXCEPT !.lastObjectId = o, !.busy = b] \in SubgroupForwarder
         /\ [sg[id] EXCEPT !.busy = b] \in SubgroupForwarder
         /\ [sg[id] EXCEPT !.cacheInterest = b] \in SubgroupForwarder
BY Zenon DEF SubgroupType, SubgroupForwarder, NewSubgroup

(* A call on an open subgroup preserves the type of the subgroups.         *)
LEMMA CallType ==
  ASSUME SubgroupType, NEW id \in Subgroups, NEW obj, NEW closes, NEW r,
         NEW next \in SubgroupForwarder, SubgroupCall(id, obj, closes, r, next)
  PROVE  SubgroupType'
<1>1. NewSubgroup \in SubgroupForwarder
  BY Zenon DEF SubgroupForwarder, NewSubgroup
<1>2. \E n \in {NewSubgroup, next} : sg' = [sg EXCEPT ![id] = n]
  BY Zenon DEF SubgroupCall, CallPassed, CallSettled
<1> QED
  BY <1>1, <1>2, Zenon DEF SubgroupType

(* beginSubgroup preserves the type of the subgroups.                      *)
LEMMA BeginType ==
  ASSUME SubgroupType, NEW id \in Subgroups, NEW c \in BOOLEAN, NEW r, beginSubgroup(id, c, r)
  PROVE  SubgroupType'
<1> DEFINE n == [NewSubgroup EXCEPT !.cacheInterest = c]
<1>1. NewSubgroup \in SubgroupForwarder /\ n \in SubgroupForwarder
  BY Zenon DEF SubgroupForwarder, NewSubgroup
<1>2. \E x \in {NewSubgroup, n} : sg' = [sg EXCEPT ![id] = x]
  BY ZenonT(30) DEF beginSubgroup, BeginPasses, BeginSettled
<1> QED
  BY <1>1, <1>2, Zenon DEF SubgroupType

(* LargestInv depends only on largest_ and on the outstanding request.     *)
LEMMA LargestFrame ==
  ASSUME LargestInv, UNCHANGED <<largest, outstandingNewGroupRequest>>
  PROVE  LargestInv'
BY Zenon DEF LargestInv, OutstandingIsUnmet

(* A call on an open subgroup preserves LargestInv.                        *)
LEMMA CallLargest ==
  ASSUME LargestInv, NEW id \in Subgroups, NEW obj \in Objects \cup {None}, NEW closes, NEW r,
         NEW next, SubgroupCall(id, obj, closes, r, next)
  PROVE  LargestInv'
<1>1. CASE obj = None
  BY <1>1, LargestFrame, Zenon DEF SubgroupCall
<1>2. CASE obj # None
  <2>1. updateLargest(Loc(id[1], obj))
    BY <1>2, Zenon DEF SubgroupCall
  <2>2. Loc(id[1], obj) \in Nat
    BY <1>2, LocationNat, Zenon
  <2> QED
    BY <2>1, <2>2, LargestStep, Zenon
<1> QED
  BY <1>1, <1>2, Zenon

-----------------------------------------------------------------------------
(* The steps of Next.                                                      *)

(* A call on an open subgroup preserves IInv.                              *)
LEMMA SubgroupCallInv ==
  ASSUME IInv, NEW id \in Subgroups, NEW obj \in Objects \cup {None}, NEW closes \in BOOLEAN,
         NEW r, NEW next \in SubgroupForwarder, SubgroupCall(id, obj, closes, r, next)
  PROVE  IInv'
BY CallStep, CallType, CallLargest, Zenon DEF IInv

(* An open subgroup is one of Subgroups.                                   *)
LEMMA SubgroupsInv ==
  ASSUME IInv, NEW id \in subgroups
  PROVE  id \in Subgroups
BY Zenon DEF IInv, FanOutInv, FanOutType

(* addSubscriber preserves IInv.                                           *)
LEMMA JoinInv ==
  ASSUME IInv, NEW s \in Sessions, NEW forward \in BOOLEAN, NEW filter \in Filters,
         addSubscriber(s, filter, forward)
  PROVE  IInv'
<1>1. resolve(filter, largest).start \in Nat /\ resolve(filter, largest).end \in Nat
  BY ResolveNat, Zenon DEF IInv, LargestInv
<1>2. Join(s, resolve(filter, largest), forward, TRUE)
  BY Zenon DEF addSubscriber
<1>3. FanOutInv'
  BY <1>1, <1>2, JoinStep, ZenonT(30) DEF IInv
<1>4. UNCHANGED <<sg, largest, outstandingNewGroupRequest>>
  BY <1>2, Zenon DEF Join
<1> QED
  BY <1>3, <1>4, LargestFrame, Zenon DEF IInv, SubgroupType

(* addSubscriber without a filter, as for an unanswered PUBLISH, preserves *)
(* IInv.                                                                   *)
LEMMA UnfilteredInv ==
  ASSUME IInv, NEW s \in Sessions, NEW forward \in BOOLEAN,
         addSubscriberUnfiltered(s, forward)
  PROVE  IInv'
<1> DEFINE all == [start |-> 0, end |-> kLocationMax]
<1>1. all.start \in Nat /\ all.end \in Nat
  <2>1. MaxGroup + 1 \in Nat
    BY ForwarderAssumption
  <2> QED
    BY <2>1, LocNat, Zenon DEF kLocationMax
<1>2. Join(s, all, forward, FALSE)
  BY Zenon DEF addSubscriberUnfiltered
<1> HIDE DEF all
<1>3. FanOutInv'
  BY <1>1, <1>2, JoinStep, ZenonT(30) DEF IInv
<1>4. UNCHANGED <<sg, largest, outstandingNewGroupRequest>>
  BY <1>2, Zenon DEF Join
<1> QED
  BY <1>3, <1>4, LargestFrame, Zenon DEF IInv, SubgroupType

(* onPublishOk preserves IInv.                                             *)
LEMMA PublishOkInv ==
  ASSUME IInv, NEW s \in Sessions, NEW forward \in BOOLEAN, NEW filter \in Filters,
         NEW value \in NewGroupRequests \cup {None},
         onPublishOk(s, filter, forward, value)
  PROVE  IInv'
<1> DEFINE u == [sub[s] EXCEPT !.named = TRUE,
                   !.start = resolve(filter, largest).start,
                   !.end = resolve(filter, largest).end]
<1>1. resolve(filter, largest).start \in Nat /\ resolve(filter, largest).end \in Nat
  BY ResolveNat, Zenon DEF IInv, LargestInv
<1>2. s \in subscribers \ PassiveSessions /\ sub[s] \in Subscriber
  BY Zenon DEF onPublishOk, IInv, FanOutInv, FanOutType
<1>3. SameSubscriber(sub[s], u) /\ u.shouldForward = sub[s].shouldForward
  BY <1>1, <1>2, ZenonT(30) DEF SameSubscriber, Subscriber
<1>4. /\ updateForwardState(s, u, forward)
      /\ UNCHANGED <<subscribers, subgroups, passiveCount, pendingPublishDone, alive,
                     owed, forgotten, draining, sg, largest>>
      /\ outstandingNewGroupRequest' = tryProcessNewGroupRequest(value)
  BY Zenon DEF onPublishOk
<1> HIDE DEF u
<1>5. FanOutInv'
  BY <1>2, <1>3, <1>4, ForwardStep, Zenon DEF IInv
<1>6. LargestInv'
  BY <1>4, RequestStep, Zenon DEF IInv
<1> QED
  BY <1>4, <1>5, <1>6, Zenon DEF IInv, SubgroupType

(* The range a REQUEST_UPDATE sets consists of naturals.                   *)
LEMMA UpdatedRangeNat ==
  ASSUME LargestInv, NEW f \in Filters
  PROVE  UpdatedRange(f).start \in Nat /\ UpdatedRange(f).end \in Nat
<1> DEFINE range == resolve(f, largest)
<1>1. range.start \in Nat /\ range.end \in Nat
  BY ResolveNat, Zenon DEF LargestInv
<1>2. /\ DOMAIN range = {"start", "end"}
      /\ \A a : [range EXCEPT !.start = a].start = a
      /\ \A a : [range EXCEPT !.start = a].end = range.end
  BY Zenon DEF resolve
<1>3. f.start \in Nat
  BY ForwarderAssumption, Zenon
<1>4. UpdatedRange(f) \in {[range EXCEPT !.start = 0], range, [range EXCEPT !.start = f.start]}
  BY Zenon DEF UpdatedRange
<1> HIDE DEF range
<1> QED
  BY <1>1, <1>2, <1>3, <1>4, SMTT(30)

(* requestUpdate preserves IInv.                                           *)
LEMMA UpdateInv ==
  ASSUME IInv, NEW s \in Sessions, NEW forward \in Optional(BOOLEAN),
         NEW filter \in Optional(Filters), NEW value \in NewGroupRequests \cup {None},
         requestUpdate(s, filter, forward, value)
  PROVE  IInv'
<1> DEFINE range == IF filter = {} THEN [start |-> sub[s].start, end |-> sub[s].end]
                    ELSE UpdatedRange(CHOOSE f \in filter : TRUE)
           t == IF TRUE \in forward THEN {} ELSE sub[s].tombstoned
           u == [sub[s] EXCEPT !.start = range.start, !.end = range.end, !.tombstoned = t]
<1>1. s \in subscribers \ PassiveSessions /\ sub[s] \in Subscriber
      /\ sub \in [Sessions -> Subscriber] /\ subscribers \subseteq Sessions
  BY Zenon DEF requestUpdate, IInv, FanOutInv, FanOutType
<1>2. range.start \in Nat /\ range.end \in Nat
  <2>1. CASE filter = {}
    BY <1>1, <2>1, Zenon DEF Subscriber
  <2>2. CASE filter # {}
    <3>1. PICK f \in Filters : filter = {f}
      BY <2>2, Zenon DEF Optional
    <3>2. (CHOOSE x \in filter : TRUE) = f
      BY <3>1, Zenon
    <3> QED
      BY <2>2, <3>2, UpdatedRangeNat, ZenonT(30) DEF IInv
  <2> QED
    BY <2>1, <2>2, ZenonT(30)
<1>3. t \in SUBSET Subgroups
  BY <1>1, Zenon DEF Subscriber
<1>4. /\ IF forward = {}
         THEN /\ sub' = [sub EXCEPT ![s] = u]
              /\ UNCHANGED <<forwardingSubscribers, refusedUpstream, wanted>>
         ELSE updateForwardState(s, u, TRUE \in forward)
      /\ UNCHANGED <<subscribers, subgroups, passiveCount, pendingPublishDone, alive,
                     owed, forgotten, draining, sg, largest>>
      /\ outstandingNewGroupRequest' = tryProcessNewGroupRequest(value)
  BY Zenon DEF requestUpdate
<1>5. SameSubscriber(sub[s], u) /\ u.shouldForward = sub[s].shouldForward
  <2> HIDE DEF range, t
  <2> QED BY <1>1, <1>2, <1>3, ZenonT(30) DEF SameSubscriber, Subscriber
<1> HIDE DEF u
<1>6. FanOutInv'
  <2>1. CASE forward = {}
    <3>1. sub' = [sub EXCEPT ![s] = u] /\ UNCHANGED <<FanOutCounts, draining>>
      BY <1>4, <2>1, Zenon DEF FanOutCounts
    <3>2. sub' \in [Sessions -> Subscriber]
      BY <1>1, <1>5, <3>1, Zenon DEF SameSubscriber
    <3>3. \A x \in subscribers : /\ SameSubscriber(sub[x], sub'[x])
                                 /\ sub'[x].shouldForward = sub[x].shouldForward
      BY <1>1, <1>5, <3>1, Zenon DEF SameSubscriber
    <3> QED
      BY <1>4, <3>1, <3>2, <3>3, QuietStep, Zenon DEF IInv
  <2>2. CASE forward # {}
    <3> DEFINE b == TRUE \in forward
    <3>0. b \in BOOLEAN
      OBVIOUS
    <3>1. updateForwardState(s, u, b)
      BY <1>4, <2>2, Zenon
    <3> HIDE DEF b
    <3> QED
      BY <1>1, <1>4, <1>5, <3>0, <3>1, ForwardStep, Zenon DEF IInv
  <2> QED
    BY <2>1, <2>2, Zenon
<1>7. LargestInv'
  BY <1>4, RequestStep, Zenon DEF IInv
<1> QED
  BY <1>4, <1>6, <1>7, Zenon DEF IInv, SubgroupType

(* An onPublishOk that leaves the Forward state alone preserves IInv.      *)
LEMMA NamedInv ==
  ASSUME IInv, NEW s \in Sessions, onPublishOkWithoutForward(s)
  PROVE  IInv'
<1> DEFINE u == [sub[s] EXCEPT !.named = TRUE]
<1>1. /\ sub' = [sub EXCEPT ![s] = u]
      /\ UNCHANGED <<FanOutCounts, draining, sg, largest, outstandingNewGroupRequest>>
  BY Zenon DEF onPublishOkWithoutForward, FanOutCounts
<1>2. sub \in [Sessions -> Subscriber] /\ subscribers \subseteq Sessions
  BY Zenon DEF IInv, FanOutInv, FanOutType
<1>3. SameSubscriber(sub[s], u) /\ u.shouldForward = sub[s].shouldForward
  BY <1>2, ZenonT(30) DEF SameSubscriber, Subscriber
<1> HIDE DEF u
<1>4. sub' \in [Sessions -> Subscriber]
  BY <1>1, <1>2, <1>3, Zenon DEF SameSubscriber
<1>5. \A x \in subscribers : /\ SameSubscriber(sub[x], sub'[x])
                             /\ sub'[x].shouldForward = sub[x].shouldForward
  BY <1>1, <1>2, <1>3, Zenon DEF SameSubscriber
<1>6. FanOutInv'
  BY <1>1, <1>4, <1>5, QuietStep, Zenon DEF IInv
<1> QED
  BY <1>1, <1>6, LargestFrame, Zenon DEF IInv, SubgroupType

(* A step that touches no subscriber.                                      *)
LEMMA FrameInv ==
  ASSUME FanOutInv, UNCHANGED <<FanOutCounts, draining, sub>>
  PROVE  FanOutInv'
<1>1. sub' \in [Sessions -> Subscriber] /\ subscribers \subseteq Sessions
  BY Zenon DEF FanOutInv, FanOutType
<1>2. \A x \in subscribers : /\ SameSubscriber(sub[x], sub'[x])
                             /\ sub'[x].shouldForward = sub[x].shouldForward
  BY <1>1, Zenon DEF SameSubscriber
<1> QED
  BY <1>1, <1>2, QuietStep, Zenon

(* Every call through a subscriber's handle preserves IInv.                *)
LEMMA SubscriberStepInv ==
  ASSUME IInv, SubscriberStep
  PROVE  IInv'
<1> PICK s \in Sessions :
      \/ \E f \in Filters, forward \in BOOLEAN : addSubscriber(s, f, forward)
      \/ \E forward \in BOOLEAN : addSubscriberUnfiltered(s, forward)
      \/ \E value \in NewGroupRequests \cup {None} :
           \/ \E f \in Filters, forward \in BOOLEAN : onPublishOk(s, f, forward, value)
           \/ \E f \in Optional(Filters), forward \in Optional(BOOLEAN) :
                requestUpdate(s, f, forward, value)
      \/ onPublishOkWithoutForward(s)
      \/ \E also \in SUBSET subscribers : removeSubscriber(s, also)
  BY Zenon DEF SubscriberStep
<1>1. CASE \E f \in Filters, forward \in BOOLEAN : addSubscriber(s, f, forward)
  BY <1>1, JoinInv, Zenon
<1>2. CASE \E forward \in BOOLEAN : addSubscriberUnfiltered(s, forward)
  BY <1>2, UnfilteredInv, Zenon
<1>3. CASE \E value \in NewGroupRequests \cup {None}, f \in Filters, forward \in BOOLEAN :
             onPublishOk(s, f, forward, value)
  BY <1>3, PublishOkInv, Zenon
<1>4. CASE \E value \in NewGroupRequests \cup {None}, f \in Optional(Filters),
              forward \in Optional(BOOLEAN) : requestUpdate(s, f, forward, value)
  BY <1>4, UpdateInv, Zenon
<1>5. CASE onPublishOkWithoutForward(s)
  BY <1>5, NamedInv, Zenon
<1>6. CASE \E also \in SUBSET subscribers : removeSubscriber(s, also)
  <2> PICK also \in SUBSET subscribers : removeSubscriber(s, also)
    BY <1>6, Zenon
  <2>1. FanOutInv'
    BY RemoveStep, Zenon DEF IInv
  <2>2. UNCHANGED <<sg, largest, outstandingNewGroupRequest>>
    BY Zenon DEF removeSubscriber
  <2> QED
    BY <2>1, <2>2, LargestFrame, Zenon DEF IInv, SubgroupType
<1> QED
  BY <1>1, <1>2, <1>3, <1>4, <1>5, <1>6, Zenon

(* Every call on a subgroup preserves IInv.                                *)
LEMMA SubgroupStepInv ==
  ASSUME IInv, NEW id \in subgroups,
         \/ \E o \in Objects, r \in ObjectAnswers(id) :
              \/ \E ends \in BOOLEAN : object(id, o, ends, r)
              \/ beginObject(id, o, r)
         \/ \E r \in Answers({"ok", "soft", "hard"}) :
              \/ \E last, fin \in BOOLEAN : objectPayload(id, last, fin, r)
              \/ endOfSubgroup(id, r)
         \/ reset(id)
         \/ \E o \in Objects : beginObjectBusy(id, o)
         \/ \E c \in CacheInterests : setCacheInterest(id, c)
  PROVE  IInv'
<1>i. id \in Subgroups
  BY SubgroupsInv, Zenon
<1>t. SubgroupType /\ sg[id] \in SubgroupForwarder
  BY <1>i, Zenon DEF IInv, SubgroupType
<1>1. ASSUME NEW o \in Objects, NEW r, NEW ends \in BOOLEAN, object(id, o, ends, r)
      PROVE  IInv'
  BY <1>1, <1>i, <1>t, SubgroupFields, SubgroupCallInv, ZenonT(30) DEF object
<1>2. ASSUME NEW o \in Objects, NEW r, beginObject(id, o, r)
      PROVE  IInv'
  BY <1>2, <1>i, <1>t, SubgroupFields, SubgroupCallInv, Zenon DEF beginObject
<1>3. ASSUME NEW r, NEW last \in BOOLEAN, NEW fin \in BOOLEAN, objectPayload(id, last, fin, r)
      PROVE  IInv'
  <2>1. [sg[id] EXCEPT !.busy = ~last] \in SubgroupForwarder
    BY <1>t, Zenon DEF SubgroupForwarder
  <2> QED
    BY <1>3, <1>i, <2>1, SubgroupCallInv, Zenon DEF objectPayload
<1>4. ASSUME NEW r, endOfSubgroup(id, r)
      PROVE  IInv'
  BY <1>4, <1>i, <1>t, SubgroupCallInv, Zenon DEF endOfSubgroup
<1>5. ASSUME reset(id)
      PROVE  IInv'
  BY <1>5, <1>i, <1>t, SubgroupCallInv, ZenonT(30) DEF reset
<1>6. ASSUME NEW o \in Objects, beginObjectBusy(id, o)
      PROVE  IInv'
  <2>1. FanOutInv'
    BY <1>6, FrameInv, ZenonT(30) DEF beginObjectBusy, FanOutCounts, IInv
  <2>2. LargestInv'
    BY <1>6, <1>i, LocationNat, LargestStep, ZenonT(30) DEF beginObjectBusy, IInv
  <2> QED
    BY <1>6, <2>1, <2>2, Zenon DEF beginObjectBusy, IInv, SubgroupType
<1>7. ASSUME NEW c \in CacheInterests, setCacheInterest(id, c)
      PROVE  IInv'
  <2>1. FanOutInv'
    BY <1>7, FrameInv, Zenon DEF setCacheInterest, FanOutCounts, IInv
  <2>2. LargestInv'
    BY <1>7, LargestFrame, Zenon DEF setCacheInterest, IInv
  <2>3. [sg[id] EXCEPT !.cacheInterest = c] \in SubgroupForwarder
    BY <1>t, ForwarderAssumption, Zenon DEF SubgroupForwarder
  <2>4. SubgroupType'
    BY <1>7, <1>t, <1>i, <2>3, Zenon DEF setCacheInterest, SubgroupType
  <2> QED
    BY <2>1, <2>2, <2>4, Zenon DEF IInv
<1> QED
  BY <1>1, <1>2, <1>3, <1>4, <1>5, <1>6, <1>7, Zenon

(* Every call of the publisher preserves IInv.                             *)
LEMMA PublisherStepInv ==
  ASSUME IInv, PublisherStep
  PROVE  IInv'
<1>1. ASSUME NEW id \in Subgroups, NEW c \in CacheInterests, NEW r, beginSubgroup(id, c, r)
      PROVE  IInv'
  <2>1. c \in BOOLEAN
    BY ForwarderAssumption, Zenon
  <2>2. updateLargest(Loc(id[1], 0)) /\ 0 \in Objects
    BY <1>1, ForwarderAssumption DEF beginSubgroup, Objects
  <2>3. LargestInv'
    BY <2>2, LocationNat, LargestStep, Zenon DEF IInv
  <2>4. FanOutInv' /\ SubgroupType'
    BY <1>1, <2>1, BeginStep, BeginType, Zenon DEF IInv
  <2> QED
    BY <2>3, <2>4, Zenon DEF IInv
<1>2. ASSUME NEW g \in Groups, NEW o \in Objects, NEW r, objectStream(g, o, r)
      PROVE  IInv'
  <2>1. g \in Nat /\ o \in Nat
    BY ForwarderAssumption, SMTT(30) DEF Groups, Objects
  <2>2. updateLargest(Loc(g, o)) /\ UNCHANGED sg
    BY <1>2, Zenon DEF objectStream
  <2>3. Loc(g, o) \in Nat
    BY <2>1, LocNat, Zenon
  <2>4. LargestInv'
    BY <2>2, <2>3, LargestStep, Zenon DEF IInv
  <2>5. FanOutInv'
    BY <1>2, SingleStep, Zenon DEF IInv
  <2> QED
    BY <2>2, <2>4, <2>5, Zenon DEF IInv, SubgroupType
<1>3. ASSUME NEW reenters, publishDone(reenters)
      PROVE  IInv'
  <2>1. FanOutInv'
    BY <1>3, PublishDoneStep, Zenon DEF IInv
  <2>2. UNCHANGED <<sg, largest, outstandingNewGroupRequest>>
    BY <1>3, Zenon DEF publishDone
  <2> QED
    BY <2>1, <2>2, LargestFrame, Zenon DEF IInv, SubgroupType
<1> QED
  BY <1>1, <1>2, <1>3, SubgroupStepInv, Zenon DEF PublisherStep

(* Every call of the owner preserves IInv.                                 *)
LEMMA OwnerStepInv ==
  ASSUME IInv, OwnerStep
  PROVE  IInv'
<1>1. ASSUME NEW g \in Groups, NEW o \in Objects, upstreamLargest(Loc(g, o))
      PROVE  IInv'
  <2>1. g \in Nat /\ o \in Nat
    BY ForwarderAssumption, SMTT(30) DEF Groups, Objects
  <2>2. updateLargest(Loc(g, o)) /\ UNCHANGED sg
    BY <1>1, Zenon DEF upstreamLargest
  <2>3. Loc(g, o) \in Nat
    BY <2>1, LocNat, Zenon
  <2>4. LargestInv'
    BY <2>2, <2>3, LargestStep, Zenon DEF IInv
  <2>5. FanOutInv'
    BY <1>1, FrameInv, Zenon DEF upstreamLargest, FanOutCounts, IInv
  <2> QED
    BY <2>2, <2>4, <2>5, Zenon DEF IInv, SubgroupType
<1>2. ASSUME destroy
      PROVE  IInv'
  <2>1. FanOutInv'
    BY <1>2, DestroyStep, Zenon DEF IInv
  <2>2. LargestInv'
    BY <1>2, LargestFrame, Zenon DEF destroy, IInv
  <2>3. NewSubgroup \in SubgroupForwarder
    BY Zenon DEF NewSubgroup, SubgroupForwarder
  <2> QED
    BY <1>2, <2>1, <2>2, <2>3, Zenon DEF destroy, IInv, SubgroupType
<1> QED
  BY <1>1, <1>2, Zenon DEF OwnerStep

(* A step outside the forwarder preserves IInv.                            *)
LEMMA StutterInv ==
  ASSUME IInv, UNCHANGED vars
  PROVE  IInv'
BY ZenonT(30) DEF IInv, FanOutInv, FanOutType, LargestInv, SubgroupType, PassiveKept, CountsAgree,
       OpenIsRegistered, DrainingHoldsStream, DeferredDoneIsReleased, EndIsTold,
       ReleaseTells, NoLostOnEmpty, UpstreamSends, OutstandingIsUnmet, Active, Forwarding, vars

(* IInv holds of a new forwarder.                                          *)
LEMMA InitInv == Init => IInv
<1> SUFFICES ASSUME Init PROVE IInv
  BY Zenon
<1> USE DEF Init
<1>1. FanOutType
  BY NoSubscriberType, Zenon DEF FanOutType
<1>2. CountsAgree
  <2>1. Forwarding(subscribers) = {} /\ subscribers \ Active(subscribers) = {}
    BY Zenon DEF Forwarding, Active
  <2> QED
    BY <2>1, FS_EmptySet, Zenon DEF CountsAgree
<1>3. PassiveKept /\ OpenIsRegistered /\ DrainingHoldsStream
  BY Zenon DEF PassiveKept, OpenIsRegistered, DrainingHoldsStream
<1>4. DeferredDoneIsReleased /\ EndIsTold /\ ReleaseTells /\ NoLostOnEmpty /\ UpstreamSends
  BY DEF DeferredDoneIsReleased, EndIsTold, ReleaseTells, NoLostOnEmpty, UpstreamSends
<1>5. LargestInv
  BY Zenon DEF LargestInv, OutstandingIsUnmet
<1>6. SubgroupType
  <2>1. NewSubgroup \in SubgroupForwarder
    BY Zenon DEF NewSubgroup, SubgroupForwarder
  <2> QED
    BY <2>1, Zenon DEF SubgroupType
<1> QED
  BY <1>1, <1>2, <1>3, <1>4, <1>5, <1>6, Zenon DEF IInv, FanOutInv

(* IInv is inductive: it holds of a new forwarder and every call keeps it. *)
THEOREM Inductive == Spec => []IInv
<1>1. IInv /\ [Next]_vars => IInv'
  <2> SUFFICES ASSUME IInv, [Next]_vars PROVE IInv'
    BY Zenon
  <2> QED
    BY SubscriberStepInv, PublisherStepInv, OwnerStepInv, StutterInv, Zenon DEF Next
<1> QED
  BY <1>1, InitInv, PTL DEF Spec

(* The state keeps its shape; no counter of the forwarder underflows.      *)
THEOREM TypeCorrect == Spec => []TypeOK
<1>1. IInv => TypeOK
  BY Zenon DEF IInv, FanOutInv, FanOutType, LargestInv, SubgroupType, TypeOK
<1> QED
  BY <1>1, Inductive, PTL

(* forwardingSubscribers_ and passiveCount_ are the numbers of forwarding  *)
(* and of passive subscribers, whatever the calls and their interleaving;  *)
(* open consumers belong to open subgroups, and a subscriber that was told *)
(* of the end stays only while it has one.                                 *)
THEOREM FanOutCorrect == Spec => []FanOutAgrees
<1>1. IInv => FanOutAgrees
  BY Zenon DEF IInv, FanOutInv, FanOutAgrees
<1> QED
  BY <1>1, Inductive, PTL

(* The end of the source reaches every subscriber: a deferred PUBLISH_DONE *)
(* has a subgroup that will release it, once none is deferred everyone has *)
(* been told, and the destructor forgets no one.                           *)
THEOREM EndCorrect == Spec => []EndIsReleased
<1>1. IInv => EndIsReleased
  BY Zenon DEF IInv, FanOutInv, EndIsReleased
<1> QED
  BY <1>1, Inductive, PTL

(* The owner is not left waiting: onEmpty is not lost, upstream has been   *)
(* asked to send whenever a subscriber forwards, unless its refusal is     *)
(* remembered, and an outstanding NEW_GROUP_REQUEST asks for a group to    *)
(* come.                                                                   *)
THEOREM OwnerInformed == Spec => []OwnerIsInformed
<1>1. IInv => OwnerIsInformed
  BY Zenon DEF IInv, FanOutInv, LargestInv, OwnerIsInformed
<1> QED
  BY <1>1, Inductive, PTL

=============================================================================
