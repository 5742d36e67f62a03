------------------------ MODULE MoQRelayTracksProofs ------------------------
(***************************************************************************)
(* Proofs about MoQRelay: subscriptions_, its forwarders and the subscribes*)
(* that coalesce, through the coroutines of subscribe, publish and their   *)
(* ends, for any sessions, tracks and forwarders.                          *)
(***************************************************************************)
EXTENDS MoQRelayStateProofs

-----------------------------------------------------------------------------
(* Subscribing.                                                            *)

DropWaiter(st, c) == [st EXCEPT !.coalescing = @ \ {c}]

LEMMA DropWaiterFollows ==
  ASSUME NEW st \in State, NEW c PROVE Follows(st, DropWaiter(st, c))
<1> DEFINE u == DropWaiter(st, c)
<1>1. /\ u \in State /\ u.subscriptions = st.subscriptions /\ u.forwarders = st.forwarders
      /\ u.coalescing = st.coalescing \ {c}
  BY Zenon DEF DropWaiter, State
<1> HIDE DEF u
<1>2. Moves(st, u, {})
  BY <1>1, Zenon DEF Moves
<1> QED
  BY <1>2, Zenon DEF Follows, u

LEMMA CalmCoalesced ==
  ASSUME RelayAssumption, TracksInv, NEW c \in coalescing, resumeCoalesced(c) \/ cancelCoalesced(c)
  PROVE  Calm
<1> DEFINE resumed == DropWaiter(Current, c)
           found == Find(Current, c.request.track)
           sub == CHOOSE x \in found : TRUE
           u == addSubscriber(resumed, sub.forwarder, c.request.session, c.request.forward)
<1>1. Good(Current) /\ publishing \in SUBSET PublishTask
  BY Zenon DEF TracksInv
<1>2. \/ Commit(resumed, publishing)
      \/ found # {} /\ Commit(u, publishing)
  BY Zenon DEF resumeCoalesced, cancelCoalesced, DropWaiter
<1>3. Follows(Current, resumed)
  BY CurrentParts, DropWaiterFollows, Zenon
<1>4. ASSUME found # {} PROVE Follows(Current, u)
  <2>1. sub \in subscriptions
    BY <1>4, CurrentParts, Zenon DEF Find
  <2> HIDE DEF sub, resumed
  <2>2. sub.forwarder \in Forwarders
    BY <2>1, CurrentParts, Zenon
  <2>3. c.request.session \in Sessions
    <3>1. c.request \in Request
      BY CurrentParts, StateShape, Zenon
    <3> QED
      BY <3>1, Zenon DEF Request, RelayAssumption
  <2>4. Good(resumed)
    BY <1>1, <1>3, GoodFollows, Zenon
  <2>5. Follows(resumed, u)
    BY <2>2, <2>3, <2>4, addSubscriberFollows, Zenon
  <2> QED
    BY <1>1, <1>3, <2>5, FollowsOn, Zenon
<1> HIDE DEF resumed, found, sub, u
<1> QED
  BY <1>1, <1>2, <1>3, <1>4, CalmFollows, Zenon

(* A subscribe waits for an entry that is there and not fulfilled.         *)
AddWaiter(st, c) == [st EXCEPT !.coalescing = @ \cup {c}]

LEMMA GoodWaiting ==
  ASSUME NEW st, Good(st), NEW c \in Coalesced, NEW sub \in st.subscriptions,
         sub.forwarder = c.forwarder, sub.track = c.request.track, ~sub.fulfilled
  PROVE  /\ Good(AddWaiter(st, c)) /\ Live(AddWaiter(st, c)) = Live(st)
         /\ \A g : TaskOK(st, g) => TaskOK(AddWaiter(st, c), g)
<1> DEFINE u == AddWaiter(st, c)
<1>1. st \in State
  BY Zenon DEF Good
<1>2. /\ u \in State /\ u.subscriptions = st.subscriptions /\ u.forwarders = st.forwarders
      /\ u.coalescing = st.coalescing \cup {c}
  BY <1>1, Zenon DEF AddWaiter, State
<1> HIDE DEF u
<1>3. Good(u)
  BY <1>2, Zenon DEF Good
<1>4. Live(u) = Live(st)
  BY <1>2, Zenon DEF Live
<1>5. \A g : TaskOK(st, g) => TaskOK(u, g)
  BY <1>2, Zenon DEF TaskOK
<1> QED
  BY <1>3, <1>4, <1>5, Zenon DEF u

LEMMA CalmExisting ==
  ASSUME RelayAssumption, TracksInv, NEW r \in Request, NEW sub \in Find(Current, r.track),
         Commit(subscribeToExistingRelaySubscription(Current, sub, r), publishing)
  PROVE  Calm
<1>1. Good(Current) /\ publishing \in SUBSET PublishTask
  BY Zenon DEF TracksInv
<1>2. sub \in Current.subscriptions /\ sub.track = r.track /\ sub.forwarder \in Forwarders
  BY CurrentParts, Zenon DEF Find
<1>3. r.session \in Sessions
  BY Zenon DEF Request, RelayAssumption
<1>4. CASE sub.fulfilled
  <2>1. Commit(addSubscriber(Current, sub.forwarder, r.session, r.forward), publishing)
    BY <1>4, Zenon DEF subscribeToExistingRelaySubscription
  <2>2. Follows(Current, addSubscriber(Current, sub.forwarder, r.session, r.forward))
    BY <1>1, <1>2, <1>3, addSubscriberFollows, Zenon
  <2> QED
    BY <1>1, <2>1, <2>2, CalmFollows, Zenon
<1>5. CASE ~sub.fulfilled
  <2> DEFINE c == [request |-> r, forwarder |-> sub.forwarder, waits |-> TRUE]
             u == AddWaiter(Current, c)
  <2>1. Commit(u, publishing)
    BY <1>5, Zenon DEF subscribeToExistingRelaySubscription, AddWaiter
  <2>2. c \in Coalesced /\ c.forwarder = sub.forwarder /\ c.request = r
    BY <1>2, Zenon DEF Coalesced
  <2> HIDE DEF c
  <2>3. /\ Good(u) /\ Live(u) = Live(Current)
        /\ \A g : TaskOK(Current, g) => TaskOK(u, g)
    BY <1>1, <1>2, <1>5, <2>2, GoodWaiting, Zenon
  <2> HIDE DEF u
  <2>4. TasksOK(Current, publishing) => TasksOK(u, publishing)
    BY <2>3, Zenon DEF TasksOK
  <2> QED
    BY <1>1, <2>1, <2>3, <2>4, CalmCommit, Zenon
<1> QED
  BY <1>4, <1>5, Zenon

(* A forwarder for a new entry: nothing refers to it yet.                  *)
LEMMA UnusedIsFree ==
  ASSUME TracksInv, NEW f \in Forwarders, Unused(f)
  PROVE  /\ \A x \in Current.subscriptions : x.forwarder # f
         /\ ~TaskOK(Current, f)
<1>1. Current.forwarders[f].upstream = "none"
  BY CurrentParts DEF Unused, NoForwarder
<1>2. \A x \in Current.subscriptions : EntryOK(x, Current.forwarders[x.forwarder])
  BY Zenon DEF TracksInv, Good
<1> QED
  BY <1>1, <1>2, Zenon DEF EntryOK, TaskOK

FirstEntry(r, upstream, f) ==
  [track |-> r.track, forwarder |-> f, upstream |-> upstream, handle |-> FALSE,
   fulfilled |-> FALSE, isPublish |-> FALSE]
FirstForwarder(r) ==
  [NoForwarder EXCEPT
     !.track = r.track, !.subscribers = {r.session},
     !.forwarding = IF r.forward THEN {r.session} ELSE {},
     !.upstream = "pending", !.starting = TRUE, !.told = r.forward]

PutAndAdd(st, f, w, x) == [st EXCEPT !.subscriptions = @ \cup {x}, !.forwarders[f] = w]

LEMMA PutThenAdd ==
  ASSUME NEW st \in State, NEW f \in Forwarders, NEW w, NEW x
  PROVE  AddEntry(Put(st, f, w), x) = PutAndAdd(st, f, w, x)
  BY Zenon DEF AddEntry, Put, PutAndAdd, State

LEMMA FirstShape ==
  ASSUME RelayAssumption, NEW r \in Request, NEW upstream \in Sessions, NEW f \in Forwarders
  PROVE  /\ FirstEntry(r, upstream, f) \in RelaySubscription
         /\ FirstEntry(r, upstream, f).track = r.track /\ FirstEntry(r, upstream, f).forwarder = f
         /\ ~FirstEntry(r, upstream, f).isPublish
         /\ FirstForwarder(r) \in Sized /\ RequestOK(FirstForwarder(r))
         /\ EntryOK(FirstEntry(r, upstream, f), FirstForwarder(r))
<1>1. /\ r.session \in Sessions /\ r.track \in Tracks /\ r.forward \in BOOLEAN
  BY Zenon DEF Request, RelayAssumption
<1> DEFINE x == FirstEntry(r, upstream, f)
           w == FirstForwarder(r)
<1>2. /\ x \in RelaySubscription /\ x.track = r.track /\ x.forwarder = f
      /\ ~x.isPublish /\ ~x.handle /\ ~x.fulfilled
  BY <1>1, Zenon DEF FirstEntry, RelaySubscription
<1>3. NoForwarder \in Forwarder
  BY NoForwarderShape, Zenon DEF Sized
<1>4. w \in Sized /\ w.track = r.track /\ w.upstream = "pending" /\ w.starting
  BY <1>1, <1>3, Zenon DEF FirstForwarder, Sized, Forwarder
<1> HIDE DEF x, w
<1>5. RequestOK(w) /\ EntryOK(x, w)
  BY <1>2, <1>4, Zenon DEF RequestOK, EntryOK
<1> QED
  BY <1>2, <1>4, <1>5, Zenon DEF x, w

LEMMA CalmFirst ==
  ASSUME RelayAssumption, TracksInv, NEW r \in Request, NEW upstream \in Sessions,
         NEW f \in Forwarders, Unused(f), Find(Current, r.track) = {},
         Commit(subscribeToFirstRelaySubscription(Current, r, upstream, f), publishing)
  PROVE  Calm
<1> DEFINE x == FirstEntry(r, upstream, f)
           w == FirstForwarder(r)
           u1 == Put(Current, f, w)
           u == AddEntry(u1, x)
<1>1. Good(Current) /\ publishing \in SUBSET PublishTask /\ Current \in State
  BY CurrentParts, Zenon DEF TracksInv
<1>2. u = subscribeToFirstRelaySubscription(Current, r, upstream, f)
  <2>1. subscribeToFirstRelaySubscription(Current, r, upstream, f) = PutAndAdd(Current, f, w, x)
    BY Zenon DEF subscribeToFirstRelaySubscription, FirstEntry, FirstForwarder, PutAndAdd
  <2> HIDE DEF x, w
  <2> QED
    BY <1>1, <2>1, PutThenAdd, Zenon
<1>3. /\ x \in RelaySubscription /\ x.track = r.track /\ x.forwarder = f /\ ~x.isPublish
      /\ w \in Sized /\ RequestOK(w) /\ EntryOK(x, w)
  BY FirstShape
<1> HIDE DEF x, w
<1>4. (\A y \in Current.subscriptions : y.forwarder # f) /\ ~TaskOK(Current, f)
  BY UnusedIsFree, Zenon
<1>5. /\ Good(u1) /\ Live(u1) = Live(Current)
      /\ \A g \in Forwarders : g # f /\ TaskOK(Current, g) => TaskOK(u1, g)
  BY <1>1, <1>3, <1>4, GoodPutFree, Zenon
<1>6. u1.subscriptions = Current.subscriptions /\ u1.forwarders[f] = w
  BY <1>1, <1>3, PutShape, SMTT(30)
<1> HIDE DEF u1
<1>7. \A y \in u1.subscriptions : y.track # x.track /\ y.forwarder # x.forwarder
  BY <1>3, <1>4, <1>6, Zenon DEF Find
<1>8. EntryOK(x, u1.forwarders[x.forwarder])
  BY <1>3, <1>6, Zenon
<1>9. /\ Good(u)
      /\ Live(u) = Live(u1) \cup (IF x.isPublish /\ x.handle THEN {x} ELSE {})
      /\ \A g \in Forwarders : TaskOK(u1, g) /\ (g = x.forwarder => x.isPublish) => TaskOK(u, g)
  BY <1>3, <1>5, <1>7, <1>8, GoodAdded, Zenon
<1> HIDE DEF u
<1>10. Live(u) = Live(Current)
  BY <1>3, <1>5, <1>9, Zenon
<1>11. ASSUME TasksOK(Current, publishing) PROVE TasksOK(u, publishing)
  <2> SUFFICES ASSUME NEW p \in publishing PROVE TaskOK(u, p.forwarder)
    BY Zenon DEF TasksOK
  <2>1. p.forwarder \in Forwarders /\ TaskOK(Current, p.forwarder)
    BY <1>1, <1>11, Zenon DEF PublishTask, TasksOK
  <2> QED
    BY <1>3, <1>4, <1>5, <1>9, <2>1, Zenon
<1> QED
  BY <1>1, <1>2, <1>9, <1>10, <1>11, CalmCommit, Zenon

LEMMA CalmAttach ==
  ASSUME RelayAssumption, TracksInv, NEW r \in Request, NEW f \in Forwarders, Attach(r, f),
         findPublishNamespaceSession(publishNamespaceRoot, r.track[1]) \in Sessions \cup {None}
  PROVE  Calm
<1> DEFINE upstream == findPublishNamespaceSession(publishNamespaceRoot, r.track[1])
<1>1. \/ \E sub \in Find(Current, r.track) :
           Commit(subscribeToExistingRelaySubscription(Current, sub, r), publishing)
      \/ /\ Find(Current, r.track) = {} /\ upstream # None /\ Unused(f)
         /\ Commit(subscribeToFirstRelaySubscription(Current, r, upstream, f), publishing)
  BY Zenon DEF Attach
<1> HIDE DEF upstream
<1>2. upstream \in Sessions \cup {None}
  BY Zenon DEF upstream
<1> QED
  BY <1>1, <1>2, CalmExisting, CalmFirst, Zenon

(* The first subscribe fails: its entry goes with those that wait for it.  *)
FailedForwarder(w) ==
  [w EXCEPT !.upstream = "gone", !.starting = FALSE, !.subscribers = {}, !.forwarding = {}]

LEMMA FailedShape ==
  ASSUME NEW w \in Sized
  PROVE  FailedForwarder(w) \in Sized /\ RequestOK(FailedForwarder(w))
<1> DEFINE v == FailedForwarder(w)
<1>1. v \in Sized /\ v.upstream = "gone" /\ v.starting = FALSE
  BY ForwarderShape, Zenon DEF FailedForwarder, Sized, Forwarder
<1> HIDE DEF v
<1>2. RequestOK(v)
  BY <1>1, Zenon DEF RequestOK
<1> QED
  BY <1>1, <1>2, Zenon DEF v

LEMMA FailedCalm ==
  ASSUME NEW st, Good(st), NEW f \in Forwarders, st.forwarders[f].starting
  PROVE  /\ Good(Failed(st, f)) /\ Live(Failed(st, f)) = Live(st)
         /\ \A g \in Forwarders : TaskOK(st, g) => TaskOK(Failed(st, f), g)
<1> DEFINE own == {sub \in st.subscriptions : sub.forwarder = f}
           u1 == Erase(st, own)
           v == FailedForwarder(u1.forwarders[f])
           u == Put(u1, f, v)
<1>1. u = Failed(st, f)
  BY Zenon DEF Failed, Put, FailedForwarder
<1>2. st \in State
  BY Zenon DEF Good
<1>3. /\ Moves(st, u1, own) /\ u1 \in State /\ u1.subscriptions = st.subscriptions \ own
      /\ u1.forwarders = st.forwarders
  BY <1>2, Erased, Zenon
<1> HIDE DEF u1
<1>4. v \in Sized /\ RequestOK(v)
  BY <1>3, StateShape, FailedShape, Zenon
<1> HIDE DEF v
<1>5. own \in SUBSET (st.subscriptions \ Live(st))
  BY Zenon DEF Good, EntryOK, Live
<1>6. Follows(st, u1)
  BY <1>3, <1>5, Zenon DEF Follows
<1>7. Good(u1) /\ Live(u1) = Live(st)
  BY <1>6, GoodFollows, Zenon
<1>8. \A x \in u1.subscriptions : x.forwarder # f
  BY <1>3, Zenon
<1>9. /\ Good(u) /\ Live(u) = Live(u1)
      /\ \A g \in Forwarders : g # f /\ TaskOK(u1, g) => TaskOK(u, g)
  BY <1>4, <1>7, <1>8, GoodPutFree, Zenon
<1> HIDE DEF u, own
<1>10. ASSUME NEW g \in Forwarders, TaskOK(st, g) PROVE TaskOK(u, g)
  <2>1. TaskOK(u1, g)
    BY <1>6, <1>10, TasksFollow, Zenon
  <2>2. g # f
    BY <1>10, Zenon DEF TaskOK
  <2> QED
    BY <1>9, <2>1, <2>2, Zenon
<1> QED
  BY <1>1, <1>7, <1>9, <1>10, Zenon

(* It succeeds: the entry is fulfilled, and those that wait resume.        *)
WithStarted(w) == [w EXCEPT !.starting = FALSE]

LEMMA StartedShape ==
  ASSUME NEW w \in Sized
  PROVE  /\ WithStarted(w) \in Sized /\ ~WithStarted(w).starting
         /\ WithStarted(w).track = w.track /\ WithStarted(w).upstream = w.upstream
         /\ WithStarted(w).draining = w.draining
BY ForwarderShape, Zenon DEF WithStarted, Sized, Forwarder

FulfilledEntry(x) == [x EXCEPT !.handle = TRUE, !.fulfilled = TRUE]
Resumed(c, f) == [c EXCEPT !.waits = @ /\ c.forwarder # f]

LEMMA FulfilledShape ==
  ASSUME NEW x \in RelaySubscription
  PROVE  /\ FulfilledEntry(x) \in RelaySubscription /\ FulfilledEntry(x).handle
         /\ FulfilledEntry(x).fulfilled /\ FulfilledEntry(x).track = x.track
         /\ FulfilledEntry(x).forwarder = x.forwarder /\ FulfilledEntry(x).isPublish = x.isPublish
BY Zenon DEF FulfilledEntry, RelaySubscription

LEMMA ResumedShape ==
  ASSUME NEW c \in Coalesced, NEW f
  PROVE  /\ Resumed(c, f) \in Coalesced /\ Resumed(c, f).request = c.request
         /\ Resumed(c, f).forwarder = c.forwarder
         /\ Resumed(c, f).waits => c.waits /\ c.forwarder # f
BY Zenon DEF Resumed, Coalesced

LEMMA FulfilledCalm ==
  ASSUME NEW st, Good(st), NEW f \in Forwarders, NEW sub \in st.subscriptions, sub.forwarder = f,
         st.forwarders[f].starting, st.forwarders[f].upstream \notin {"pending", "rejected"},
         NEW u \in State,
         u.subscriptions = (st.subscriptions \ {sub}) \cup {FulfilledEntry(sub)},
         u.forwarders[f] = WithStarted(st.forwarders[f]),
         \A g \in Forwarders : g # f => u.forwarders[g] = st.forwarders[g],
         u.coalescing = {Resumed(c, f) : c \in st.coalescing}
  PROVE  /\ Good(u) /\ Live(u) = Live(st)
         /\ \A g \in Forwarders : TaskOK(st, g) => TaskOK(u, g)
<1> DEFINE w == st.forwarders[f]
           v == WithStarted(w)
           new == FulfilledEntry(sub)
<1>1. st \in State /\ w \in Sized /\ sub \in RelaySubscription
  BY StateShape, Zenon DEF Good
<1>2. /\ v \in Sized /\ ~v.starting /\ v.track = w.track /\ v.upstream = w.upstream
      /\ v.draining = w.draining
  BY <1>1, StartedShape, Zenon
<1>3. /\ new \in RelaySubscription /\ new.handle /\ new.fulfilled /\ new.track = sub.track
      /\ new.forwarder = f /\ new.isPublish = sub.isPublish
  BY <1>1, FulfilledShape, Zenon
<1>4. u.forwarders[f] = v /\ u.subscriptions = (st.subscriptions \ {sub}) \cup {new}
  BY Zenon
<1> HIDE DEF v, new
<1>5. EntryOK(sub, w) /\ RequestOK(w)
  BY Zenon DEF Good
<1>6. ~sub.isPublish /\ ~sub.fulfilled
  BY <1>5, Zenon DEF EntryOK
<1>7. EntryOK(new, v)
  BY <1>2, <1>3, <1>5, <1>6, Zenon DEF EntryOK, RequestOK
<1>8. RequestOK(v)
  BY <1>2, Zenon DEF RequestOK
<1>9. \A x \in u.subscriptions : x # new => x \in st.subscriptions /\ x.forwarder # f /\ x.track # sub.track
  BY <1>4, Zenon DEF Good
<1>10. \A x, y \in u.subscriptions : x # y => x.track # y.track /\ x.forwarder # y.forwarder
  BY <1>3, <1>9 DEF Good
<1>11. \A x \in u.subscriptions : EntryOK(x, u.forwarders[x.forwarder])
  BY <1>1, <1>3, <1>4, <1>7, <1>9, StateShape, SMTT(30) DEF Good
<1>12. \A g \in Forwarders : RequestOK(u.forwarders[g])
  BY <1>4, <1>8, Zenon DEF Good
<1>13. ASSUME NEW d \in u.coalescing, d.waits
       PROVE  \E x \in u.subscriptions : /\ x.forwarder = d.forwarder /\ x.track = d.request.track
                                         /\ ~x.fulfilled
  <2>1. PICK c \in st.coalescing : d = Resumed(c, f)
    OBVIOUS
  <2>2. c.waits /\ c.forwarder # f /\ d.forwarder = c.forwarder /\ d.request = c.request
    BY <1>1, <1>13, <2>1, StateShape, ResumedShape, SMTT(30)
  <2>3. PICK x \in st.subscriptions : /\ x.forwarder = c.forwarder /\ x.track = c.request.track
                                      /\ ~x.fulfilled
    BY <2>2, Zenon DEF Good
  <2> QED
    BY <1>4, <2>2, <2>3, Zenon
<1>14. Good(u)
  BY <1>10, <1>11, <1>12, <1>13, Zenon DEF Good
<1>15. Live(u) = Live(st)
  BY <1>3, <1>4, <1>6, Zenon DEF Live
<1>16. ASSUME NEW g \in Forwarders, TaskOK(st, g) PROVE TaskOK(u, g)
  <2>1. g # f
    BY <1>16, Zenon DEF TaskOK
  <2> QED
    BY <1>3, <1>4, <1>16, <2>1, Zenon DEF TaskOK
<1> QED
  BY <1>14, <1>15, <1>16, Zenon

LEMMA CalmTasks ==
  ASSUME RelayAssumption, TracksInv, NEW u, Good(u), Live(u) = Live(Current),
         \A g \in Forwarders : TaskOK(Current, g) => TaskOK(u, g), Commit(u, publishing)
  PROVE  Calm
<1>1. publishing \in SUBSET PublishTask
  BY Zenon DEF TracksInv
<1>2. \A p \in publishing : p.forwarder \in Forwarders
  BY <1>1, Zenon DEF PublishTask
<1>3. TasksOK(Current, publishing) => TasksOK(u, publishing)
  BY <1>2, Zenon DEF TasksOK
<1> QED
  BY <1>1, <1>3, CalmCommit, Zenon

LEMMA CalmCancel ==
  ASSUME RelayAssumption, TracksInv, NEW f \in Forwarders, cancelFirst(f)
  PROVE  Calm
<1>1. Current.forwarders[f].upstream = "pending"
  BY CurrentParts, Zenon DEF cancelFirst
<1>2. Good(Current) /\ Current.forwarders[f].starting
  BY <1>1, Zenon DEF TracksInv, Good, RequestOK
<1>3. Commit(Failed(Current, f), publishing)
  BY Zenon DEF cancelFirst
<1> QED
  BY <1>2, <1>3, FailedCalm, CalmTasks, Zenon

LEMMA CalmResume ==
  ASSUME RelayAssumption, TracksInv, NEW f \in Forwarders, resumeFirst(f)
  PROVE  Calm
<1> DEFINE w == forwarders[f]
           found == {sub \in Find(Current, w.track) : sub.forwarder = f}
           sub == CHOOSE x \in found : TRUE
           resumed == Put(Current, f, WithStarted(w))
           replaced == Replace(resumed, sub, FulfilledEntry(sub))
           fulfilled == [replaced EXCEPT !.coalescing = {Resumed(c, f) : c \in @}]
<1>1. /\ w.starting /\ w.upstream # "pending"
      /\ Commit(IF w.upstream = "rejected" THEN Failed(Current, f)
                ELSE IF found = {} THEN resumed ELSE fulfilled, publishing)
  BY CurrentParts, Zenon DEF resumeFirst, Put, WithStarted, FulfilledEntry, Resumed
<1>2. /\ Good(Current) /\ Current \in State /\ Current.subscriptions = subscriptions
      /\ Current.forwarders = forwarders /\ Current.coalescing = coalescing /\ w \in Sized
  BY CurrentParts, Zenon DEF TracksInv
<1>3. /\ WithStarted(w) \in Sized /\ ~WithStarted(w).starting
      /\ WithStarted(w).upstream = w.upstream
  BY <1>2, StartedShape, Zenon
<1>4. /\ resumed \in State /\ resumed.subscriptions = subscriptions
      /\ resumed.coalescing = coalescing /\ resumed.forwarders[f] = WithStarted(w)
      /\ \A g \in Forwarders : g # f => resumed.forwarders[g] = forwarders[g]
  BY <1>2, <1>3, PutShape
<1>5. CASE w.upstream = "rejected"
  <2>1. Commit(Failed(Current, f), publishing) /\ Current.forwarders[f].starting
    BY <1>1, <1>2, <1>5, Zenon
  <2> QED
    BY <1>2, <2>1, FailedCalm, CalmTasks, Zenon
<1>6. CASE w.upstream # "rejected" /\ found = {}
  <2>1. Commit(resumed, publishing)
    BY <1>1, <1>6, Zenon
  <2>2. \A x \in Current.subscriptions : x.forwarder # f
    BY <1>2, <1>6, SMTT(30) DEF Find, Good, EntryOK
  <2>3. RequestOK(WithStarted(w))
    BY <1>1, <1>3, <1>6, Zenon DEF RequestOK
  <2>4. /\ Good(resumed) /\ Live(resumed) = Live(Current)
        /\ \A g \in Forwarders : g # f /\ TaskOK(Current, g) => TaskOK(resumed, g)
    BY <1>2, <1>3, <2>2, <2>3, GoodPutFree, Zenon
  <2>5. ~TaskOK(Current, f)
    BY <1>1, <1>2, Zenon DEF TaskOK
  <2> HIDE DEF resumed
  <2> QED
    BY <2>1, <2>4, <2>5, CalmTasks, Zenon
<1>7. CASE w.upstream # "rejected" /\ found # {}
  <2>1. sub \in found
    BY <1>7, Zenon
  <2>2. sub \in subscriptions /\ sub.forwarder = f
    BY <1>2, <2>1, Zenon DEF Find
  <2> HIDE DEF resumed, sub, found
  <2>3. FulfilledEntry(sub) \in RelaySubscription
    BY <1>2, <2>2, StateShape, FulfilledShape, Zenon
  <2>4. \A c \in coalescing : Resumed(c, f) \in Coalesced
    BY <1>2, StateShape, ResumedShape, Zenon
  <2>5. /\ fulfilled.subscriptions = (subscriptions \ {sub}) \cup {FulfilledEntry(sub)}
        /\ fulfilled.forwarders = resumed.forwarders
        /\ fulfilled.coalescing = {Resumed(c, f) : c \in coalescing}
        /\ fulfilled = [subscriptions |-> fulfilled.subscriptions,
                        forwarders |-> fulfilled.forwarders, coalescing |-> fulfilled.coalescing]
    <3> DEFINE left == (subscriptions \ {sub}) \cup {FulfilledEntry(sub)}
    <3>1. /\ resumed = [subscriptions |-> subscriptions, forwarders |-> resumed.forwarders,
                        coalescing |-> coalescing]
      BY <1>4, Zenon DEF State
    <3>2. replaced = [subscriptions |-> left, forwarders |-> resumed.forwarders,
                      coalescing |-> coalescing]
      BY <3>1 DEF Replace
    <3> HIDE DEF left, replaced
    <3>3. fulfilled = [subscriptions |-> left, forwarders |-> resumed.forwarders,
                       coalescing |-> {Resumed(c, f) : c \in coalescing}]
      BY <3>2
    <3> HIDE DEF fulfilled
    <3> QED
      BY <3>3, Zenon DEF left
  <2>6. Commit(fulfilled, publishing)
    BY <1>1, <1>7, Zenon
  <2> HIDE DEF fulfilled
  <2>7. fulfilled \in State
    <3>1. fulfilled.subscriptions \in SUBSET RelaySubscription
      BY <1>2, <2>3, <2>5, StateShape, Zenon
    <3>2. fulfilled.coalescing \in SUBSET Coalesced
      BY <2>4, <2>5, Zenon
    <3>3. fulfilled.forwarders \in [Forwarders -> Sized]
      BY <1>4, <2>5, StateShape, Zenon
    <3> QED
      BY <2>5, <3>1, <3>2, <3>3, Zenon DEF State
  <2>8. /\ fulfilled.subscriptions = (Current.subscriptions \ {sub}) \cup {FulfilledEntry(sub)}
        /\ fulfilled.forwarders[f] = WithStarted(Current.forwarders[f])
        /\ \A g \in Forwarders : g # f => fulfilled.forwarders[g] = Current.forwarders[g]
        /\ fulfilled.coalescing = {Resumed(c, f) : c \in Current.coalescing}
    BY <1>2, <1>4, <2>5, Zenon
  <2>9. /\ sub \in Current.subscriptions /\ Current.forwarders[f].starting
        /\ Current.forwarders[f].upstream \notin {"pending", "rejected"}
    BY <1>1, <1>2, <1>7, <2>2, Zenon
  <2>10. /\ Good(fulfilled) /\ Live(fulfilled) = Live(Current)
         /\ \A g \in Forwarders : TaskOK(Current, g) => TaskOK(fulfilled, g)
    BY <1>2, <2>2, <2>7, <2>8, <2>9, FulfilledCalm, ZenonT(30)
  <2> QED
    BY <2>6, <2>10, CalmTasks, Zenon
<1> QED
  BY <1>5, <1>6, <1>7, Zenon

-----------------------------------------------------------------------------
(* publishToSession.                                                       *)

SentTask(p) == [p EXCEPT !.sent = TRUE]

LEMMA CalmPublishing ==
  ASSUME RelayAssumption, TracksInv, NEW p \in publishing, NEW ok, NEW forward,
         publishToSession(p, ok) \/ publishAnswered(p, ok, forward)
  PROVE  Calm
<1> DEFINE f == p.forwarder
           s == p.session
           others == publishing \ {p}
           more == others \cup {SentTask(p)}
           added == addSubscriber(Current, f, s, p.forward)
<1>1. /\ Good(Current) /\ Current \in State /\ Current.forwarders = forwarders
      /\ publishing \in SUBSET PublishTask
  BY CurrentParts, Zenon DEF TracksInv
<1>2. f \in Forwarders /\ s \in Sessions /\ p.forward \in BOOLEAN
  BY <1>1, Zenon DEF PublishTask
<1>3. SentTask(p) \in PublishTask /\ SentTask(p).forwarder = f
  BY <1>1, Zenon DEF SentTask, PublishTask
<1>4. others \in SUBSET PublishTask /\ more \in SUBSET PublishTask
  BY <1>1, <1>3, Zenon
<1>5. /\ \A q \in others : \E x \in publishing : x.forwarder = q.forwarder
      /\ \A q \in more : \E x \in publishing : x.forwarder = q.forwarder
  BY <1>3, Zenon
<1>6. Follows(Current, Current)
  BY <1>1, FollowsItself, Zenon
<1>7. CASE publishToSession(p, ok)
  <2>1. \/ Commit(Current, others) \/ Commit(added, more)
        \/ Commit(removeSubscribers(added, f, {s}), others)
    BY <1>7, Zenon DEF publishToSession, SentTask
  <2>2. Follows(Current, added)
    BY <1>1, <1>2, addSubscriberFollows, Zenon
  <2> HIDE DEF added, others, more
  <2>3. Follows(added, removeSubscribers(added, f, {s}))
    BY <1>1, <1>2, <2>2, GoodFollows, removeSubscribersFollows, Zenon
  <2>4. Follows(Current, removeSubscribers(added, f, {s}))
    BY <1>1, <2>2, <2>3, FollowsOn, Zenon
  <2> QED
    BY <1>4, <1>5, <1>6, <2>1, <2>2, <2>4, CalmFollows, Zenon
<1>8. CASE publishAnswered(p, ok, forward)
  <2>1. \/ Commit(Current, others) \/ Commit(removeSubscribers(Current, f, {s}), others)
        \/ /\ s \in forwarders[f].subscribers
           /\ Commit(updateForwardState(Current, f, s, TRUE \in forward), others)
    BY <1>8, Zenon DEF publishAnswered
  <2>2. Follows(Current, removeSubscribers(Current, f, {s}))
    BY <1>1, <1>2, removeSubscribersFollows, Zenon
  <2>3. ASSUME s \in forwarders[f].subscribers
        PROVE  Follows(Current, updateForwardState(Current, f, s, TRUE \in forward))
    BY <1>1, <1>2, <2>3, updateForwardStateFollows, Zenon
  <2> HIDE DEF others
  <2> QED
    BY <1>4, <1>5, <1>6, <2>1, <2>2, <2>3, CalmFollows, Zenon
<1> QED
  BY <1>7, <1>8, Zenon

-----------------------------------------------------------------------------
(* A publisher ends its track.                                             *)

EndedEntry(x) == [x EXCEPT !.handle = FALSE, !.upstream = None]

LEMMA EndedShape ==
  ASSUME NEW x \in RelaySubscription
  PROVE  /\ EndedEntry(x) \in RelaySubscription /\ ~EndedEntry(x).handle
         /\ EndedEntry(x).fulfilled = x.fulfilled /\ EndedEntry(x).track = x.track
         /\ EndedEntry(x).forwarder = x.forwarder /\ EndedEntry(x).isPublish = x.isPublish
BY Zenon DEF EndedEntry, RelaySubscription

LEMMA EndedReplaced ==
  ASSUME NEW st, Good(st), NEW sub \in st.subscriptions
  PROVE  LET u == Replace(st, sub, EndedEntry(sub))
         IN  /\ Good(u) /\ Live(u) = Live(st) \ {sub}
             /\ \A g \in Forwarders : TaskOK(st, g) => TaskOK(u, g)
<1> DEFINE new == EndedEntry(sub)
           u == Replace(st, sub, new)
<1>1. st \in State /\ sub \in RelaySubscription
  BY StateShape, Zenon DEF Good
<1>2. /\ new \in RelaySubscription /\ ~new.handle /\ new.fulfilled = sub.fulfilled
      /\ new.track = sub.track /\ new.forwarder = sub.forwarder /\ new.isPublish = sub.isPublish
  BY <1>1, EndedShape, Zenon
<1> HIDE DEF new
<1>3. /\ u \in State /\ u.subscriptions = (st.subscriptions \ {sub}) \cup {new}
      /\ u.forwarders = st.forwarders /\ u.coalescing = st.coalescing
  BY <1>1, <1>2, Zenon DEF Replace, State
<1> HIDE DEF u
<1>4. EntryOK(sub, st.forwarders[sub.forwarder])
  BY Zenon DEF Good
<1>5. EntryOK(new, u.forwarders[new.forwarder])
  BY <1>2, <1>3, <1>4, Zenon DEF EntryOK
<1>6. \A x \in u.subscriptions : x # new =>
        x \in st.subscriptions /\ x.track # new.track /\ x.forwarder # new.forwarder
  BY <1>2, <1>3, ZenonT(30) DEF Good
<1>7. \A x, y \in u.subscriptions : x # y => x.track # y.track /\ x.forwarder # y.forwarder
  BY <1>6, Zenon DEF Good
<1>8. \A x \in u.subscriptions : EntryOK(x, u.forwarders[x.forwarder])
  BY <1>3, <1>5, <1>6, Zenon DEF Good
<1>9. ASSUME NEW c \in u.coalescing, c.waits
      PROVE  \E x \in u.subscriptions : /\ x.forwarder = c.forwarder /\ x.track = c.request.track
                                        /\ ~x.fulfilled
  <2>1. PICK x \in st.subscriptions : /\ x.forwarder = c.forwarder /\ x.track = c.request.track
                                      /\ ~x.fulfilled
    BY <1>3, <1>9, Zenon DEF Good
  <2> QED
    BY <1>2, <1>3, <2>1, Zenon
<1>10. Good(u)
  BY <1>3, <1>7, <1>8, <1>9, Zenon DEF Good
<1>11. Live(u) = Live(st) \ {sub}
  BY <1>2, <1>3, Zenon DEF Live
<1>12. \A g \in Forwarders : TaskOK(st, g) => TaskOK(u, g)
  BY <1>2, <1>3, Zenon DEF TaskOK
<1> QED
  BY <1>10, <1>11, <1>12, Zenon DEF u, new

LEMMA GoodErased ==
  ASSUME NEW st, Good(st), NEW subs \in SUBSET st.subscriptions
  PROVE  /\ Good(Erase(st, subs)) /\ Live(Erase(st, subs)) = Live(st) \ subs
         /\ \A g \in Forwarders : TaskOK(st, g) => TaskOK(Erase(st, subs), g)
<1> DEFINE u == Erase(st, subs)
<1>1. st \in State
  BY Zenon DEF Good
<1>2. Moves(st, u, subs) /\ u.subscriptions = st.subscriptions \ subs /\ u.forwarders = st.forwarders
  BY <1>1, Erased, Zenon
<1> HIDE DEF u
<1>3. Good(u)
  BY <1>2, GoodMoves, Zenon
<1>4. Live(u) = Live(st) \ subs
  BY <1>2, Zenon DEF Live
<1>5. \A g \in Forwarders : TaskOK(st, g) => TaskOK(u, g)
  BY <1>2, Zenon DEF TaskOK
<1> QED
  BY <1>3, <1>4, <1>5, Zenon DEF u

LEMMA onPublishDoneImplEnds ==
  ASSUME NEW st, Good(st), NEW track
  PROVE  LET u == onPublishDoneImpl(st, track)
         IN  /\ Good(u) /\ Live(u) = {x \in Live(st) : x.track # track}
             /\ \A g \in Forwarders : TaskOK(st, g) => TaskOK(u, g)
<1> DEFINE found == Find(st, track)
           sub == CHOOSE x \in found : TRUE
           u == onPublishDoneImpl(st, track)
<1>1. \/ found = {} /\ u = st
      \/ found # {} /\ u = Erase(st, found)
      \/ found # {} /\ u = Replace(st, sub, EndedEntry(sub))
  BY Zenon DEF onPublishDoneImpl, EndedEntry
<1> HIDE DEF u
<1>2. CASE found = {} /\ u = st
  <2>1. Live(st) = {x \in Live(st) : x.track # track}
    BY <1>2, Zenon DEF Live, Find
  <2> QED
    BY <1>2, <2>1, Zenon DEF u
<1>3. CASE found # {}
  <2>1. sub \in found
    BY <1>3, Zenon
  <2> HIDE DEF sub
  <2>2. found = {sub} /\ sub.track = track /\ sub \in st.subscriptions
    BY <2>1, OneFound, Zenon
  <2>3. \A x \in st.subscriptions : x = sub <=> x.track = track
    BY <2>2, Zenon DEF Find
  <2> HIDE DEF found
  <2>4. Live(st) \ {sub} = {x \in Live(st) : x.track # track}
    BY <2>3, Zenon DEF Live
  <2>5. /\ Good(u) /\ Live(u) = Live(st) \ {sub}
        /\ \A g \in Forwarders : TaskOK(st, g) => TaskOK(u, g)
    <3>1. CASE u = Erase(st, found)
      BY <2>2, <3>1, GoodErased, Zenon
    <3>2. CASE u = Replace(st, sub, EndedEntry(sub))
      BY <2>2, <3>2, EndedReplaced, Zenon
    <3> QED
      BY <1>1, <1>3, <3>1, <3>2, Zenon
  <2> QED
    BY <2>4, <2>5, Zenon DEF u
<1> QED
  BY <1>1, <1>2, <1>3, Zenon

LEMMA PublishEnded ==
  ASSUME RelayAssumption, TracksInv, NEW f \in Forwarders, NEW stay, publishDone(f, stay)
  PROVE  /\ TracksInv' /\ AllHeld'
         /\ Live(Current)' = {x \in Live(Current) : x.track # forwarders[f].track}
         /\ TasksOK(Current, publishing) => TasksOK(Current, publishing)'
<1> DEFINE track == forwarders[f].track
           u1 == onPublishDoneImpl(Current, track)
           u2 == drainForwarder(u1, f, stay)
           u == Put(u2, f, WithUpstream(u2.forwarders[f], "gone"))
<1>1. Commit(u, publishing)
  BY Zenon DEF publishDone, Put, WithUpstream
<1>2. Good(Current) /\ publishing \in SUBSET PublishTask /\ detached \subseteq Sessions
  BY Zenon DEF TracksInv
<1>3. /\ Good(u1) /\ Live(u1) = {x \in Live(Current) : x.track # track}
      /\ \A g \in Forwarders : TaskOK(Current, g) => TaskOK(u1, g)
  BY <1>2, onPublishDoneImplEnds, Zenon
<1> HIDE DEF u1
<1>4. Follows(u1, u2) /\ u2.forwarders[f].draining
  BY <1>3, drainForwarderFollows, Zenon
<1> HIDE DEF u2
<1>5. /\ Good(u2) /\ Live(u2) = Live(u1)
      /\ \A g \in Forwarders : TaskOK(u1, g) => TaskOK(u2, g)
  BY <1>3, <1>4, GoodFollows, TasksFollow, Zenon
<1>6. /\ Good(u) /\ Live(u) = Live(u2)
      /\ \A g \in Forwarders : TaskOK(u2, g) => TaskOK(u, g)
  BY <1>4, <1>5, GoodEnded, Zenon
<1> HIDE DEF u
<1>7. ASSUME TasksOK(Current, publishing) PROVE TasksOK(u, publishing)
  <2>1. \A p \in publishing : p.forwarder \in Forwarders
    BY <1>2, Zenon DEF PublishTask
  <2> QED
    BY <1>3, <1>5, <1>6, <1>7, <2>1, Zenon DEF TasksOK
<1>8. /\ TracksInv' /\ AllHeld' /\ Live(Current)' = Live(u) /\ publishing' = publishing
      /\ TasksOK(u, publishing) => TasksOK(Current, publishing)'
  BY <1>1, <1>2, <1>6, Committed, Zenon
<1> QED
  BY <1>3, <1>5, <1>6, <1>7, <1>8, Zenon

-----------------------------------------------------------------------------
(* A session publishes a track.                                            *)

PublishEntry(s, track, f) ==
  [track |-> track, forwarder |-> f, upstream |-> s, handle |-> TRUE,
   fulfilled |-> TRUE, isPublish |-> TRUE]
PublishForwarder(track, told) ==
  [NoForwarder EXCEPT !.track = track, !.upstream = "live", !.told = told]

PublishFits(x, w, track, f) ==
  /\ x \in RelaySubscription /\ x.track = track /\ x.forwarder = f /\ x.isPublish /\ x.handle
  /\ w \in Sized /\ RequestOK(w) /\ EntryOK(x, w) /\ w.upstream = "live" /\ ~w.starting

LEMMA PublishShape ==
  ASSUME RelayAssumption, NEW s \in Sessions, NEW track \in Tracks, NEW f \in Forwarders,
         NEW told \in BOOLEAN
  PROVE  PublishFits(PublishEntry(s, track, f), PublishForwarder(track, told), track, f)
<1> DEFINE x == PublishEntry(s, track, f)
           w == PublishForwarder(track, told)
<1>1. /\ x \in RelaySubscription /\ x.track = track /\ x.forwarder = f
      /\ x.isPublish /\ x.handle /\ x.fulfilled
  BY Zenon DEF PublishEntry, RelaySubscription
<1>2. NoForwarder \in Sized /\ NoForwarder \in Forwarder /\ ~NoForwarder.starting
  BY NoForwarderShape, Zenon DEF Sized, NoForwarder
<1>3. NoForwarder.forwarding \subseteq NoForwarder.subscribers
  BY Zenon DEF NoForwarder
<1>4. w \in Sized /\ w.track = track /\ w.upstream = "live" /\ ~w.starting
  BY <1>2, <1>3, Zenon DEF PublishForwarder, Sized, Forwarder
<1> HIDE DEF x, w
<1>5. RequestOK(w) /\ EntryOK(x, w)
  BY <1>1, <1>4, Zenon DEF RequestOK, EntryOK
<1>6. PublishFits(x, w, track, f)
  BY <1>1, <1>4, <1>5, Zenon DEF PublishFits
<1> QED
  BY <1>6, Zenon DEF x, w

(* The subscription that a takeover ends.                                  *)
TakenOver(st, track, stay) ==
  LET found == Find(st, track)
      sub == CHOOSE x \in found : TRUE
  IN IF found = {} THEN st
     ELSE drainForwarder(
            [Erase(st, found) EXCEPT
               !.forwarders[sub.forwarder].upstream = IF sub.handle THEN "gone" ELSE @],
            sub.forwarder, stay)

LEMMA GoodTakenOver ==
  ASSUME NEW st, Good(st), NEW track, NEW stay
  PROVE  LET u == TakenOver(st, track, stay)
         IN  /\ Good(u) /\ Live(u) \subseteq Live(st) /\ u.subscriptions \subseteq st.subscriptions
             /\ Find(u, track) = {}
<1> DEFINE found == Find(st, track)
           sub == CHOOSE x \in found : TRUE
           u == TakenOver(st, track, stay)
<1>1. CASE found = {}
  <2>1. u = st
    BY <1>1, Zenon DEF TakenOver
  <2> QED
    BY <1>1, <2>1, Zenon
<1>2. CASE found # {}
  <2>1. sub \in found
    BY <1>2, Zenon
  <2> DEFINE f == sub.forwarder
             u1 == Erase(st, found)
             w == u1.forwarders[f]
             v == WithUpstream(w, IF sub.handle THEN "gone" ELSE w.upstream)
             u2 == Put(u1, f, v)
  <2>2. u = drainForwarder(u2, f, stay)
    BY <1>2, Zenon DEF TakenOver, Put, WithUpstream
  <2> HIDE DEF sub, u
  <2>3. found = {sub} /\ sub.track = track /\ sub \in st.subscriptions
    BY <2>1, OneFound, Zenon
  <2>4. st \in State /\ f \in Forwarders
    BY <2>3, StateShape, Zenon DEF Good
  <2>5. Good(u1) /\ Live(u1) = Live(st) \ found
    BY <2>3, GoodErased, Zenon
  <2>6. u1.subscriptions = st.subscriptions \ found /\ u1.forwarders = st.forwarders
    BY <2>4, Erased, Zenon
  <2> HIDE DEF u1
  <2>7. w \in Sized /\ RequestOK(w)
    BY <2>4, <2>5, StateShape, Zenon DEF Good
  <2>8. sub.handle => ~w.starting
    BY <2>3, <2>6, Zenon DEF Good, EntryOK
  <2>9. /\ v \in Sized /\ v.starting = w.starting /\ v.draining = w.draining
        /\ v.upstream = IF sub.handle THEN "gone" ELSE w.upstream
    BY <2>7, ForwarderShape, UpstreamShape, SMTT(30)
  <2> HIDE DEF v, w
  <2>10. RequestOK(v)
    BY <2>7, <2>8, <2>9, Zenon DEF RequestOK
  <2>11. \A x \in u1.subscriptions : x.forwarder # f
    BY <2>3, <2>6, Zenon DEF Good
  <2> HIDE DEF f
  <2>12. Good(u2) /\ Live(u2) = Live(u1) /\ u2.subscriptions = u1.subscriptions
    <3>1. Good(u2) /\ Live(u2) = Live(u1)
      BY <2>4, <2>5, <2>9, <2>10, <2>11, GoodPutFree, Zenon
    <3>2. u1 \in State
      BY <2>5, Zenon DEF Good
    <3> QED
      BY <2>4, <2>9, <3>1, <3>2, PutShape, Zenon
  <2> HIDE DEF u2
  <2>13. Follows(u2, u)
    BY <2>2, <2>4, <2>12, drainForwarderFollows, Zenon
  <2>14. Good(u) /\ Live(u) = Live(u2) /\ u.subscriptions \subseteq u2.subscriptions
    BY <2>12, <2>13, GoodFollows, Zenon
  <2>15. Find(u, track) = {}
    BY <2>6, <2>12, <2>14, Zenon DEF Find
  <2> QED
    BY <2>5, <2>6, <2>12, <2>14, <2>15, Zenon DEF u
<1> QED
  BY <1>1, <1>2, Zenon

PublishState(st, s, track, f, told) ==
  AddEntry(Put(st, f, PublishForwarder(track, told)), PublishEntry(s, track, f))

CanPublish(st, s, track, f, told) ==
  /\ Good(st) /\ track \in Tracks /\ Find(st, track) = {} /\ s \in Sessions
  /\ f \in Forwarders /\ (\A y \in st.subscriptions : y.forwarder # f) /\ told \in BOOLEAN

PublishAdds(st, u, x, f) ==
  /\ Good(u) /\ Live(u) = Live(st) \cup {x} /\ TaskOK(u, f)
  /\ \A g \in Forwarders : g # f /\ TaskOK(st, g) => TaskOK(u, g)

LEMMA PublishPut ==
  ASSUME RelayAssumption, NEW st, NEW s, NEW track, NEW f, NEW told,
         CanPublish(st, s, track, f, told)
  PROVE  PublishAdds(st, PublishState(st, s, track, f, told), PublishEntry(s, track, f), f)
<1> DEFINE x == PublishEntry(s, track, f)
           w == PublishForwarder(track, told)
           u1 == Put(st, f, w)
           u == AddEntry(u1, x)
<1>1. /\ st \in State /\ Good(st) /\ track \in Tracks /\ Find(st, track) = {} /\ s \in Sessions
      /\ f \in Forwarders /\ (\A y \in st.subscriptions : y.forwarder # f) /\ told \in BOOLEAN
  BY Zenon DEF CanPublish, Good
<1>2. /\ x \in RelaySubscription /\ x.track = track /\ x.forwarder = f /\ x.isPublish /\ x.handle
      /\ w \in Sized /\ RequestOK(w) /\ EntryOK(x, w) /\ w.upstream = "live" /\ ~w.starting
  <2>1. PublishFits(x, w, track, f)
    BY <1>1, PublishShape, Zenon
  <2> HIDE DEF x, w
  <2> QED
    BY <2>1, Zenon DEF PublishFits
<1> HIDE DEF x, w
<1>3. /\ Good(u1) /\ Live(u1) = Live(st)
      /\ \A g \in Forwarders : g # f /\ TaskOK(st, g) => TaskOK(u1, g)
  BY <1>1, <1>2, GoodPutFree, Zenon
<1>4. u1.subscriptions = st.subscriptions /\ u1.forwarders[f] = w
  BY <1>1, <1>2, PutShape
<1> HIDE DEF u1
<1>5. \A y \in u1.subscriptions : y.track # x.track /\ y.forwarder # x.forwarder
  BY <1>1, <1>2, <1>4, Zenon DEF Find
<1>6. EntryOK(x, u1.forwarders[x.forwarder])
  BY <1>2, <1>4, Zenon
<1>7. /\ Good(u)
      /\ Live(u) = Live(u1) \cup (IF x.isPublish /\ x.handle THEN {x} ELSE {})
      /\ \A g \in Forwarders : TaskOK(u1, g) /\ (g = x.forwarder => x.isPublish) => TaskOK(u, g)
  BY <1>2, <1>3, <1>5, <1>6, GoodAdded, Zenon
<1> HIDE DEF u
<1>8. Live(u) = Live(st) \cup {x}
  BY <1>2, <1>3, <1>7, Zenon
<1>9. TaskOK(u1, f)
  BY <1>1, <1>2, <1>4, Zenon DEF TaskOK
<1>10. TaskOK(u, f) /\ \A g \in Forwarders : g # f /\ TaskOK(st, g) => TaskOK(u, g)
  BY <1>1, <1>2, <1>3, <1>7, <1>9, Zenon
<1> QED
  BY <1>7, <1>8, <1>10, ZenonT(30) DEF x, w, u1, u, PublishState, PublishAdds

LEMMA PublishStarts ==
  ASSUME RelayAssumption, TracksInv, NEW st, Good(st), Live(st) \subseteq Live(Current),
         st.subscriptions \subseteq subscriptions, NEW track \in Tracks, Find(st, track) = {},
         NEW s \in Sessions, NEW f \in Forwarders, Unused(f), NEW told \in BOOLEAN,
         NEW new \in SUBSET PublishTask, \A p \in new : p.forwarder = f,
         Commit(AddEntry(Put(st, f, PublishForwarder(track, told)), PublishEntry(s, track, f)),
                publishing \cup new)
  PROVE  /\ TracksInv' /\ AllHeld'
         /\ Live(Current)' = Live(st) \cup {PublishEntry(s, track, f)}
         /\ st = Current /\ TasksOK(Current, publishing) => TasksOK(Current, publishing)'
<1> DEFINE x == PublishEntry(s, track, f)
           u == PublishState(st, s, track, f, told)
           tasks == publishing \cup new
<1>1. /\ Good(Current) /\ publishing \in SUBSET PublishTask /\ detached \subseteq Sessions
  BY Zenon DEF TracksInv
<1>2. tasks \in SUBSET PublishTask
  BY <1>1, Zenon
<1>3. (\A y \in st.subscriptions : y.forwarder # f) /\ ~TaskOK(Current, f)
  <2>1. (\A y \in Current.subscriptions : y.forwarder # f) /\ ~TaskOK(Current, f)
    BY UnusedIsFree, Zenon
  <2>2. Current.subscriptions = subscriptions
    BY CurrentParts, Zenon
  <2> QED
    BY <2>1, <2>2, Zenon
<1>4. /\ Good(u) /\ Live(u) = Live(st) \cup {x} /\ TaskOK(u, f)
      /\ \A g \in Forwarders : g # f /\ TaskOK(st, g) => TaskOK(u, g)
  <2>1. CanPublish(st, s, track, f, told)
    BY <1>3, Zenon DEF CanPublish
  <2>2. PublishAdds(st, u, x, f)
    BY <2>1, PublishPut, Zenon
  <2> QED
    BY <2>2, Zenon DEF PublishAdds
<1>5. Commit(u, tasks)
  BY Zenon DEF PublishState
<1> HIDE DEF u, x
<1>6. ASSUME st = Current, TasksOK(Current, publishing) PROVE TasksOK(u, tasks)
  <2> SUFFICES ASSUME NEW p \in tasks PROVE TaskOK(u, p.forwarder)
    BY Zenon DEF TasksOK
  <2>1. p.forwarder \in Forwarders
    BY <1>2, Zenon DEF PublishTask
  <2>2. CASE p.forwarder = f
    BY <1>4, <2>2, Zenon
  <2>3. CASE p.forwarder # f
    <3>1. TaskOK(Current, p.forwarder)
      BY <1>6, <2>3, Zenon DEF TasksOK
    <3> QED
      BY <1>4, <1>6, <2>1, <2>3, <3>1, Zenon
  <2> QED
    BY <2>2, <2>3, Zenon
<1>7. /\ TracksInv' /\ AllHeld' /\ Live(Current)' = Live(u) /\ publishing' = tasks
      /\ TasksOK(u, tasks) => TasksOK(Current, publishing)'
  BY <1>1, <1>2, <1>4, <1>5, Committed, Zenon
<1> QED
  BY <1>4, <1>6, <1>7, Zenon DEF x

(* What publish does to the tracks: SessionsAlong gives it registrations.  *)
LEMMA TrackPublished ==
  ASSUME RelayAssumption, TracksInv, NEW s \in Sessions, NEW track \in Tracks,
         NEW f \in Forwarders, NEW stay, publish(s, track, f, stay),
         SessionsAlong(findInTree(publishNamespaceRoot, track[1]), track[1])
           \subseteq Sessions \X Info,
         SessionsAlong(tracksSubscriberRoot, track[1]) \subseteq Sessions \X Info
  PROVE  /\ TracksInv' /\ AllHeld'
         /\ Live(Current)' \subseteq Live(Current) \cup {PublishEntry(s, track, f)}
         /\ Find(Current, track) = {} =>
              /\ Live(Current)' = Live(Current) \cup {PublishEntry(s, track, f)}
              /\ TasksOK(Current, publishing) => TasksOK(Current, publishing)'
<1> DEFINE t == findInTree(publishNamespaceRoot, track[1])
           above == SessionsAlong(t, track[1])
           over == SessionsAlong(tracksSubscriberRoot, track[1])
           tasks == {Task(e[1], f, e[2].forward, "namespace") :
                       e \in {x \in above : x[1] # s /\ WantsTracks(x[2])}}
                    \cup {Task(e[1], f, e[2].forward, "tracks") : e \in {x \in over : x[1] # s}}
           ended == TakenOver(Current, track, stay)
           told == \E p \in tasks : p.forward
           started == [ended EXCEPT
                         !.subscriptions = @ \cup {PublishEntry(s, track, f)},
                         !.forwarders[f] = PublishForwarder(track, told)]
<1>1. Unused(f) /\ Commit(started, publishing \cup tasks)
  BY Zenon DEF publish, TakenOver, PublishEntry, PublishForwarder
<1>2. Good(Current) /\ Current.subscriptions = subscriptions
  BY CurrentParts, Zenon DEF TracksInv
<1>3. /\ Good(ended) /\ Live(ended) \subseteq Live(Current)
      /\ ended.subscriptions \subseteq Current.subscriptions /\ Find(ended, track) = {}
  BY <1>2, GoodTakenOver, Zenon
<1>4. Find(Current, track) = {} => ended = Current
  BY Zenon DEF TakenOver
<1>5. told \in BOOLEAN
  BY Zenon
<1>6. \A e \in Sessions \X Info : e[1] \in Sessions /\ e[2].forward \in BOOLEAN
  BY Zenon DEF Info
<1>7. \A e \in Sessions \X Info : \A via \in {"namespace", "tracks"} :
        /\ Task(e[1], f, e[2].forward, via) \in PublishTask
        /\ Task(e[1], f, e[2].forward, via).forwarder = f
  BY <1>6, Zenon DEF Task, PublishTask
<1> HIDE DEF above, over, ended, told
<1>8. tasks \in SUBSET PublishTask /\ \A p \in tasks : p.forwarder = f
  <2>1. above \subseteq Sessions \X Info /\ over \subseteq Sessions \X Info
    BY Zenon DEF above, over
  <2> QED
    BY <1>7, <2>1, Zenon
<1> HIDE DEF tasks
<1>9. started = AddEntry(Put(ended, f, PublishForwarder(track, told)), PublishEntry(s, track, f))
  <2>1. ended \in State
    BY <1>3, Zenon DEF Good
  <2> QED
    BY <2>1, Zenon DEF Put, AddEntry, State
<1> HIDE DEF started
<1>10. /\ TracksInv' /\ AllHeld'
       /\ Live(Current)' = Live(ended) \cup {PublishEntry(s, track, f)}
       /\ ended = Current /\ TasksOK(Current, publishing) => TasksOK(Current, publishing)'
  BY <1>1, <1>2, <1>3, <1>5, <1>8, <1>9, PublishStarts, Zenon
<1> QED
  BY <1>3, <1>4, <1>10, Zenon

-----------------------------------------------------------------------------
(* Namespaces.                                                             *)

LEMMA TracksTaken ==
  ASSUME RelayAssumption, TracksInv, NEW s, NEW ns, publishNamespace(s, ns)
  PROVE  /\ TracksInv' /\ AllHeld' /\ Live(Current)' \subseteq Live(Current)
         /\ ~Takeovers => Calm
<1> DEFINE old == findInTree(publishNamespaceRoot, ns)[ns].sourceSession
           dropped == {sub \in subscriptions : /\ old # None /\ sub.upstream = old
                                               /\ startsWith(sub.track[1], ns)}
           u == Erase(Current, dropped)
<1>1. Commit(u, publishing) /\ (Takeovers \/ old = None)
  BY Zenon DEF publishNamespace
<1>2. /\ Good(Current) /\ publishing \in SUBSET PublishTask /\ detached \subseteq Sessions
      /\ Current.subscriptions = subscriptions
  BY CurrentParts, Zenon DEF TracksInv
<1> HIDE DEF old
<1>3. dropped \in SUBSET Current.subscriptions
  BY <1>2, Zenon
<1>4. old = None => dropped = {}
  BY Zenon
<1> HIDE DEF dropped
<1>5. /\ Good(u) /\ Live(u) = Live(Current) \ dropped
      /\ \A g \in Forwarders : TaskOK(Current, g) => TaskOK(u, g)
  BY <1>2, <1>3, GoodErased, Zenon
<1> HIDE DEF u
<1>6. TracksInv' /\ AllHeld' /\ Live(Current)' = Live(u)
  BY <1>1, <1>2, <1>5, Committed, Zenon
<1>7. ASSUME ~Takeovers PROVE Calm
  <2>1. Live(u) = Live(Current)
    BY <1>1, <1>4, <1>5, <1>7, Zenon
  <2> QED
    BY <1>1, <1>5, <2>1, CalmTasks, Zenon
<1> QED
  BY <1>5, <1>6, <1>7, Zenon

(* A new registration is shown the tracks that are published under it.     *)
LEMMA TracksShown ==
  ASSUME TracksInv, Untouched, NEW t, NEW s \in Sessions, NEW prefix, NEW skip,
         NEW forward \in BOOLEAN, NEW via \in {"namespace", "tracks"},
         NEW new \in SUBSET ExistingTracks(t, s, prefix, skip, forward, via),
         publishing' = publishing \cup new
  PROVE  /\ TracksInv' /\ (AllHeld => AllHeld') /\ Live(Current)' = Live(Current)
         /\ (\A q \in DOMAIN t : \A e \in t[q].publishes :
               \E y \in Live(Current) : y.track = <<q, e[1]>>) => Calm
<1>1. Current' = Current /\ detached' = detached /\ forwarders' = forwarders
  BY Zenon DEF Untouched, Current
<1>2. /\ Good(Current) /\ publishing \in SUBSET PublishTask /\ detached \subseteq Sessions
      /\ Current.subscriptions = subscriptions /\ Current \in State
  BY CurrentParts, Zenon DEF TracksInv
<1>3. \A p \in new : \E x \in subscriptions : \E q \in DOMAIN t : \E e \in t[q].publishes :
        x.track = <<q, e[1]>> /\ p = Task(s, x.forwarder, forward, via)
  BY Zenon DEF ExistingTracks, Shown
<1>4. \A x \in subscriptions : /\ Task(s, x.forwarder, forward, via) \in PublishTask
                               /\ Task(s, x.forwarder, forward, via).forwarder = x.forwarder
  BY <1>2, StateShape, Zenon DEF Task, PublishTask
<1>5. publishing' \in SUBSET PublishTask
  BY <1>2, <1>3, <1>4, Zenon
<1>6. TracksInv' /\ Live(Current)' = Live(Current)
  BY <1>1, <1>2, <1>5, Zenon DEF TracksInv, Live
<1>7. AllHeld => AllHeld'
  BY <1>1, Zenon DEF AllHeld, Held
<1>8. ASSUME \A q \in DOMAIN t : \A e \in t[q].publishes :
               \E y \in Live(Current) : y.track = <<q, e[1]>>,
             TasksOK(Current, publishing)
      PROVE  TasksOK(Current, publishing')
  <2> SUFFICES ASSUME NEW p \in new PROVE TaskOK(Current, p.forwarder)
    BY <1>8, Zenon DEF TasksOK
  <2>1. PICK x \in subscriptions : /\ \E y \in Live(Current) : y.track = x.track
                                   /\ p.forwarder = x.forwarder
    <3>1. PICK x \in subscriptions, q \in DOMAIN t : \E e \in t[q].publishes :
            x.track = <<q, e[1]>> /\ p = Task(s, x.forwarder, forward, via)
      BY <1>3, Zenon
    <3>2. PICK e \in t[q].publishes :
            x.track = <<q, e[1]>> /\ p = Task(s, x.forwarder, forward, via)
      BY <3>1, Zenon
    <3>3. PICK y \in Live(Current) : y.track = <<q, e[1]>>
      BY <1>8, Zenon
    <3> QED
      BY <1>4, <3>2, <3>3, Zenon
  <2>2. x \in Live(Current)
    BY <1>2, <2>1, Zenon DEF Live, Good
  <2>3. EntryOK(x, Current.forwarders[x.forwarder]) /\ x.isPublish
    BY <1>2, <2>2, Zenon DEF Live, Good
  <2>4. \A y \in Current.subscriptions : y.forwarder = x.forwarder => y.isPublish
    BY <1>2, <2>1, <2>3, Zenon DEF Good
  <2> QED
    BY <2>1, <2>3, <2>4, Zenon DEF EntryOK, TaskOK
<1>9. TasksOK(Current, publishing)' <=> TasksOK(Current, publishing')
  BY <1>1, Zenon DEF TasksOK
<1> QED
  BY <1>6, <1>7, <1>8, <1>9, Zenon DEF Calm

-----------------------------------------------------------------------------
(* Every step but those of a PUBLISH and of namespaces.                    *)

(* What they do to the subscribes that wait in a rendezvous.               *)
WaitersOn ==
  /\ \A r \in pendingRendezvous' :
       \/ r \in pendingRendezvous
       \/ /\ r \in Request /\ Find(Current, r.track) = {}
          /\ findPublishNamespaceSession(publishNamespaceRoot, r.track[1]) = None
  /\ signalled' \subseteq signalled \cup pendingRendezvous

CalmStep ==
  \/ SubscribeStep
  \/ ForwarderStep /\ ~ \E f \in Forwarders : \E stay \in Draining(f) : publishDone(f, stay)
  \/ PublishStep /\ ~ \E s \in Publishers, track \in Tracks, f \in Forwarders,
                           stay \in SUBSET Sessions : publish(s, track, f, stay)
  \/ UNCHANGED vars

LEMMA CalmSteps ==
  ASSUME RelayAssumption, TracksInv, CalmStep,
         \A r \in Request :
           findPublishNamespaceSession(publishNamespaceRoot, r.track[1]) \in Sessions \cup {None}
  PROVE  Calm /\ WaitersOn
<1>1. ASSUME UNCHANGED <<pendingRendezvous, signalled>> PROVE WaitersOn
  BY <1>1, Zenon DEF WaitersOn
<1>2. ASSUME NEW r \in Request, NEW f \in Forwarders, Attach(r, f) PROVE Calm
  BY <1>2, CalmAttach, Zenon
<1>3. ASSUME NEW r \in Request, subscribeRendezvous(r) PROVE Calm /\ WaitersOn
  <2>1. Calm
    BY <1>3, CalmUntouched, Zenon DEF subscribeRendezvous, Untouched
  <2>2. /\ Find(Current, r.track) = {} /\ pendingRendezvous' = pendingRendezvous \cup {r}
        /\ findPublishNamespaceSession(publishNamespaceRoot, r.track[1]) = None
        /\ signalled' = signalled
    BY <1>3, Zenon DEF subscribeRendezvous
  <2> QED
    BY <2>1, <2>2, Zenon DEF WaitersOn
<1>4. ASSUME NEW r \in Request, rendezvousTimeout(r) PROVE Calm /\ WaitersOn
  <2>1. Calm
    BY <1>4, CalmUntouched, Zenon DEF rendezvousTimeout, Untouched
  <2> QED
    BY <1>4, <2>1, Zenon DEF WaitersOn, rendezvousTimeout
<1>5. ASSUME NEW r \in Request, NEW f \in Forwarders, resumeRendezvous(r, f)
      PROVE  Calm /\ WaitersOn
  <2>1. Calm
    BY <1>2, <1>5, CalmUntouched, Zenon DEF resumeRendezvous, Untouched
  <2> QED
    BY <1>5, <2>1, Zenon DEF WaitersOn, resumeRendezvous
<1>6. ASSUME NEW r \in Request, NEW f \in Forwarders, subscribe(r, f) PROVE Calm /\ WaitersOn
  BY <1>1, <1>2, <1>6, Zenon DEF subscribe
<1>7. ASSUME NEW f \in Forwarders, resumeFirst(f) \/ cancelFirst(f) PROVE Calm /\ WaitersOn
  <2>1. Calm
    BY <1>7, CalmResume, CalmCancel, Zenon
  <2> QED
    BY <1>1, <1>7, <2>1, Zenon DEF resumeFirst, cancelFirst
<1>8. ASSUME NEW c \in coalescing, resumeCoalesced(c) \/ cancelCoalesced(c)
      PROVE  Calm /\ WaitersOn
  <2>1. Calm
    BY <1>8, CalmCoalesced, Zenon
  <2> QED
    BY <1>1, <1>8, <2>1, Zenon DEF resumeCoalesced, cancelCoalesced
<1>9. CASE SubscribeStep
  BY <1>3, <1>4, <1>5, <1>6, <1>7, <1>8, <1>9, Zenon DEF SubscribeStep
<1>10. CASE ForwarderStep /\ ~ \E f \in Forwarders : \E stay \in Draining(f) : publishDone(f, stay)
  <2>1. PICK f \in Forwarders :
          \/ \E answer \in {"live", "rejected"} : upstreamAnswers(f, answer)
          \/ \E s \in Sessions : leave(f, s) \/ \E forward \in Forwards : updateForward(f, s, forward)
          \/ openSubgroup(f)
          \/ closeSubgroup(f)
    BY <1>10, Zenon DEF ForwarderStep
  <2>2. Calm
    BY <2>1, CalmAnswer, CalmForwarder, CalmOpen, Zenon
  <2>3. UNCHANGED <<pendingRendezvous, signalled>>
    BY <2>1, Zenon DEF upstreamAnswers, leave, updateForward, openSubgroup, closeSubgroup
  <2> QED
    BY <1>1, <2>2, <2>3, Zenon
<1>11. CASE PublishStep /\ ~ \E s \in Publishers, track \in Tracks, f \in Forwarders,
                               stay \in SUBSET Sessions : publish(s, track, f, stay)
  <2>1. PICK p \in publishing, ok \in BOOLEAN :
          \/ publishToSession(p, ok)
          \/ \E forward \in {{}} \cup {{x} : x \in Forwards} : publishAnswered(p, ok, forward)
    BY <1>11, Zenon DEF PublishStep
  <2>2. Calm
    BY <2>1, CalmPublishing, Zenon
  <2>3. UNCHANGED <<pendingRendezvous, signalled>>
    BY <2>1, Zenon DEF publishToSession, publishAnswered
  <2> QED
    BY <1>1, <2>2, <2>3, Zenon
<1>12. CASE UNCHANGED vars
  <2>1. Calm
    BY <1>12, CalmUntouched, Zenon DEF vars, Untouched
  <2> QED
    BY <1>1, <1>12, <2>1, Zenon DEF vars
<1> QED
  BY <1>9, <1>10, <1>11, <1>12, Zenon DEF CalmStep

-----------------------------------------------------------------------------
(* What the invariant means.                                               *)

LEMMA TracksTyped ==
  ASSUME TracksInv
  PROVE  /\ subscriptions \subseteq RelaySubscription
         /\ DOMAIN forwarders \subseteq Forwarders
         /\ \A f \in DOMAIN forwarders : /\ forwarders[f] \in Forwarder
                                         /\ forwarders[f].forwarding \subseteq forwarders[f].subscribers
         /\ \A c \in coalescing : c.request \in Request /\ c.forwarder \in Forwarders
         /\ \A p \in publishing : p.session \in Sessions /\ p.forwarder \in Forwarders
         /\ detached \subseteq Sessions
<1>1. /\ subscriptions \subseteq RelaySubscription
      /\ DOMAIN forwarders \subseteq Forwarders
      /\ \A f \in DOMAIN forwarders : forwarders[f] \in Sized
      /\ \A c \in coalescing : c.request \in Request /\ c.forwarder \in Forwarders
  BY CurrentParts, StateShape, Zenon
<1>2. \A p \in publishing : p.session \in Sessions /\ p.forwarder \in Forwarders
  BY Zenon DEF TracksInv, PublishTask
<1> QED
  BY <1>1, <1>2, Zenon DEF TracksInv, Sized

LEMMA EntriesServe ==
  ASSUME TracksInv PROVE OneSubscriptionPerTrack /\ CoalescingIsServed
<1>1. OneSubscriptionPerTrack
  BY CurrentParts, Zenon DEF TracksInv, Good, OneSubscriptionPerTrack
<1>2. CoalescingIsServed
  <2> SUFFICES ASSUME NEW c \in coalescing, c.waits
               PROVE  /\ forwarders[c.forwarder].starting
                      /\ \E sub \in subscriptions : /\ sub.forwarder = c.forwarder
                                                    /\ sub.track = c.request.track /\ ~sub.fulfilled
    BY Zenon DEF CoalescingIsServed
  <2>1. PICK sub \in subscriptions : /\ sub.forwarder = c.forwarder /\ sub.track = c.request.track
                                     /\ ~sub.fulfilled
    BY CurrentParts, Zenon DEF TracksInv, Good
  <2>2. EntryOK(sub, forwarders[sub.forwarder]) /\ forwarders[sub.forwarder] \in Sized
    BY CurrentParts DEF TracksInv, Good
  <2>3. forwarders[sub.forwarder].starting
    BY <2>1, <2>2, Zenon DEF EntryOK, Sized, Forwarder
  <2> QED
    BY <2>1, <2>3, Zenon
<1> QED
  BY <1>1, <1>2, Zenon

LEMMA ForwardersServe ==
  ASSUME TracksInv, AllHeld, TasksOK(Current, publishing) PROVE SubscribersAreServed
<1> SUFFICES ASSUME NEW f \in DOMAIN forwarders, forwarders[f].subscribers # {},
                    ~forwarders[f].draining
             PROVE  forwarders[f].upstream \in {"pending", "live"} \/ forwarders[f].starting
  BY Zenon DEF SubscribersAreServed
<1>1. f \in Forwarders
  BY CurrentParts, StateShape, Zenon
<1>2. forwarders[f] # NoForwarder
  BY DEF NoForwarder
<1>3. \/ \E sub \in subscriptions : sub.forwarder = f
      \/ \E p \in publishing : p.forwarder = f
      \/ forwarders[f].upstream \in {"pending", "live"}
      \/ forwarders[f].starting
  BY <1>1, <1>2, CurrentParts, Zenon DEF AllHeld, Held
<1>4. \A sub \in subscriptions : EntryOK(sub, forwarders[sub.forwarder])
  BY CurrentParts, Zenon DEF TracksInv, Good
<1>5. \A p \in publishing : TaskOK(Current, p.forwarder) /\ Current.forwarders = forwarders
  BY CurrentParts, Zenon DEF TasksOK
<1> QED
  BY <1>3, <1>4, <1>5, Zenon DEF EntryOK, TaskOK

LEMMA TracksAtFirst ==
  ASSUME RelayAssumption, Init
  PROVE  /\ TracksInv /\ AllHeld /\ Live(Current) = {} /\ TasksOK(Current, publishing)
<1>1. /\ Current.subscriptions = {} /\ Current.forwarders = [f \in Forwarders |-> NoForwarder]
      /\ Current.coalescing = {} /\ publishing = {} /\ detached = {}
      /\ Current = [subscriptions |-> {}, forwarders |-> forwarders, coalescing |-> {}]
  BY Zenon DEF Init, Current
<1>2. \A f \in Forwarders : NoForwarder \in Sized /\ RequestOK(NoForwarder)
  BY NoForwarderShape, Zenon
<1>3. forwarders = [f \in Forwarders |-> NoForwarder] /\ \A f \in Forwarders : forwarders[f] = NoForwarder
  BY Zenon DEF Init
<1>4. Current \in State
  BY <1>1, <1>2, <1>3, Zenon DEF State
<1>5. Good(Current)
  BY <1>1, <1>2, <1>4, Zenon DEF Good
<1> QED
  BY <1>1, <1>3, <1>5, Zenon DEF TracksInv, AllHeld, Live, TasksOK

-----------------------------------------------------------------------------
(* The live PUBLISHes of a namespace, by the names of their tracks.        *)

LiveAt(live, ns) == {<<x.track[2], x.upstream>> : x \in {y \in live : y.track[1] = ns}}

LEMMA TrackPairs ==
  ASSUME RelayAssumption, TracksInv, NEW x \in Live(Current)
  PROVE  /\ x.track \in Tracks /\ x.track = <<x.track[1], x.track[2]>> /\ x.track[1] \in Namespaces
         /\ x \in subscriptions /\ x.isPublish /\ x.handle
<1>1. x \in Current.subscriptions /\ x.isPublish /\ x.handle
  BY Zenon DEF Live
<1>2. x.track \in Tracks /\ x \in subscriptions
  BY <1>1, CurrentParts, StateShape, Zenon
<1> QED
  BY <1>1, <1>2, Zenon DEF RelayAssumption

AddedAt(live, s, track, f, ns) ==
  LiveAt(live \cup {PublishEntry(s, track, f)}, ns) =
    IF ns = track[1] THEN LiveAt(live, ns) \cup {<<track[2], s>>} ELSE LiveAt(live, ns)

LEMMA LiveAdded ==
  ASSUME NEW live, NEW s, NEW track, NEW f, NEW ns PROVE AddedAt(live, s, track, f, ns)
<1> DEFINE x == PublishEntry(s, track, f)
<1>1. x.track = track /\ x.upstream = s
  BY Zenon DEF PublishEntry
<1> HIDE DEF x
<1>2. {y \in live \cup {x} : y.track[1] = ns} =
        IF ns = track[1] THEN {y \in live : y.track[1] = ns} \cup {x} ELSE {y \in live : y.track[1] = ns}
  BY <1>1, Zenon
<1>3. LiveAt(live \cup {x}, ns) =
        IF ns = track[1] THEN LiveAt(live, ns) \cup {<<x.track[2], x.upstream>>} ELSE LiveAt(live, ns)
  BY <1>2, Zenon DEF LiveAt
<1> QED
  BY <1>1, <1>3, Zenon DEF x, AddedAt

LEMMA LiveEnded ==
  ASSUME RelayAssumption, TracksInv, NEW track \in Tracks, NEW ns
  PROVE  LiveAt({x \in Live(Current) : x.track # track}, ns) =
           IF ns = track[1] /\ \E sub \in Find(Current, track) : sub.isPublish
           THEN {e \in LiveAt(Live(Current), ns) : e[1] # track[2]} ELSE LiveAt(Live(Current), ns)
<1> DEFINE had == \E sub \in Find(Current, track) : sub.isPublish
<1>1. track = <<track[1], track[2]>>
  BY Zenon DEF RelayAssumption
<1>2. \A x \in Live(Current) : x.track = <<x.track[1], x.track[2]>>
  BY TrackPairs, Zenon
<1>3. CASE ~had
  <2>1. \A x \in Live(Current) : x.track # track
    BY <1>3, Zenon DEF Live, Find
  <2>2. {x \in Live(Current) : x.track # track} = Live(Current)
    BY <2>1, Zenon
  <2> QED
    BY <1>3, <2>2, Zenon
<1>4. CASE ns # track[1]
  <2>1. \A x \in Live(Current) : x.track[1] = ns => x.track # track
    BY <1>4, Zenon
  <2>2. {y \in {x \in Live(Current) : x.track # track} : y.track[1] = ns} =
          {y \in Live(Current) : y.track[1] = ns}
    BY <2>1, Zenon
  <2> QED
    BY <1>4, <2>2, Zenon DEF LiveAt
<1>5. CASE had /\ ns = track[1]
  <2>1. \A x \in Live(Current) : x.track[1] = ns => (x.track # track <=> x.track[2] # track[2])
    BY <1>1, <1>2, <1>5, Zenon
  <2>2. LiveAt({x \in Live(Current) : x.track # track}, ns) =
          {e \in LiveAt(Live(Current), ns) : e[1] # track[2]}
    BY <2>1 DEF LiveAt
  <2> QED
    BY <1>5, <2>2, Zenon
<1> QED
  BY <1>3, <1>4, <1>5, Zenon

LEMMA LiveFound ==
  ASSUME RelayAssumption, TracksInv, NEW ns, NEW e \in LiveAt(Live(Current), ns)
  PROVE  \E y \in Live(Current) :
           /\ y.track = <<ns, e[1]>> /\ y.upstream = e[2]
           /\ y \in subscriptions /\ y.isPublish /\ y.handle
<1>1. PICK y \in Live(Current) : y.track[1] = ns /\ e = <<y.track[2], y.upstream>>
  BY Zenon DEF LiveAt
<1>2. y.track = <<y.track[1], y.track[2]>> /\ y \in subscriptions /\ y.isPublish /\ y.handle
  BY TrackPairs, Zenon
<1> QED
  BY <1>1, <1>2, Zenon

LEMMA LiveCounted ==
  ASSUME RelayAssumption, TracksInv, NEW sub \in subscriptions, sub.isPublish, sub.handle
  PROVE  /\ sub.track[1] \in Namespaces
         /\ <<sub.track[2], sub.upstream>> \in LiveAt(Live(Current), sub.track[1])
<1>1. sub \in Live(Current)
  BY CurrentParts, Zenon DEF Live
<1> QED
  BY <1>1, TrackPairs, Zenon DEF LiveAt
=============================================================================
