------------------------ MODULE MoQRelayStateProofs ------------------------
(***************************************************************************)
(* Proofs about MoQRelay: subscriptions_, its forwarders and the subscribes*)
(* that coalesce, through the operators the handlers are made of and the   *)
(* callbacks of a forwarder, for any sessions, tracks and forwarders.      *)
(***************************************************************************)
EXTENDS MoQRelay, TLAPS

-----------------------------------------------------------------------------
(* The inductive invariant of what the forwarders' callbacks reach into.   *)

Sized == {w \in Forwarder : w.forwarding \subseteq w.subscribers}
Coalesced == [request : Request, forwarder : Forwarders, waits : BOOLEAN]
State == [subscriptions : SUBSET RelaySubscription, forwarders : [Forwarders -> Sized],
          coalescing : SUBSET Coalesced]

(* A forwarder whose first subscribe is suspended has a request upstream,  *)
(* had it refused, or drains; and only such a one has it unanswered.       *)
RequestOK(w) ==
  /\ w.starting => \/ w.upstream \in {"pending", "live", "rejected"}
                   \/ w.upstream = "gone" /\ w.draining
  /\ w.upstream \in {"pending", "rejected"} => w.starting

(* x is an entry of subscriptions_ and w its forwarder.                    *)
EntryOK(x, w) ==
  /\ w.track = x.track /\ w.upstream # "none"
  /\ x.handle \/ x.isPublish => x.fulfilled
  /\ x.fulfilled <=> ~w.starting
  /\ w.upstream \in {"pending", "live"} \/ w.starting \/ w.draining
  /\ x.isPublish => w.upstream = "live" \/ (w.upstream = "gone" /\ w.draining)

Good(st) ==
  /\ st \in State
  /\ \A x, y \in st.subscriptions : x # y => x.track # y.track /\ x.forwarder # y.forwarder
  /\ \A x \in st.subscriptions : EntryOK(x, st.forwarders[x.forwarder])
  /\ \A f \in Forwarders : RequestOK(st.forwarders[f])
  /\ \A c \in st.coalescing : c.waits =>
       \E x \in st.subscriptions : /\ x.forwarder = c.forwarder /\ x.track = c.request.track
                                   /\ ~x.fulfilled

(* The live PUBLISHes of subscriptions_.                                   *)
Live(st) == {x \in st.subscriptions : x.isPublish /\ x.handle}

(* publishToSession works on the forwarder of a PUBLISH, until it drains.  *)
PublishTask == [session : Sessions, forwarder : Forwarders, forward : BOOLEAN,
                via : {"namespace", "tracks"}, sent : BOOLEAN]
TaskOK(st, g) ==
  /\ ~st.forwarders[g].starting
  /\ st.forwarders[g].upstream = "live" \/ (st.forwarders[g].upstream = "gone" /\ st.forwarders[g].draining)
  /\ \A x \in st.subscriptions : x.forwarder = g => x.isPublish
TasksOK(st, tasks) == \A p \in tasks : TaskOK(st, p.forwarder)

-----------------------------------------------------------------------------
(* What the operators on that state have in common: from st to u, entries  *)
(* are erased (gone) with those that wait for them, and the request of a   *)
(* forwarder is ended only with its entry.                                 *)
Moves(st, u, gone) ==
  /\ u \in State
  /\ u.subscriptions = st.subscriptions \ gone
  /\ u.coalescing \subseteq st.coalescing
  /\ \A c \in u.coalescing : c.waits => \A x \in gone : x.forwarder # c.forwarder
  /\ \A f \in Forwarders :
       /\ u.forwarders[f].track = st.forwarders[f].track
       /\ u.forwarders[f].starting = st.forwarders[f].starting
       /\ st.forwarders[f].draining => u.forwarders[f].draining
       /\ \/ u.forwarders[f].upstream = st.forwarders[f].upstream
          \/ /\ u.forwarders[f].upstream = "gone"
             /\ \E x \in gone : x.forwarder = f /\ x.handle /\ ~x.isPublish

(* They do so without erasing a live PUBLISH.                              *)
Follows(st, u) == \E gone \in SUBSET (st.subscriptions \ Live(st)) : Moves(st, u, gone)

LEMMA StateShape ==
  ASSUME NEW st \in State
  PROVE  /\ st.subscriptions \in SUBSET RelaySubscription
         /\ st.forwarders \in [Forwarders -> Sized] /\ st.coalescing \in SUBSET Coalesced
         /\ \A f \in Forwarders : st.forwarders[f] \in Sized /\ st.forwarders[f] \in Forwarder
         /\ \A x \in st.subscriptions :
              /\ x \in RelaySubscription /\ x.forwarder \in Forwarders /\ x.track \in Tracks
              /\ x.handle \in BOOLEAN /\ x.fulfilled \in BOOLEAN /\ x.isPublish \in BOOLEAN
              /\ x.upstream \in Sessions \cup {None}
         /\ \A c \in st.coalescing :
              c \in Coalesced /\ c.forwarder \in Forwarders /\ c.waits \in BOOLEAN /\ c.request \in Request
<1>1. /\ st.subscriptions \in SUBSET RelaySubscription
      /\ st.forwarders \in [Forwarders -> Sized] /\ st.coalescing \in SUBSET Coalesced
  BY Zenon DEF State
<1>2. \A f \in Forwarders : st.forwarders[f] \in Sized /\ st.forwarders[f] \in Forwarder
  BY <1>1, Zenon DEF Sized
<1>3. \A x \in RelaySubscription :
        /\ x.forwarder \in Forwarders /\ x.track \in Tracks
        /\ x.handle \in BOOLEAN /\ x.fulfilled \in BOOLEAN /\ x.isPublish \in BOOLEAN
        /\ x.upstream \in Sessions \cup {None}
  BY Zenon DEF RelaySubscription
<1>4. \A c \in Coalesced : c.forwarder \in Forwarders /\ c.waits \in BOOLEAN /\ c.request \in Request
  BY Zenon DEF Coalesced
<1> QED
  BY <1>1, <1>2, <1>3, <1>4, Zenon

(* Such a move keeps the invariant ...                                     *)
LEMMA GoodMoves ==
  ASSUME NEW st, NEW u, NEW gone \in SUBSET st.subscriptions, Good(st), Moves(st, u, gone)
  PROVE  Good(u)
<1>1. u \in State /\ st \in State
  BY Zenon DEF Good, Moves
<1>2. \A x \in st.subscriptions : x.forwarder \in Forwarders
  BY <1>1, StateShape, Zenon
<1>3. \A x, y \in u.subscriptions : x # y => x.track # y.track /\ x.forwarder # y.forwarder
  BY Zenon DEF Good, Moves
<1>4. ASSUME NEW f \in Forwarders, u.forwarders[f].upstream # st.forwarders[f].upstream
      PROVE  /\ u.forwarders[f].upstream = "gone" /\ ~u.forwarders[f].starting
             /\ \A y \in u.subscriptions : y.forwarder # f
  <2>1. PICK x \in gone : x.forwarder = f /\ x.handle /\ ~x.isPublish
    BY <1>4, Zenon DEF Moves
  <2>2. u.forwarders[f].upstream = "gone"
    BY <1>4, Zenon DEF Moves
  <2>3. ~st.forwarders[f].starting
    BY <2>1, Zenon DEF Good, EntryOK
  <2>4. \A y \in u.subscriptions : y.forwarder # f
    BY <2>1, Zenon DEF Good, Moves
  <2> QED
    BY <2>2, <2>3, <2>4, Zenon DEF Moves
<1>5. ASSUME NEW x \in u.subscriptions PROVE EntryOK(x, u.forwarders[x.forwarder])
  <2>1. x \in st.subscriptions /\ x.forwarder \in Forwarders
    BY <1>2, Zenon DEF Moves
  <2>2. EntryOK(x, st.forwarders[x.forwarder])
    BY <2>1, Zenon DEF Good
  <2>3. u.forwarders[x.forwarder].upstream = st.forwarders[x.forwarder].upstream
    BY <1>4, <2>1, Zenon
  <2>4. /\ u.forwarders[x.forwarder].track = st.forwarders[x.forwarder].track
        /\ u.forwarders[x.forwarder].starting = st.forwarders[x.forwarder].starting
        /\ st.forwarders[x.forwarder].draining => u.forwarders[x.forwarder].draining
    BY <2>1, Zenon DEF Moves
  <2> QED
    BY <2>2, <2>3, <2>4, Zenon DEF EntryOK
<1>6. ASSUME NEW f \in Forwarders PROVE RequestOK(u.forwarders[f])
  <2>1. RequestOK(st.forwarders[f])
    BY Zenon DEF Good
  <2>2. /\ u.forwarders[f].starting = st.forwarders[f].starting
        /\ st.forwarders[f].draining => u.forwarders[f].draining
    BY Zenon DEF Moves
  <2>3. CASE u.forwarders[f].upstream = st.forwarders[f].upstream
    BY <2>1, <2>2, <2>3, Zenon DEF RequestOK
  <2>4. CASE u.forwarders[f].upstream # st.forwarders[f].upstream
    BY <1>4, <2>4, Zenon DEF RequestOK
  <2> QED
    BY <2>3, <2>4, Zenon
<1>7. ASSUME NEW c \in u.coalescing, c.waits
      PROVE  \E x \in u.subscriptions : /\ x.forwarder = c.forwarder /\ x.track = c.request.track
                                        /\ ~x.fulfilled
  <2>1. c \in st.coalescing /\ \A x \in gone : x.forwarder # c.forwarder
    BY <1>7, Zenon DEF Moves
  <2>2. PICK x \in st.subscriptions : /\ x.forwarder = c.forwarder /\ x.track = c.request.track
                                      /\ ~x.fulfilled
    BY <1>7, <2>1, Zenon DEF Good
  <2>3. x \in u.subscriptions
    BY <2>1, <2>2, Zenon DEF Moves
  <2> QED
    BY <2>2, <2>3, Zenon
<1> QED
  BY <1>1, <1>3, <1>5, <1>6, <1>7, Zenon DEF Good

LEMMA GoodFollows ==
  ASSUME NEW st, NEW u, Good(st), Follows(st, u)
  PROVE  Good(u) /\ Live(u) = Live(st) /\ u.subscriptions \subseteq st.subscriptions
<1>1. PICK gone \in SUBSET (st.subscriptions \ Live(st)) : Moves(st, u, gone)
  BY Zenon DEF Follows
<1>2. Good(u)
  BY <1>1, GoodMoves, Zenon
<1>3. u.subscriptions = st.subscriptions \ gone
  BY <1>1, Zenon DEF Moves
<1> QED
  BY <1>1, <1>2, <1>3, Zenon DEF Live

(* ... and what the publishToSession coroutines rely on.                   *)
LEMMA TasksFollow ==
  ASSUME NEW st, NEW u, NEW g \in Forwarders, Good(st), Follows(st, u), TaskOK(st, g)
  PROVE  TaskOK(u, g)
<1>1. PICK gone \in SUBSET (st.subscriptions \ Live(st)) : Moves(st, u, gone)
  BY Zenon DEF Follows
<1>2. u.subscriptions \subseteq st.subscriptions /\ gone \subseteq st.subscriptions
  BY <1>1, Zenon DEF Moves
<1>3. u.forwarders[g].upstream = st.forwarders[g].upstream
  <2>1. \A x \in gone : x.forwarder = g => x.isPublish
    BY <1>2, Zenon DEF TaskOK
  <2> QED
    BY <1>1, <2>1, Zenon DEF Moves
<1>4. /\ u.forwarders[g].starting = st.forwarders[g].starting
      /\ st.forwarders[g].draining => u.forwarders[g].draining
  BY <1>1, Zenon DEF Moves
<1> QED
  BY <1>2, <1>3, <1>4, Zenon DEF TaskOK

LEMMA FollowsItself ==
  ASSUME NEW st \in State PROVE Follows(st, st)
<1>1. Moves(st, st, {})
  BY Zenon DEF Moves
<1> QED
  BY <1>1, Zenon DEF Follows

LEMMA FollowsOn ==
  ASSUME NEW st, NEW u, NEW v, Good(st), Follows(st, u), Follows(u, v)
  PROVE  Follows(st, v)
<1>1. PICK g1 \in SUBSET (st.subscriptions \ Live(st)) : Moves(st, u, g1)
  BY Zenon DEF Follows
<1>2. PICK g2 \in SUBSET (u.subscriptions \ Live(u)) : Moves(u, v, g2)
  BY Zenon DEF Follows
<1>3. Live(u) = Live(st) /\ u.subscriptions \subseteq st.subscriptions
  BY GoodFollows, Zenon
<1>4. v.subscriptions = st.subscriptions \ (g1 \cup g2)
  BY <1>1, <1>2, Zenon DEF Moves
<1>5. \A c \in v.coalescing : c.waits => \A x \in g1 \cup g2 : x.forwarder # c.forwarder
  BY <1>1, <1>2, Zenon DEF Moves
<1>6. v.coalescing \subseteq st.coalescing /\ v \in State
  BY <1>1, <1>2, Zenon DEF Moves
<1>7. ASSUME NEW f \in Forwarders
      PROVE  /\ v.forwarders[f].track = st.forwarders[f].track
             /\ v.forwarders[f].starting = st.forwarders[f].starting
             /\ st.forwarders[f].draining => v.forwarders[f].draining
             /\ \/ v.forwarders[f].upstream = st.forwarders[f].upstream
                \/ /\ v.forwarders[f].upstream = "gone"
                   /\ \E x \in g1 \cup g2 : x.forwarder = f /\ x.handle /\ ~x.isPublish
  BY <1>1, <1>2 DEF Moves
<1>8. Moves(st, v, g1 \cup g2)
  BY <1>4, <1>5, <1>6, <1>7, Zenon DEF Moves
<1>9. g1 \cup g2 \in SUBSET (st.subscriptions \ Live(st))
  BY <1>3, Zenon
<1> QED
  BY <1>8, <1>9, Zenon DEF Follows

-----------------------------------------------------------------------------
(* The operators on that state.                                            *)

Put(st, f, w) == [st EXCEPT !.forwarders[f] = w]

WithTold(w, b) == [w EXCEPT !.told = b]
WithUpstream(w, v) == [w EXCEPT !.upstream = v]
WithOpen(w, b) == [w EXCEPT !.open = b]
WithDraining(w) == [w EXCEPT !.draining = TRUE]
WithForwarding(w, to) == [w EXCEPT !.forwarding = to]
WithSubscribers(w, who) == [w EXCEPT !.subscribers = who]
WithBoth(w, who, to) == [w EXCEPT !.subscribers = who, !.forwarding = to]

(* w and v differ only in what their owner does not depend on.             *)
Alike(w, v) ==
  /\ v.track = w.track /\ v.starting = w.starting /\ v.upstream = w.upstream
  /\ w.draining => v.draining

LEMMA ForwarderShape ==
  ASSUME NEW w \in Sized
  PROVE  /\ w \in Forwarder /\ w.track \in Tracks /\ w.subscribers \in SUBSET Sessions
         /\ w.forwarding \in SUBSET Sessions /\ w.draining \in BOOLEAN /\ w.open \in BOOLEAN
         /\ w.upstream \in {"none", "pending", "live", "rejected", "gone"}
         /\ w.starting \in BOOLEAN /\ w.told \in BOOLEAN /\ w.forwarding \subseteq w.subscribers
BY Zenon DEF Sized, Forwarder

LEMMA ToldShape ==
  ASSUME NEW w \in Sized, NEW b \in BOOLEAN
  PROVE  WithTold(w, b) \in Sized /\ Alike(w, WithTold(w, b))
BY ForwarderShape, Zenon DEF WithTold, Sized, Forwarder, Alike

LEMMA OpenShape ==
  ASSUME NEW w \in Sized, NEW b \in BOOLEAN
  PROVE  WithOpen(w, b) \in Sized /\ Alike(w, WithOpen(w, b))
BY ForwarderShape, Zenon DEF WithOpen, Sized, Forwarder, Alike

LEMMA DrainingShape ==
  ASSUME NEW w \in Sized
  PROVE  WithDraining(w) \in Sized /\ Alike(w, WithDraining(w)) /\ WithDraining(w).draining
BY ForwarderShape, Zenon DEF WithDraining, Sized, Forwarder, Alike

LEMMA ForwardingShape ==
  ASSUME NEW w \in Sized, NEW to \in SUBSET w.subscribers
  PROVE  WithForwarding(w, to) \in Sized /\ Alike(w, WithForwarding(w, to))
BY ForwarderShape, Zenon DEF WithForwarding, Sized, Forwarder, Alike

LEMMA SubscribersShape ==
  ASSUME NEW w \in Sized, NEW who \in SUBSET Sessions, w.forwarding \subseteq who
  PROVE  /\ WithSubscribers(w, who) \in Sized /\ Alike(w, WithSubscribers(w, who))
         /\ WithSubscribers(w, who).subscribers = who
BY ForwarderShape, Zenon DEF WithSubscribers, Sized, Forwarder, Alike

LEMMA BothShape ==
  ASSUME NEW w \in Sized, NEW who \in SUBSET Sessions, NEW to \in SUBSET who
  PROVE  WithBoth(w, who, to) \in Sized /\ Alike(w, WithBoth(w, who, to))
BY ForwarderShape, Zenon DEF WithBoth, Sized, Forwarder, Alike

LEMMA UpstreamShape ==
  ASSUME NEW w \in Sized, NEW v \in {"none", "pending", "live", "rejected", "gone"}
  PROVE  /\ WithUpstream(w, v) \in Sized /\ WithUpstream(w, v).upstream = v
         /\ WithUpstream(w, v).track = w.track /\ WithUpstream(w, v).starting = w.starting
         /\ WithUpstream(w, v).draining = w.draining
BY ForwarderShape, Zenon DEF WithUpstream, Sized, Forwarder

LEMMA PutShape ==
  ASSUME NEW st \in State, NEW f \in Forwarders, NEW w \in Sized
  PROVE  /\ Put(st, f, w) \in State
         /\ Put(st, f, w).subscriptions = st.subscriptions
         /\ Put(st, f, w).coalescing = st.coalescing
         /\ Put(st, f, w).forwarders[f] = w
         /\ \A g \in Forwarders : g # f => Put(st, f, w).forwarders[g] = st.forwarders[g]
BY Zenon DEF Put, State

LEMMA PutFollows ==
  ASSUME NEW st \in State, NEW f \in Forwarders, NEW w \in Sized, Alike(st.forwarders[f], w)
  PROVE  Follows(st, Put(st, f, w))
<1>1. \A g \in Forwarders : Alike(st.forwarders[g], Put(st, f, w).forwarders[g])
  <2>1. \A g \in Forwarders : Alike(st.forwarders[g], st.forwarders[g])
    BY Zenon DEF Alike
  <2> QED
    BY <2>1, PutShape
<1>2. Moves(st, Put(st, f, w), {})
  BY <1>1, PutShape DEF Moves, Alike
<1> QED
  BY <1>2, Zenon DEF Follows

LEMMA Erased ==
  ASSUME NEW st \in State, NEW subs
  PROVE  /\ Moves(st, Erase(st, subs), subs) /\ Erase(st, subs) \in State
         /\ Erase(st, subs).subscriptions = st.subscriptions \ subs
         /\ Erase(st, subs).forwarders = st.forwarders
         /\ Erase(st, subs).coalescing =
              {c \in st.coalescing : ~ \E sub \in subs : c.waits /\ c.forwarder = sub.forwarder}
<1> DEFINE u == Erase(st, subs)
<1>1. /\ u.subscriptions = st.subscriptions \ subs
      /\ u.forwarders = st.forwarders
      /\ u.coalescing =
           {c \in st.coalescing : ~ \E sub \in subs : c.waits /\ c.forwarder = sub.forwarder}
      /\ u \in State
  BY Zenon DEF Erase, State
<1> HIDE DEF u
<1>2. Moves(st, u, subs)
  BY <1>1, Zenon DEF Moves
<1> QED
  BY <1>1, <1>2, Zenon DEF u

LEMMA OneFound ==
  ASSUME NEW st, Good(st), NEW track, NEW sub \in Find(st, track)
  PROVE  Find(st, track) = {sub} /\ sub.track = track /\ sub \in st.subscriptions
BY DEF Good, Find

LEMMA onEmptyFollows ==
  ASSUME NEW st, Good(st), NEW f \in Forwarders
  PROVE  Follows(st, onEmpty(st, f))
<1> DEFINE found == Find(st, st.forwarders[f].track)
           sub == CHOOSE x \in found : TRUE
           g == sub.forwarder
           w == st.forwarders[g]
<1>0. st \in State
  BY Zenon DEF Good
<1>1. CASE found = {}
  BY <1>0, <1>1, FollowsItself, Zenon DEF onEmpty
<1>2. CASE found # {}
  <2>1. sub \in found
    BY <1>2, Zenon
  <2>2. found = {sub} /\ sub \in st.subscriptions
    BY <2>1, OneFound
  <2>3. /\ onEmpty(st, f) =
             IF ~sub.handle THEN Erase(st, found)
             ELSE IF sub.isPublish THEN Put(st, g, WithTold(w, FALSE))
             ELSE Erase(Put(st, g, WithUpstream(w, "gone")), found)
    BY <1>2, Zenon DEF onEmpty, Put, WithTold, WithUpstream
  <2> HIDE DEF sub, found
  <2>4. g \in Forwarders /\ w \in Sized
    BY <1>0, <2>2, StateShape, Zenon
  <2>5. CASE ~sub.handle
    <3>1. Moves(st, Erase(st, found), found)
      BY <1>0, Erased, Zenon
    <3>2. found \in SUBSET (st.subscriptions \ Live(st))
      BY <2>2, <2>5, Zenon DEF Live
    <3> QED
      BY <2>3, <2>5, <3>1, <3>2, Zenon DEF Follows
  <2>6. CASE sub.handle /\ sub.isPublish
    <3>1. WithTold(w, FALSE) \in Sized /\ Alike(w, WithTold(w, FALSE))
      BY <2>4, ToldShape, Zenon
    <3>2. onEmpty(st, f) = Put(st, g, WithTold(w, FALSE))
      BY <2>3, <2>6, Zenon
    <3> HIDE DEF g
    <3> QED
      BY <1>0, <2>4, <3>1, <3>2, PutFollows, Zenon
  <2>7. CASE sub.handle /\ ~sub.isPublish
    <3> DEFINE v == WithUpstream(w, "gone")
               u1 == Put(st, g, v)
               u == Erase(u1, found)
    <3>1. /\ v \in Sized /\ v.upstream = "gone" /\ v.track = w.track /\ v.starting = w.starting
          /\ v.draining = w.draining
      BY <2>4, UpstreamShape, Zenon
    <3> HIDE DEF v, g
    <3>2. /\ u1 \in State /\ u1.subscriptions = st.subscriptions
          /\ u1.coalescing = st.coalescing /\ u1.forwarders[g] = v
          /\ \A h \in Forwarders : h # g => u1.forwarders[h] = st.forwarders[h]
      BY <1>0, <2>4, <3>1, PutShape
    <3> HIDE DEF u1
    <3>3. Moves(u1, u, found)
      BY <3>2, Erased, Zenon
    <3> HIDE DEF u
    <3>4. \E x \in found : x.forwarder = g /\ x.handle /\ ~x.isPublish
      BY <2>2, <2>7, Zenon DEF g
    <3>5. Moves(st, u, found)
      BY <3>1, <3>2, <3>3, <3>4 DEF Moves
    <3>6. found \in SUBSET (st.subscriptions \ Live(st))
      BY <2>2, <2>7, Zenon DEF Live
    <3> QED
      BY <2>3, <2>7, <3>5, <3>6, Zenon DEF Follows, u, u1, v, g
  <2> QED
    BY <2>5, <2>6, <2>7, Zenon
<1> QED
  BY <1>1, <1>2, Zenon

LEMMA forwardChangedFollows ==
  ASSUME NEW st, Good(st), NEW f \in Forwarders
  PROVE  Follows(st, forwardChanged(st, f))
<1> DEFINE found == {x \in Find(st, st.forwarders[f].track) : x.fulfilled /\ x.handle}
           sub == CHOOSE x \in found : TRUE
           g == sub.forwarder
           w == st.forwarders[g]
           b == (st.forwarders[f].forwarding # {})
<1>0. st \in State
  BY Zenon DEF Good
<1>1. CASE found = {}
  BY <1>0, <1>1, FollowsItself, Zenon DEF forwardChanged
<1>2. CASE found # {}
  <2>1. sub \in found
    BY <1>2, Zenon
  <2>2. sub \in st.subscriptions
    BY <2>1, Zenon DEF Find
  <2>3. forwardChanged(st, f) = Put(st, g, WithTold(w, b))
    BY <1>2, Zenon DEF forwardChanged, Put, WithTold
  <2>4. b \in BOOLEAN
    BY Zenon
  <2> HIDE DEF sub, found, b
  <2>5. g \in Forwarders /\ w \in Sized
    BY <1>0, <2>2, StateShape, Zenon
  <2>6. QED
    <3>1. WithTold(w, b) \in Sized /\ Alike(w, WithTold(w, b))
      BY <2>4, <2>5, ToldShape, Zenon
    <3> HIDE DEF g
    <3> QED
      BY <1>0, <2>3, <2>5, <3>1, PutFollows, Zenon
<1> QED
  BY <1>1, <1>2, Zenon

LEMMA updateForwardStateFollows ==
  ASSUME NEW st, Good(st), NEW f \in Forwarders, NEW s, NEW forward,
         s \in st.forwarders[f].subscribers
  PROVE  Follows(st, updateForwardState(st, f, s, forward))
<1> DEFINE w == st.forwarders[f]
           after == IF forward THEN w.forwarding \cup {s} ELSE w.forwarding \ {s}
           updated == Put(st, f, WithForwarding(w, after))
<1>1. st \in State /\ w \in Sized
  BY StateShape, Zenon DEF Good
<1>2. after \in SUBSET w.subscribers
  BY <1>1, ForwarderShape, Zenon
<1>3. updateForwardState(st, f, s, forward) = forwardChanged(updated, f)
        \/ updateForwardState(st, f, s, forward) = updated
  BY Zenon DEF updateForwardState, Put, WithForwarding
<1> HIDE DEF after
<1>4. WithForwarding(w, after) \in Sized /\ Alike(w, WithForwarding(w, after))
  BY <1>1, <1>2, ForwardingShape, Zenon
<1>5. Follows(st, updated)
  BY <1>1, <1>4, PutFollows, Zenon
<1> HIDE DEF updated
<1>6. Follows(updated, forwardChanged(updated, f))
  BY <1>5, GoodFollows, forwardChangedFollows, Zenon
<1> QED
  BY <1>3, <1>5, <1>6, FollowsOn, Zenon

LEMMA addSubscriberFollows ==
  ASSUME NEW st, Good(st), NEW f \in Forwarders, NEW s \in Sessions, NEW forward
  PROVE  Follows(st, addSubscriber(st, f, s, forward))
<1> DEFINE w == st.forwarders[f]
           who == w.subscribers \cup {s}
           added == Put(st, f, WithSubscribers(w, who))
<1>1. st \in State /\ w \in Sized
  BY StateShape, Zenon DEF Good
<1>2. who \in SUBSET Sessions /\ w.forwarding \subseteq who /\ s \in who
  BY <1>1, ForwarderShape, Zenon
<1>3. addSubscriber(st, f, s, forward) = st
        \/ addSubscriber(st, f, s, forward) = updateForwardState(added, f, s, forward)
  BY Zenon DEF addSubscriber, Put, WithSubscribers
<1> HIDE DEF who
<1>4. /\ WithSubscribers(w, who) \in Sized /\ Alike(w, WithSubscribers(w, who))
      /\ WithSubscribers(w, who).subscribers = who
  BY <1>1, <1>2, SubscribersShape, Zenon
<1>5. Follows(st, added) /\ added.forwarders[f].subscribers = who
  BY <1>1, <1>4, PutFollows, PutShape, Zenon
<1> HIDE DEF added
<1>6. Good(added)
  BY <1>5, GoodFollows, Zenon
<1>7. Follows(added, updateForwardState(added, f, s, forward))
  BY <1>2, <1>5, <1>6, updateForwardStateFollows, Zenon
<1> QED
  BY <1>1, <1>3, <1>5, <1>7, FollowsOn, FollowsItself, Zenon

LEMMA removeSubscribersFollows ==
  ASSUME NEW st, Good(st), NEW f \in Forwarders, NEW gone
  PROVE  Follows(st, removeSubscribers(st, f, gone))
<1> DEFINE w == st.forwarders[f]
           v == WithBoth(w, w.subscribers \ gone, w.forwarding \ gone)
           removed == [st EXCEPT !.forwarders[f].subscribers = @ \ gone,
                                 !.forwarders[f].forwarding = @ \ gone]
           u == removeSubscribers(st, f, gone)
<1>1. st \in State /\ w \in Sized /\ w \in Forwarder
  BY StateShape, Zenon DEF Good
<1>2. removed = Put(st, f, v)
  BY <1>1, Zenon DEF Put, WithBoth, State, Forwarder
<1>3. u = removed \/ u = onEmpty(removed, f) \/ u = forwardChanged(removed, f)
  BY Zenon DEF removeSubscribers
<1> HIDE DEF removed, u
<1>4. v \in Sized /\ Alike(w, v)
  BY <1>1, ForwarderShape, BothShape, Zenon
<1> HIDE DEF v
<1>5. Follows(st, removed)
  BY <1>1, <1>2, <1>4, PutFollows, Zenon
<1>6. Good(removed)
  BY <1>5, GoodFollows, Zenon
<1>7. Follows(removed, onEmpty(removed, f)) /\ Follows(removed, forwardChanged(removed, f))
  BY <1>6, onEmptyFollows, forwardChangedFollows, Zenon
<1>8. Follows(st, u)
  BY <1>3, <1>5, <1>7, FollowsOn, Zenon
<1> QED
  BY <1>8, Zenon DEF u

LEMMA drainForwarderFollows ==
  ASSUME NEW st, Good(st), NEW f \in Forwarders, NEW stay
  PROVE  /\ Follows(st, drainForwarder(st, f, stay))
         /\ drainForwarder(st, f, stay).forwarders[f].draining
<1> DEFINE w == st.forwarders[f]
           drained == Put(st, f, WithDraining(w))
           u == drainForwarder(st, f, stay)
           gone == st.forwarders[f].subscribers \ stay
<1>1. st \in State /\ w \in Sized
  BY StateShape, Zenon DEF Good
<1>2. u = drained \/ u = removeSubscribers(drained, f, gone)
  BY Zenon DEF drainForwarder, Put, WithDraining
<1>3. WithDraining(w) \in Sized /\ Alike(w, WithDraining(w)) /\ WithDraining(w).draining
  BY <1>1, DrainingShape, Zenon
<1>4. Follows(st, drained) /\ drained.forwarders[f].draining /\ drained \in State
  BY <1>1, <1>3, PutFollows, PutShape
<1> HIDE DEF drained, gone, u
<1>5. Good(drained)
  BY <1>4, GoodFollows, Zenon
<1>6. Follows(drained, u)
  BY <1>2, <1>4, <1>5, removeSubscribersFollows, FollowsItself, Zenon
<1>7. u.forwarders[f].draining
  BY <1>4, <1>6, Zenon DEF Follows, Moves
<1>8. Follows(st, u)
  BY <1>4, <1>6, FollowsOn, Zenon
<1> QED
  BY <1>7, <1>8, Zenon DEF u

-----------------------------------------------------------------------------
(* What is not such a move.                                                *)

(* A forwarder that no entry has may become anything.                      *)
LEMMA GoodPutFree ==
  ASSUME NEW st, Good(st), NEW f \in Forwarders, NEW w \in Sized, RequestOK(w),
         \A x \in st.subscriptions : x.forwarder # f
  PROVE  /\ Good(Put(st, f, w)) /\ Live(Put(st, f, w)) = Live(st)
         /\ \A g \in Forwarders : g # f /\ TaskOK(st, g) => TaskOK(Put(st, f, w), g)
<1> DEFINE u == Put(st, f, w)
<1>1. st \in State
  BY Zenon DEF Good
<1>2. /\ u \in State /\ u.subscriptions = st.subscriptions /\ u.coalescing = st.coalescing
      /\ u.forwarders[f] = w
      /\ \A g \in Forwarders : g # f => u.forwarders[g] = st.forwarders[g]
  BY <1>1, PutShape
<1> HIDE DEF u
<1>3. \A x \in st.subscriptions : x.forwarder \in Forwarders
  BY <1>1, StateShape, Zenon
<1>4. \A x \in u.subscriptions : EntryOK(x, u.forwarders[x.forwarder])
  BY <1>2, <1>3 DEF Good
<1>5. \A g \in Forwarders : RequestOK(u.forwarders[g])
  BY <1>2, Zenon DEF Good
<1>6. Good(u)
  BY <1>2, <1>4, <1>5, Zenon DEF Good
<1>7. Live(u) = Live(st)
  BY <1>2, Zenon DEF Live
<1>8. \A g \in Forwarders : g # f /\ TaskOK(st, g) => TaskOK(u, g)
  BY <1>2, Zenon DEF TaskOK
<1> QED
  BY <1>6, <1>7, <1>8, Zenon DEF u

(* One that drains has had its request ended.                              *)
LEMMA GoodEnded ==
  ASSUME NEW st, Good(st), NEW f \in Forwarders, st.forwarders[f].draining
  PROVE  LET u == Put(st, f, WithUpstream(st.forwarders[f], "gone"))
         IN  /\ Good(u) /\ Live(u) = Live(st)
             /\ \A g \in Forwarders : TaskOK(st, g) => TaskOK(u, g)
<1> DEFINE w == st.forwarders[f]
           v == WithUpstream(w, "gone")
           u == Put(st, f, v)
<1>1. st \in State /\ w \in Sized
  BY StateShape, Zenon DEF Good
<1>2. /\ v \in Sized /\ v.upstream = "gone" /\ v.track = w.track /\ v.starting = w.starting
      /\ v.draining
  BY <1>1, UpstreamShape, Zenon
<1> HIDE DEF v
<1>3. /\ u \in State /\ u.subscriptions = st.subscriptions /\ u.coalescing = st.coalescing
      /\ u.forwarders[f] = v
      /\ \A g \in Forwarders : g # f => u.forwarders[g] = st.forwarders[g]
  BY <1>1, <1>2, PutShape
<1> HIDE DEF u
<1>4. ASSUME NEW x \in u.subscriptions PROVE EntryOK(x, u.forwarders[x.forwarder])
  <2>1. x.forwarder \in Forwarders /\ EntryOK(x, st.forwarders[x.forwarder])
    BY <1>1, <1>3, StateShape, Zenon DEF Good
  <2>2. CASE x.forwarder = f
    BY <1>2, <1>3, <2>1, <2>2, Zenon DEF EntryOK
  <2>3. CASE x.forwarder # f
    BY <1>3, <2>1, <2>3, Zenon
  <2> QED
    BY <2>2, <2>3, Zenon
<1>5. \A g \in Forwarders : RequestOK(u.forwarders[g])
  <2>1. RequestOK(v)
    BY <1>2, Zenon DEF RequestOK
  <2> QED
    BY <1>3, <2>1, Zenon DEF Good
<1>6. Good(u)
  BY <1>3, <1>4, <1>5, Zenon DEF Good
<1>7. Live(u) = Live(st)
  BY <1>3, Zenon DEF Live
<1>8. ASSUME NEW g \in Forwarders, TaskOK(st, g) PROVE TaskOK(u, g)
  BY <1>2, <1>3, <1>8, Zenon DEF TaskOK
<1> QED
  BY <1>6, <1>7, <1>8, Zenon DEF u, v

(* A new entry of a track that has none.                                   *)
AddEntry(st, x) == [st EXCEPT !.subscriptions = @ \cup {x}]

LEMMA GoodAdded ==
  ASSUME NEW st, Good(st), NEW x \in RelaySubscription,
         \A y \in st.subscriptions : y.track # x.track /\ y.forwarder # x.forwarder,
         EntryOK(x, st.forwarders[x.forwarder])
  PROVE  /\ Good(AddEntry(st, x))
         /\ Live(AddEntry(st, x)) = Live(st) \cup (IF x.isPublish /\ x.handle THEN {x} ELSE {})
         /\ \A g \in Forwarders : TaskOK(st, g) /\ (g = x.forwarder => x.isPublish) =>
              TaskOK(AddEntry(st, x), g)
<1> DEFINE u == AddEntry(st, x)
<1>1. st \in State
  BY Zenon DEF Good
<1>2. /\ u \in State /\ u.subscriptions = st.subscriptions \cup {x}
      /\ u.coalescing = st.coalescing /\ u.forwarders = st.forwarders
  BY <1>1, Zenon DEF AddEntry, State
<1> HIDE DEF u
<1>3. Good(u)
  BY <1>2, Zenon DEF Good
<1>4. Live(u) = Live(st) \cup (IF x.isPublish /\ x.handle THEN {x} ELSE {})
  BY <1>2, Zenon DEF Live
<1>5. \A g \in Forwarders : TaskOK(st, g) /\ (g = x.forwarder => x.isPublish) => TaskOK(u, g)
  BY <1>2, Zenon DEF TaskOK
<1> QED
  BY <1>3, <1>4, <1>5, Zenon DEF u

-----------------------------------------------------------------------------
(* Commit, and the steps that end in it.                                   *)

TracksInv == Good(Current) /\ publishing \subseteq PublishTask /\ detached \subseteq Sessions
AllHeld == \A f \in Forwarders : Held(Current, publishing, f) \/ forwarders[f] = NoForwarder

LEMMA NoForwarderShape ==
  ASSUME RelayAssumption, Forwarders # {} PROVE NoForwarder \in Sized /\ RequestOK(NoForwarder)
<1>1. Tracks # {}
  BY Zenon DEF RelayAssumption
<1>2. (CHOOSE track \in Tracks : TRUE) \in Tracks
  BY <1>1, Zenon
<1>3. NoForwarder \in Sized
  BY <1>2, Zenon DEF NoForwarder, Sized, Forwarder
<1>4. NoForwarder.upstream = "none" /\ NoForwarder.starting = FALSE
  BY Zenon DEF NoForwarder
<1> QED
  BY <1>3, <1>4, Zenon DEF RequestOK

LEMMA Committed ==
  ASSUME RelayAssumption, NEW st, Good(st), NEW tasks \in SUBSET PublishTask,
         detached \subseteq Sessions, Commit(st, tasks)
  PROVE  /\ TracksInv' /\ AllHeld' /\ Live(Current)' = Live(st) /\ publishing' = tasks
         /\ TasksOK(st, tasks) => TasksOK(Current, publishing)'
         /\ subscriptions' = st.subscriptions
<1> DEFINE dead == {f \in Forwarders : ~Held(st, tasks, f)}
           new == Current'
<1>1. /\ subscriptions' = st.subscriptions /\ coalescing' = st.coalescing /\ publishing' = tasks
      /\ forwarders' = [f \in Forwarders |-> IF f \in dead THEN NoForwarder ELSE st.forwarders[f]]
      /\ detached' = detached \cup
           UNION {st.forwarders[f].subscribers : f \in {x \in dead : ~st.forwarders[x].draining}}
  BY Zenon DEF Commit
<1>2. /\ new.subscriptions = st.subscriptions /\ new.coalescing = st.coalescing
      /\ new.forwarders = forwarders'
      /\ new = [subscriptions |-> st.subscriptions, forwarders |-> forwarders',
                coalescing |-> st.coalescing]
  BY <1>1, Zenon DEF Current
<1> HIDE DEF new, dead
<1>3. st \in State
  BY Zenon DEF Good
<1>4. \A f \in Forwarders : f \in dead <=> ~Held(st, tasks, f)
  BY Zenon DEF dead
<1>5. \A f \in Forwarders : /\ f \in dead => new.forwarders[f] = NoForwarder
                            /\ f \notin dead => new.forwarders[f] = st.forwarders[f]
  BY <1>1, <1>2, Zenon
<1>6. \A f \in Forwarders : NoForwarder \in Sized /\ RequestOK(NoForwarder)
  BY NoForwarderShape, Zenon
<1>7. new \in State
  <2>1. forwarders' \in [Forwarders -> Sized]
    <3>1. \A f \in Forwarders : st.forwarders[f] \in Sized
      BY <1>3, StateShape, Zenon
    <3> QED
      BY <1>1, <1>6, <3>1, Zenon
  <2> QED
    BY <1>2, <1>3, <2>1, StateShape, Zenon DEF State
<1>8. \A x \in st.subscriptions : x.forwarder \in Forwarders /\ x.forwarder \notin dead
  BY <1>3, <1>4, StateShape, Zenon DEF Held
<1>9. \A x \in new.subscriptions : EntryOK(x, new.forwarders[x.forwarder])
  BY <1>2, <1>5, <1>8, Zenon DEF Good
<1>10. \A f \in Forwarders : RequestOK(new.forwarders[f])
  BY <1>5, <1>6, Zenon DEF Good
<1>11. Good(new)
  BY <1>2, <1>7, <1>9, <1>10, Zenon DEF Good
<1>12. detached' \subseteq Sessions
  <2>1. \A f \in dead : st.forwarders[f].subscribers \subseteq Sessions
    BY <1>3, StateShape, ForwarderShape, Zenon DEF dead
  <2> QED
    BY <1>1, <2>1, Zenon
<1>13. AllHeld'
  <2> SUFFICES ASSUME NEW f \in Forwarders, f \notin dead
               PROVE  Held(new, tasks, f)
    BY <1>1, <1>2, <1>5, Zenon DEF AllHeld, new
  <2> QED
    BY <1>2, <1>4, <1>5, Zenon DEF Held
<1>14. Live(new) = Live(st)
  BY <1>2, Zenon DEF Live
<1>15. ASSUME TasksOK(st, tasks) PROVE TasksOK(new, tasks)
  <2> SUFFICES ASSUME NEW p \in tasks PROVE TaskOK(new, p.forwarder)
    BY Zenon DEF TasksOK
  <2>1. p.forwarder \in Forwarders
    BY Zenon DEF PublishTask
  <2>2. p.forwarder \notin dead
    BY <1>4, <2>1, Zenon DEF Held
  <2>3. TaskOK(st, p.forwarder)
    BY <1>15, Zenon DEF TasksOK
  <2> QED
    BY <1>2, <1>5, <2>1, <2>2, <2>3, Zenon DEF TaskOK
<1> QED
  BY <1>1, <1>11, <1>12, <1>13, <1>14, <1>15, Zenon DEF TracksInv, new

(* A step that neither adds nor takes away a live PUBLISH.                 *)
Calm ==
  /\ TracksInv' /\ (AllHeld => AllHeld') /\ Live(Current)' = Live(Current)
  /\ TasksOK(Current, publishing) => TasksOK(Current, publishing)'

LEMMA CalmCommit ==
  ASSUME RelayAssumption, TracksInv, NEW u, Good(u), Live(u) = Live(Current),
         NEW tasks \in SUBSET PublishTask, Commit(u, tasks),
         TasksOK(Current, publishing) => TasksOK(u, tasks)
  PROVE  Calm
BY Committed, Zenon DEF TracksInv, Calm

LEMMA CalmFollows ==
  ASSUME RelayAssumption, TracksInv, NEW u, Follows(Current, u),
         NEW tasks \in SUBSET PublishTask, Commit(u, tasks),
         \A p \in tasks : \E q \in publishing : q.forwarder = p.forwarder
  PROVE  Calm
<1>1. Good(u) /\ Live(u) = Live(Current)
  BY GoodFollows, Zenon DEF TracksInv
<1>2. ASSUME TasksOK(Current, publishing) PROVE TasksOK(u, tasks)
  <2> SUFFICES ASSUME NEW p \in tasks PROVE TaskOK(u, p.forwarder)
    BY Zenon DEF TasksOK
  <2>1. p.forwarder \in Forwarders
    BY Zenon DEF PublishTask
  <2>2. TaskOK(Current, p.forwarder)
    BY <1>2, Zenon DEF TasksOK
  <2> QED
    BY <2>1, <2>2, TasksFollow, Zenon DEF TracksInv
<1> QED
  BY <1>1, <1>2, CalmCommit, Zenon

LEMMA CalmUntouched ==
  ASSUME TracksInv, Untouched, UNCHANGED publishing PROVE Calm
<1>1. Current' = Current
  BY Zenon DEF Untouched, Current
<1> QED
  BY <1>1, Zenon DEF Untouched, Calm, TracksInv, AllHeld, Held, Live, TasksOK

-----------------------------------------------------------------------------
(* What a forwarder reports.                                               *)

LEMMA CurrentParts ==
  ASSUME TracksInv
  PROVE  /\ Current \in State /\ Current.subscriptions = subscriptions
         /\ Current.forwarders = forwarders /\ Current.coalescing = coalescing
         /\ \A f \in Forwarders : forwarders[f] \in Sized
         /\ \A x \in subscriptions : x.forwarder \in Forwarders
<1>1. Current \in State
  BY Zenon DEF TracksInv, Good
<1>2. /\ Current.subscriptions = subscriptions
      /\ Current.forwarders = forwarders /\ Current.coalescing = coalescing
  BY Zenon DEF Current
<1> QED
  BY <1>1, <1>2, StateShape, Zenon

LEMMA CalmForwarder ==
  ASSUME RelayAssumption, TracksInv, NEW f \in Forwarders, NEW s, NEW forward,
         leave(f, s) \/ updateForward(f, s, forward) \/ closeSubgroup(f)
  PROVE  Calm
<1>1. Good(Current) /\ publishing \in SUBSET PublishTask
  BY Zenon DEF TracksInv
<1>2. ASSUME NEW u, Follows(Current, u), Commit(u, publishing) PROVE Calm
  BY <1>1, <1>2, CalmFollows, Zenon
<1>3. CASE leave(f, s)
  <2>1. Follows(Current, removeSubscribers(Current, f, {s}))
    BY <1>1, removeSubscribersFollows, Zenon
  <2> QED
    BY <1>2, <1>3, <2>1, Zenon DEF leave
<1>4. CASE updateForward(f, s, forward)
  <2>1. s \in Current.forwarders[f].subscribers
    BY <1>4, CurrentParts, Zenon DEF updateForward
  <2>2. Follows(Current, updateForwardState(Current, f, s, forward))
    BY <1>1, <2>1, updateForwardStateFollows, Zenon
  <2> QED
    BY <1>2, <1>4, <2>2, Zenon DEF updateForward
<1>5. CASE closeSubgroup(f)
  <2> DEFINE w == Current.forwarders[f]
             closed == Put(Current, f, WithOpen(w, FALSE))
             gone == forwarders[f].subscribers
  <2>1. \/ Commit(removeSubscribers(closed, f, gone), publishing)
        \/ Commit(closed, publishing)
    BY <1>5, Zenon DEF closeSubgroup, Put, WithOpen
  <2>2. WithOpen(w, FALSE) \in Sized /\ Alike(w, WithOpen(w, FALSE)) /\ Current \in State
    BY CurrentParts, OpenShape, Zenon
  <2>3. Follows(Current, closed)
    BY <2>2, PutFollows, Zenon
  <2> HIDE DEF closed, gone
  <2>4. Follows(closed, removeSubscribers(closed, f, gone))
    BY <1>1, <2>3, GoodFollows, removeSubscribersFollows, Zenon
  <2>5. Follows(Current, removeSubscribers(closed, f, gone))
    BY <1>1, <2>3, <2>4, FollowsOn, Zenon
  <2> QED
    BY <1>2, <2>1, <2>3, <2>5, Zenon
<1> QED
  BY <1>3, <1>4, <1>5, Zenon

LEMMA CalmOpen ==
  ASSUME TracksInv, NEW f \in Forwarders, openSubgroup(f) PROVE Calm
<1> DEFINE w == forwarders[f]
           v == WithOpen(w, TRUE)
           u == Put(Current, f, v)
<1>1. /\ w.upstream = "live" /\ forwarders' = [forwarders EXCEPT ![f] = v]
      /\ UNCHANGED <<subscriptions, coalescing, publishing, detached>>
  BY Zenon DEF openSubgroup, WithOpen
<1> HIDE DEF v
<1>2. Current' = u
  BY <1>1 DEF Current, Put
<1>3. v \in Sized /\ Alike(w, v) /\ Current \in State
  BY CurrentParts, OpenShape, Zenon DEF v
<1>4. Follows(Current, u)
  BY <1>3, CurrentParts, PutFollows, Zenon
<1> HIDE DEF u
<1>5. Good(u) /\ Live(u) = Live(Current)
  BY <1>4, GoodFollows, Zenon DEF TracksInv
<1>6. ASSUME TasksOK(Current, publishing) PROVE TasksOK(u, publishing)
  <2> SUFFICES ASSUME NEW p \in publishing PROVE TaskOK(u, p.forwarder)
    BY Zenon DEF TasksOK
  <2>1. p.forwarder \in Forwarders /\ TaskOK(Current, p.forwarder)
    BY <1>6, Zenon DEF TracksInv, PublishTask, TasksOK
  <2> QED
    BY <1>4, <2>1, TasksFollow, Zenon DEF TracksInv
<1>7. ASSUME AllHeld PROVE AllHeld'
  <2> SUFFICES ASSUME NEW g \in Forwarders
               PROVE  Held(Current', publishing', g) \/ forwarders'[g] = NoForwarder
    BY Zenon DEF AllHeld
  <2>1. Held(Current, publishing, g) \/ forwarders[g] = NoForwarder
    BY <1>7, Zenon DEF AllHeld
  <2>2. /\ Current'.subscriptions = subscriptions /\ Current'.forwarders = forwarders'
        /\ Current.subscriptions = subscriptions /\ Current.forwarders = forwarders
    BY <1>1, Zenon DEF Current
  <2>3. forwarders \in [Forwarders -> Sized]
    BY CurrentParts, StateShape, Zenon
  <2>4. CASE g = f
    <3>1. forwarders'[g].upstream = "live"
      BY <1>1, <1>3, <2>3, <2>4, Zenon DEF Alike
    <3> QED
      BY <2>2, <3>1, Zenon DEF Held
  <2>5. CASE g # f
    <3>1. forwarders'[g] = forwarders[g]
      BY <1>1, <2>3, <2>5, Zenon
    <3> QED
      BY <1>1, <2>1, <2>2, <3>1, Zenon DEF Held
  <2> QED
    BY <2>4, <2>5, Zenon
<1> QED
  BY <1>1, <1>2, <1>5, <1>6, <1>7, Zenon DEF Calm, TracksInv

LEMMA CalmAnswer ==
  ASSUME TracksInv, NEW f \in Forwarders, NEW answer \in {"live", "rejected"},
         upstreamAnswers(f, answer)
  PROVE  Calm
<1> DEFINE w == forwarders[f]
           v == WithUpstream(w, answer)
           u == Put(Current, f, v)
<1>1. /\ w.upstream = "pending" /\ forwarders' = [forwarders EXCEPT ![f] = v]
      /\ UNCHANGED <<subscriptions, coalescing, publishing, detached>>
  BY Zenon DEF upstreamAnswers, WithUpstream
<1>2. Current' = u
  BY <1>1 DEF Current, Put
<1>3. w \in Sized /\ w.starting /\ RequestOK(w)
  BY <1>1, CurrentParts, Zenon DEF TracksInv, Good, RequestOK
<1>4. /\ v \in Sized /\ v.upstream = answer /\ v.track = w.track /\ v.starting
      /\ v.draining = w.draining
  BY <1>3, UpstreamShape
<1> HIDE DEF v
<1>5. /\ u \in State /\ u.subscriptions = subscriptions /\ u.coalescing = coalescing
      /\ u.forwarders[f] = v
      /\ \A g \in Forwarders : g # f => u.forwarders[g] = forwarders[g]
  BY <1>4, CurrentParts, PutShape
<1> HIDE DEF u
<1>6. ASSUME NEW x \in u.subscriptions PROVE EntryOK(x, u.forwarders[x.forwarder])
  <2>1. x.forwarder \in Forwarders /\ EntryOK(x, forwarders[x.forwarder])
    BY <1>5, CurrentParts DEF TracksInv, Good
  <2>2. CASE x.forwarder = f
    BY <1>3, <1>4, <1>5, <2>1, <2>2, Zenon DEF EntryOK
  <2>3. CASE x.forwarder # f
    BY <1>5, <2>1, <2>3
  <2> QED
    BY <2>2, <2>3
<1>7. RequestOK(v)
  BY <1>4 DEF RequestOK
<1>8. \A g \in Forwarders : RequestOK(u.forwarders[g])
  BY <1>5, <1>7, CurrentParts DEF TracksInv, Good
<1>9. Good(u)
  BY <1>5, <1>6, <1>8, CurrentParts DEF TracksInv, Good
<1>10. Live(u) = Live(Current)
  BY <1>5, CurrentParts DEF Live
<1>11. ASSUME TasksOK(Current, publishing) PROVE TasksOK(u, publishing)
  <2> SUFFICES ASSUME NEW p \in publishing PROVE TaskOK(u, p.forwarder)
    BY DEF TasksOK
  <2>1. p.forwarder \in Forwarders /\ TaskOK(Current, p.forwarder)
    BY <1>11 DEF TracksInv, PublishTask, TasksOK
  <2>2. p.forwarder # f
    BY <1>1, <2>1, CurrentParts DEF TaskOK
  <2> QED
    BY <1>5, <2>1, <2>2, CurrentParts DEF TaskOK
<1>12. ASSUME AllHeld PROVE AllHeld'
  <2> SUFFICES ASSUME NEW g \in Forwarders
               PROVE  Held(u, publishing, g) \/ u.forwarders[g] = NoForwarder
    BY <1>1, <1>2, Zenon DEF AllHeld, Current
  <2>1. Held(Current, publishing, g) \/ forwarders[g] = NoForwarder
    BY <1>12 DEF AllHeld
  <2>2. CASE g = f
    BY <1>4, <1>5, <2>2 DEF Held
  <2>3. CASE g # f
    BY <1>5, <2>1, <2>3, CurrentParts DEF Held
  <2> QED
    BY <2>2, <2>3
<1> QED
  BY <1>1, <1>2, <1>9, <1>10, <1>11, <1>12, Zenon DEF Calm, TracksInv
=============================================================================
