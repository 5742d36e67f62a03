----------------------- MODULE MoQProxyRequestsProofs -----------------------
(***************************************************************************)
(* Proofs about MoQProxyRequests, for any requests, any number of          *)
(* providers and any number of sessions.                                   *)
(*                                                                         *)
(* The operations are functions of the state, built from a few that move   *)
(* one request r.  Between two of them r is nowhere: Moving(d, r) is the   *)
(* invariant with nothing said about where r waits.                        *)
(***************************************************************************)
EXTENDS MoQProxyRequests, SequenceTheorems, FiniteSetTheorems, TLAPS

Busy == {"entered", "connecting"}

(* Sessions are numbered in the order they connect.                        *)
SessionsKnown(d) ==
    /\ d.alive \subseteq 1..d.sessions
    /\ \A p \in 1..Providers : d.client[p] <= d.sessions

Distinct(d) ==
    \A p \in 1..Providers : \A i, j \in DOMAIN d.queue[p] :
        d.queue[p][i] = d.queue[p][j] => i = j

(* Where a request waits: in the queue of its provider, or with its mutex. *)
Placed(d, r) ==
    /\ \A p \in 1..Providers :
          Queued(d, p, r) <=> (d.req[r].at = "lock" /\ d.req[r].prov = p)
    /\ d.req[r].at \in Busy => d.holder[d.req[r].prov] = r
    /\ d.req[r].at = "connecting" => d.client[d.req[r].prov] \notin d.alive

(* What a request has of its upstream: it exposed nothing before it was    *)
(* asked, and what was exposed came from the session it is with.           *)
Sourced(d, r) ==
    /\ d.req[r].sources \subseteq {d.req[r].sess}
    /\ ~d.req[r].exposed \/ r \notin Fetches => d.req[r].sources = {}
Upstream(d, r) ==
    /\ Sourced(d, r)
    /\ d.req[r].up = "pending" <=> d.req[r].at = "asked"
    /\ d.req[r].up = "open" => d.req[r].at = "done"
    /\ d.req[r].at \notin {"asked", "done", "refused"} => d.req[r].sources = {}

Common(d) == d \in State /\ SessionsKnown(d) /\ Distinct(d)
Inv(d) == Common(d) /\ \A r \in Requests : Placed(d, r) /\ Upstream(d, r)
Moving(d, r) ==
    /\ Common(d)
    /\ \A q \in Requests \ {r} : Placed(d, q) /\ Upstream(d, q)
    /\ \A p \in 1..Providers : ~Queued(d, p, r)
    /\ Sourced(d, r) /\ d.req[r].up \in {"none", "ended"}

(* The changes of one component of the state.                              *)
SetReq(d, r, n) == [d EXCEPT !.req[r] = n]
SetHolder(d, p, x) == [d EXCEPT !.holder[p] = x]
SetQueue(d, p, x) == [d EXCEPT !.queue[p] = x]
SetClient(d, p, s) == [d EXCEPT !.client[p] = s]
NewSession(d, p, s) == [d EXCEPT !.client[p] = s, !.sessions = s, !.alive = @ \cup {s}]

Has(s, x) == \E i \in DOMAIN s : s[i] = x
NoRepeat(s) == \A i, j \in DOMAIN s : s[i] = s[j] => i = j

-----------------------------------------------------------------------------
(* A waiter joins a queue that does not have it, and the first one leaves. *)
LEMMA Joins ==
  ASSUME NEW S, NEW s \in Seq(S), NEW x \in S, ~Has(s, x), NoRepeat(s)
  PROVE  /\ Append(s, x) \in Seq(S) /\ NoRepeat(Append(s, x))
         /\ \A y \in S : Has(Append(s, x), y) <=> y = x \/ Has(s, y)
<1> DEFINE t == Append(s, x)
<1>1. /\ t \in Seq(S) /\ Len(t) = Len(s) + 1 /\ t[Len(s) + 1] = x
      /\ \A i \in 1..Len(s) : t[i] = s[i]
  BY AppendProperties
<1>2. DOMAIN s = 1..Len(s) /\ DOMAIN t = 1..Len(t) /\ Len(s) \in Nat
  BY <1>1, LenProperties, Zenon
<1> HIDE DEF t
<1>3. \A y \in S : Has(t, y) <=> y = x \/ Has(s, y)
  BY <1>1, <1>2 DEF Has
<1>4. NoRepeat(t)
  BY <1>1, <1>2 DEF Has, NoRepeat
<1> QED
  BY <1>1, <1>3, <1>4, Zenon DEF t

LEMMA Leaves ==
  ASSUME NEW S, NEW s \in Seq(S), s # <<>>, NoRepeat(s)
  PROVE  /\ Head(s) \in S /\ Has(s, Head(s))
         /\ Tail(s) \in Seq(S) /\ NoRepeat(Tail(s))
         /\ \A y \in S : Has(Tail(s), y) <=> y # Head(s) /\ Has(s, y)
<1> DEFINE t == Tail(s)
<1>1. /\ Head(s) \in S /\ t \in Seq(S) /\ Len(t) = Len(s) - 1
      /\ \A i \in 1..Len(t) : t[i] = s[i + 1]
  BY HeadTailProperties, Zenon
<1>2. DOMAIN s = 1..Len(s) /\ DOMAIN t = 1..Len(t) /\ Len(s) \in Nat /\ Len(s) # 0
  BY <1>1, LenProperties, EmptySeq, Zenon
<1>3. Head(s) = s[1]
  OBVIOUS
<1> HIDE DEF t
<1>4. Has(s, Head(s))
  BY <1>2, <1>3 DEF Has
<1>5. NoRepeat(t)
  <2> SUFFICES ASSUME NEW i \in DOMAIN t, NEW j \in DOMAIN t, t[i] = t[j] PROVE i = j
    BY Zenon DEF NoRepeat
  <2>1. /\ i \in 1..Len(t) /\ j \in 1..Len(t) /\ i + 1 \in DOMAIN s /\ j + 1 \in DOMAIN s
        /\ t[i] = s[i + 1] /\ t[j] = s[j + 1]
    BY <1>1, <1>2
  <2>2. i + 1 = j + 1
    BY <2>1, ZenonT(30) DEF NoRepeat
  <2> QED
    BY <2>1, <2>2
<1>6. ASSUME NEW y \in S PROVE Has(t, y) <=> y # Head(s) /\ Has(s, y)
  <2>1. ASSUME NEW i \in DOMAIN t, t[i] = y PROVE y # Head(s) /\ Has(s, y)
    <3>1. i + 1 \in DOMAIN s /\ 1 \in DOMAIN s /\ s[i + 1] = y /\ i + 1 # 1
      BY <1>1, <1>2, <2>1
    <3> QED
      BY <1>3, <3>1, Zenon DEF Has, NoRepeat
  <2>2. ASSUME NEW i \in DOMAIN s, s[i] = y, y # Head(s) PROVE Has(t, y)
    <3>1. i - 1 \in DOMAIN t /\ t[i - 1] = y
      BY <1>1, <1>2, <1>3, <2>2
    <3> QED
      BY <3>1, Zenon DEF Has
  <2> QED
    BY <2>1, <2>2, Zenon DEF Has
<1> QED
  BY <1>1, <1>4, <1>5, <1>6, Zenon DEF t

(* A change to one request changes that request only.                      *)
LEMMA ReqShape ==
  ASSUME NEW d \in State, NEW r \in Requests, NEW n \in Request
  PROVE  LET e == SetReq(d, r, n)
         IN  /\ e \in State
             /\ e.closed = d.closed /\ e.client = d.client /\ e.holder = d.holder
             /\ e.queue = d.queue /\ e.alive = d.alive /\ e.sessions = d.sessions
             /\ \A q \in Requests : e.req[q] = IF q = r THEN n ELSE d.req[q]
<1> DEFINE m == [d.req EXCEPT ![r] = n]
           e == [d EXCEPT !.req = m]
<1>1. m \in [Requests -> Request] /\ \A q \in Requests : m[q] = IF q = r THEN n ELSE d.req[q]
  BY Zenon DEF State
<1>2. /\ e \in State /\ e.req = m
      /\ e.closed = d.closed /\ e.client = d.client /\ e.holder = d.holder
      /\ e.queue = d.queue /\ e.alive = d.alive /\ e.sessions = d.sessions
  <2> HIDE DEF m
  <2> QED
    BY <1>1, Zenon DEF State
<1> QED
  BY <1>1, <1>2, Zenon DEF SetReq

(* Moving a request changes its place only.                                *)
LEMMA AtShape ==
  ASSUME NEW d \in State, NEW r \in Requests, NEW at \in Place
  PROVE  LET e == At(d, r, at)
         IN  /\ e \in State
             /\ e.closed = d.closed /\ e.client = d.client /\ e.holder = d.holder
             /\ e.queue = d.queue /\ e.alive = d.alive /\ e.sessions = d.sessions
             /\ \A q \in Requests : q # r => e.req[q] = d.req[q]
             /\ e.req[r].at = at /\ e.req[r].prov = d.req[r].prov /\ e.req[r].sess = d.req[r].sess
             /\ e.req[r].up = d.req[r].up /\ e.req[r].cancelled = d.req[r].cancelled
             /\ e.req[r].exposed = d.req[r].exposed /\ e.req[r].sources = d.req[r].sources
<1> DEFINE n == [d.req[r] EXCEPT !.at = at]
<1>1. /\ n \in Request
      /\ n.at = at /\ n.prov = d.req[r].prov /\ n.sess = d.req[r].sess /\ n.up = d.req[r].up
      /\ n.cancelled = d.req[r].cancelled /\ n.exposed = d.req[r].exposed
      /\ n.sources = d.req[r].sources
  <2>1. d.req[r] \in Request
    BY Zenon DEF State
  <2> QED
    BY <2>1, Zenon DEF Request
<1>2. At(d, r, at) = SetReq(d, r, n)
  BY Zenon DEF At, SetReq
<1> HIDE DEF n
<1> QED
  BY <1>1, <1>2, ReqShape

(* The same for a mutex, and for a queue.                                  *)
LEMMA HolderShape ==
  ASSUME NEW d \in State, NEW p \in 1..Providers, NEW x \in Requests \cup {Nobody}
  PROVE  LET e == SetHolder(d, p, x)
         IN  /\ e \in State
             /\ e.closed = d.closed /\ e.client = d.client /\ e.req = d.req
             /\ e.queue = d.queue /\ e.alive = d.alive /\ e.sessions = d.sessions
             /\ \A k \in 1..Providers : e.holder[k] = IF k = p THEN x ELSE d.holder[k]
<1> DEFINE m == [d.holder EXCEPT ![p] = x]
           e == [d EXCEPT !.holder = m]
<1>1. /\ m \in [1..Providers -> Requests \cup {Nobody}]
      /\ \A k \in 1..Providers : m[k] = IF k = p THEN x ELSE d.holder[k]
  BY ZenonT(30) DEF State
<1>2. /\ e \in State /\ e.holder = m
      /\ e.closed = d.closed /\ e.client = d.client /\ e.req = d.req
      /\ e.queue = d.queue /\ e.alive = d.alive /\ e.sessions = d.sessions
  <2> HIDE DEF m
  <2> QED
    BY <1>1, ZenonT(30) DEF State
<1> QED
  BY <1>1, <1>2, Zenon DEF SetHolder

LEMMA QueueShape ==
  ASSUME NEW d \in State, NEW p \in 1..Providers, NEW x \in Seq(Requests)
  PROVE  LET e == SetQueue(d, p, x)
         IN  /\ e \in State
             /\ e.closed = d.closed /\ e.client = d.client /\ e.req = d.req
             /\ e.holder = d.holder /\ e.alive = d.alive /\ e.sessions = d.sessions
             /\ \A k \in 1..Providers : e.queue[k] = IF k = p THEN x ELSE d.queue[k]
<1> DEFINE m == [d.queue EXCEPT ![p] = x]
           e == [d EXCEPT !.queue = m]
<1>1. /\ m \in [1..Providers -> Seq(Requests)]
      /\ \A k \in 1..Providers : m[k] = IF k = p THEN x ELSE d.queue[k]
  BY ZenonT(30) DEF State
<1>2. /\ e \in State /\ e.queue = m
      /\ e.closed = d.closed /\ e.client = d.client /\ e.req = d.req
      /\ e.holder = d.holder /\ e.alive = d.alive /\ e.sessions = d.sessions
  <2> HIDE DEF m
  <2> QED
    BY <1>1, ZenonT(30) DEF State
<1> QED
  BY <1>1, <1>2, Zenon DEF SetQueue

-----------------------------------------------------------------------------
(* A request that did not move, between states with the same sessions.     *)
LEMMA OthersKeep ==
  ASSUME NEW d, NEW e, NEW q, Placed(d, q), Upstream(d, q), e.req[q] = d.req[q],
         e.queue = d.queue, e.holder = d.holder, e.client = d.client, e.alive = d.alive
  PROVE  Placed(e, q) /\ Upstream(e, q)
<1>1. Placed(e, q)
  BY ZenonT(30) DEF Placed, Queued
<1>2. Upstream(e, q)
  BY Zenon DEF Upstream, Sourced
<1> QED
  BY <1>1, <1>2, Zenon

LEMMA MovedKeeps ==
  ASSUME NEW d, NEW r \in Requests, Moving(d, r), NEW e \in State,
         e.queue = d.queue, e.holder = d.holder, e.client = d.client, e.alive = d.alive,
         e.sessions = d.sessions, \A q \in Requests : q # r => e.req[q] = d.req[q]
  PROVE  /\ Common(e)
         /\ \A q \in Requests \ {r} : Placed(e, q) /\ Upstream(e, q)
         /\ \A p \in 1..Providers : ~Queued(e, p, r)
<1>1. Common(e)
  BY DEF Moving, Common, SessionsKnown, Distinct
<1>2. ASSUME NEW q \in Requests \ {r} PROVE Placed(e, q) /\ Upstream(e, q)
  BY OthersKeep, Zenon DEF Moving
<1>3. \A p \in 1..Providers : ~Queued(e, p, r)
  BY DEF Moving, Queued
<1> QED
  BY <1>1, <1>2, <1>3, Zenon

(* r stops, and is in no queue.                                            *)
LEMMA RefusedKeeps ==
  ASSUME NEW d, NEW r \in Requests, Moving(d, r)
  PROVE  Inv(At(d, r, "refused"))
<1> DEFINE e == At(d, r, "refused")
<1>1. /\ e \in State
      /\ e.client = d.client /\ e.holder = d.holder
      /\ e.queue = d.queue /\ e.alive = d.alive /\ e.sessions = d.sessions
      /\ \A q \in Requests : q # r => e.req[q] = d.req[q]
      /\ e.req[r].at = "refused" /\ e.req[r].sources = d.req[r].sources
      /\ e.req[r].sess = d.req[r].sess /\ e.req[r].exposed = d.req[r].exposed
      /\ e.req[r].up = d.req[r].up /\ e.req[r].prov = d.req[r].prov
  BY AtShape DEF Moving, Common, Place
<1> HIDE DEF e
<1>2. /\ Common(e) /\ \A p \in 1..Providers : ~Queued(e, p, r)
      /\ \A q \in Requests \ {r} : Placed(e, q) /\ Upstream(e, q)
  BY <1>1, MovedKeeps, Zenon
<1>3. Placed(e, r) /\ Upstream(e, r)
  BY <1>1, <1>2, ZenonT(30) DEF Moving, Placed, Upstream, Sourced, Busy
<1> QED
  BY <1>2, <1>3, Zenon DEF Inv, e

(* The mutex is free: r enters it.                                         *)
LEMMA TakeFreeKeeps ==
  ASSUME ProxyAssumption, NEW d, NEW r \in Requests, Moving(d, r), d.req[r].sources = {},
         NEW p \in 1..Providers, p = d.req[r].prov, d.holder[p] = Nobody
  PROVE  Inv(At([d EXCEPT !.holder[p] = r], r, "entered"))
<1> DEFINE c == SetHolder(d, p, r)
           e == At(c, r, "entered")
<1>1. /\ c \in State /\ c.client = d.client /\ c.req = d.req /\ c.queue = d.queue
      /\ c.alive = d.alive /\ c.sessions = d.sessions
      /\ \A k \in 1..Providers : c.holder[k] = IF k = p THEN r ELSE d.holder[k]
  <2>1. d \in State
    BY Zenon DEF Moving, Common
  <2>2. r \in Requests \cup {Nobody}
    BY Zenon
  <2> QED
    BY <2>1, <2>2, HolderShape, SMTT(30)
<1> HIDE DEF c
<1>2. Moving(c, r)
  <2>1. Common(c) /\ Sourced(c, r) /\ c.req[r].up \in {"none", "ended"}
    BY <1>1, SMTT(30) DEF Moving, Common, SessionsKnown, Distinct, Sourced
  <2>2. \A k \in 1..Providers : ~Queued(c, k, r)
    BY <1>1, SMTT(30) DEF Moving, Queued
  <2>3. ASSUME NEW q \in Requests \ {r} PROVE Placed(c, q) /\ Upstream(c, q)
    <3>1. Upstream(c, q)
      BY <1>1 DEF Moving, Upstream, Sourced
    <3>2. \A k \in 1..Providers : Queued(c, k, q) <=> (c.req[q].at = "lock" /\ c.req[q].prov = k)
      BY <1>1 DEF Moving, Placed, Queued
    <3>3. d.req[q].at \in Busy => d.holder[d.req[q].prov] = q /\ d.req[q].prov # p
      BY DEF Moving, Placed, ProxyAssumption
    <3>4. d.req[q].prov \in 1..Providers
      BY Zenon DEF Moving, Common, State, Request
    <3>5. c.req[q].at \in Busy => c.holder[c.req[q].prov] = q
      BY <1>1, <3>3, <3>4, Zenon
    <3>6. c.req[q].at = "connecting" => c.client[c.req[q].prov] \notin c.alive
      BY <1>1, Zenon DEF Moving, Placed
    <3> QED
      BY <3>1, <3>2, <3>5, <3>6, ZenonT(30) DEF Placed
  <2> QED
    BY <2>1, <2>2, <2>3, Zenon DEF Moving
<1>3. /\ e \in State
      /\ e.client = c.client /\ e.holder = c.holder
      /\ e.queue = c.queue /\ e.alive = c.alive /\ e.sessions = c.sessions
      /\ \A q \in Requests : q # r => e.req[q] = c.req[q]
      /\ e.req[r].at = "entered" /\ e.req[r].sources = c.req[r].sources
      /\ e.req[r].sess = c.req[r].sess /\ e.req[r].exposed = c.req[r].exposed
      /\ e.req[r].up = c.req[r].up /\ e.req[r].prov = c.req[r].prov
  <2>1. c \in State /\ "entered" \in Place
    BY <1>1, ZenonT(30) DEF Place
  <2> QED
    BY <2>1, AtShape
<1> HIDE DEF e
<1>4. /\ Common(e) /\ \A k \in 1..Providers : ~Queued(e, k, r)
      /\ \A q \in Requests \ {r} : Placed(e, q) /\ Upstream(e, q)
  BY <1>2, <1>3, MovedKeeps, Zenon
<1>5. Placed(e, r) /\ Upstream(e, r)
  BY <1>1, <1>3, <1>4 DEF Moving, Placed, Upstream, Sourced, Busy
<1>6. e = At([d EXCEPT !.holder[p] = r], r, "entered")
  BY Zenon DEF e, c, SetHolder
<1> QED
  BY <1>4, <1>5, <1>6, Zenon DEF Inv

(* The mutex is held: r waits, after the others.                           *)
LEMMA TakeQueueKeeps ==
  ASSUME ProxyAssumption, NEW d, NEW r \in Requests, Moving(d, r), d.req[r].sources = {},
         NEW p \in 1..Providers, p = d.req[r].prov
  PROVE  Inv(At([d EXCEPT !.queue[p] = Append(@, r)], r, "lock"))
<1> DEFINE s == d.queue[p]
           t == Append(s, r)
           c == SetQueue(d, p, t)
           e == At(c, r, "lock")
<1>1. s \in Seq(Requests) /\ ~Has(s, r) /\ NoRepeat(s)
  BY ZenonT(30) DEF Moving, Common, State, Queued, Distinct, Has, NoRepeat
<1>2. /\ t \in Seq(Requests) /\ NoRepeat(t)
      /\ \A y \in Requests : Has(t, y) <=> y = r \/ Has(s, y)
  BY <1>1, Joins, ZenonT(30)
<1>3. /\ c \in State /\ c.client = d.client /\ c.req = d.req /\ c.holder = d.holder
      /\ c.alive = d.alive /\ c.sessions = d.sessions
      /\ \A k \in 1..Providers : c.queue[k] = IF k = p THEN t ELSE d.queue[k]
  <2> HIDE DEF t
  <2>1. d \in State /\ t \in Seq(Requests)
    BY <1>2, Zenon DEF Moving, Common
  <2> QED
    BY <2>1, QueueShape
<1> HIDE DEF c, t
<1>4. \A k \in 1..Providers : Queued(c, k, r) <=> k = p
  BY <1>2, <1>3 DEF Moving, Queued, Has
<1>5. ASSUME NEW q \in Requests \ {r}, NEW k \in 1..Providers PROVE Queued(c, k, q) <=> Queued(d, k, q)
  BY <1>2, <1>3 DEF Queued, Has
<1>6. Distinct(c)
  BY <1>2, <1>3 DEF Moving, Common, Distinct, NoRepeat
<1>7. /\ e \in State
      /\ e.client = c.client /\ e.holder = c.holder
      /\ e.queue = c.queue /\ e.alive = c.alive /\ e.sessions = c.sessions
      /\ \A q \in Requests : q # r => e.req[q] = c.req[q]
      /\ e.req[r].at = "lock" /\ e.req[r].sources = c.req[r].sources
      /\ e.req[r].sess = c.req[r].sess /\ e.req[r].exposed = c.req[r].exposed
      /\ e.req[r].up = c.req[r].up /\ e.req[r].prov = c.req[r].prov
  <2>1. c \in State /\ "lock" \in Place
    BY <1>3, ZenonT(30) DEF Place
  <2> QED
    BY <2>1, AtShape
<1> HIDE DEF e
<1>8. Common(e)
  BY <1>3, <1>6, <1>7 DEF Moving, Common, SessionsKnown, Distinct
<1>9. ASSUME NEW q \in Requests \ {r} PROVE Placed(e, q) /\ Upstream(e, q)
  <2>1. Placed(c, q)
    BY <1>3, <1>5, <1>9 DEF Moving, Placed
  <2>2. Upstream(c, q)
    BY <1>3, <1>9, SMTT(30) DEF Moving, Upstream, Sourced
  <2> QED
    BY <1>7, <1>9, <2>1, <2>2, OthersKeep, Zenon
<1>10. Placed(e, r) /\ Upstream(e, r)
  <2>1. \A k \in 1..Providers : Queued(e, k, r) <=> k = p
    BY <1>4, <1>7 DEF Queued
  <2> QED
    BY <1>3, <1>7, <2>1 DEF Moving, Placed, Upstream, Sourced, Busy
<1>11. e = At([d EXCEPT !.queue[p] = Append(@, r)], r, "lock")
  BY Zenon DEF e, c, t, SetQueue
<1> QED
  BY <1>8, <1>9, <1>10, <1>11, ZenonT(30) DEF Inv

(* getSession of r's provider.                                             *)
LEMMA TakeKeeps ==
  ASSUME ProxyAssumption, NEW d, NEW r \in Requests, Moving(d, r), d.req[r].sources = {}
  PROVE  Inv(Take(d, r))
<1>1. d.req[r].prov \in 1..Providers
  BY Zenon DEF Moving, Common, State, Request
<1> QED
  BY <1>1, TakeFreeKeeps, TakeQueueKeeps, Zenon DEF Take

(* The next provider is asked for a session, or the failure is passed on.  *)
LEMMA NextProviderKeeps ==
  ASSUME ProxyAssumption, NEW d, NEW r \in Requests, Moving(d, r), d.req[r].sources = {}
  PROVE  Inv(NextProvider(d, r))
<1>1. CASE d.req[r].prov = Providers \/ (r \in Fetches /\ d.req[r].cancelled)
  BY <1>1, RefusedKeeps, Zenon DEF NextProvider
<1>2. CASE ~(d.req[r].prov = Providers \/ (r \in Fetches /\ d.req[r].cancelled))
  <2> DEFINE n == [d.req[r] EXCEPT !.prov = @ + 1]
             c == SetReq(d, r, n)
  <2>1. d \in State /\ d.req[r] \in Request
    BY ZenonT(30) DEF Moving, Common, State
  <2>2. d.req[r].prov + 1 \in 1..Providers
    BY <1>2, <2>1 DEF Request, ProxyAssumption
  <2>3. /\ n \in Request /\ n.sess = d.req[r].sess /\ n.up = d.req[r].up
        /\ n.exposed = d.req[r].exposed /\ n.sources = d.req[r].sources
    BY <2>1, <2>2, Zenon DEF Request
  <2>4. NextProvider(d, r) = Take(c, r)
    BY <1>2, Zenon DEF NextProvider, SetReq
  <2> HIDE DEF n
  <2>5. /\ c \in State
        /\ c.client = d.client /\ c.holder = d.holder
        /\ c.queue = d.queue /\ c.alive = d.alive /\ c.sessions = d.sessions
        /\ \A q \in Requests : c.req[q] = IF q = r THEN n ELSE d.req[q]
    BY <2>1, <2>3, ReqShape
  <2> HIDE DEF c
  <2>6. /\ Common(c) /\ \A p \in 1..Providers : ~Queued(c, p, r)
        /\ \A q \in Requests \ {r} : Placed(c, q) /\ Upstream(c, q)
    BY <2>5, MovedKeeps, Zenon
  <2>7. Moving(c, r) /\ c.req[r].sources = {}
    BY <2>3, <2>5, <2>6, ZenonT(30) DEF Moving, Sourced
  <2> QED
    BY <2>4, <2>7, TakeKeeps, Zenon
<1> QED
  BY <1>1, <1>2, ZenonT(30)

(* r is forwarded to a session.                                            *)
LEMMA AskKeeps ==
  ASSUME ProxyAssumption, NEW d, NEW r \in Requests, Moving(d, r), d.req[r].sources = {},
         NEW s \in 0..MaxSessions
  PROVE  Inv(Ask(d, r, s))
<1> DEFINE n == [d.req[r] EXCEPT !.sess = s, !.up = "pending", !.exposed = FALSE]
           c == SetReq(d, r, n)
           e == At(c, r, "asked")
<1>1. d \in State /\ d.req[r] \in Request
  BY ZenonT(30) DEF Moving, Common, State
<1>2. /\ n \in Request /\ n.sess = s /\ n.up = "pending" /\ n.exposed = FALSE
      /\ n.sources = d.req[r].sources
  BY <1>1, ZenonT(30) DEF Request
<1>3. Ask(d, r, s) = e
  BY Zenon DEF Ask, SetReq
<1> HIDE DEF n
<1>4. /\ c \in State
      /\ c.client = d.client /\ c.holder = d.holder
      /\ c.queue = d.queue /\ c.alive = d.alive /\ c.sessions = d.sessions
      /\ \A q \in Requests : c.req[q] = IF q = r THEN n ELSE d.req[q]
  BY <1>1, <1>2, ReqShape
<1> HIDE DEF c
<1>5. /\ e \in State
      /\ e.client = c.client /\ e.holder = c.holder
      /\ e.queue = c.queue /\ e.alive = c.alive /\ e.sessions = c.sessions
      /\ \A q \in Requests : q # r => e.req[q] = c.req[q]
      /\ e.req[r].at = "asked" /\ e.req[r].sources = c.req[r].sources
      /\ e.req[r].sess = c.req[r].sess /\ e.req[r].exposed = c.req[r].exposed
      /\ e.req[r].up = c.req[r].up /\ e.req[r].prov = c.req[r].prov
  <2>1. c \in State /\ "asked" \in Place
    BY <1>4, Zenon DEF Place
  <2> QED
    BY <2>1, AtShape
<1> HIDE DEF e
<1>6. /\ Common(e) /\ \A p \in 1..Providers : ~Queued(e, p, r)
      /\ \A q \in Requests \ {r} : Placed(e, q) /\ Upstream(e, q)
  BY <1>4, <1>5, MovedKeeps, SMTT(30)
<1>7. Placed(e, r)
  BY <1>5, <1>6, ZenonT(30) DEF Placed, Busy
<1>8. Upstream(e, r)
  BY <1>2, <1>4, <1>5, Zenon DEF Upstream, Sourced
<1> QED
  BY <1>3, <1>6, <1>7, <1>8, ZenonT(30) DEF Inv

LEMMA GotSessionKeeps ==
  ASSUME ProxyAssumption, NEW d, NEW r \in Requests, Moving(d, r), d.req[r].sources = {},
         NEW s \in 0..MaxSessions
  PROVE  Inv(GotSession(d, r, s))
  BY RefusedKeeps, NextProviderKeeps, AskKeeps, ZenonT(30) DEF GotSession

(* The holder lets the mutex go: whatever it did to its own session, it is *)
(* on its way.                                                             *)
LEMMA UnlockMoves ==
  ASSUME ProxyAssumption, NEW d, Inv(d), NEW r \in Requests, d.req[r].at \in Busy,
         NEW p \in 1..Providers, p = d.req[r].prov,
         NEW e \in State, e.queue = d.queue, e.req = d.req, SessionsKnown(e),
         \A k \in 1..Providers : k # p => /\ e.holder[k] = d.holder[k]
                                          /\ e.client[k] = d.client[k]
                                          /\ d.client[k] \notin d.alive => d.client[k] \notin e.alive
  PROVE  Moving(e, r) /\ e.req[r].sources = {}
<1>1. Common(e)
  BY DEF Inv, Common, Distinct
<1>2. \A k \in 1..Providers : ~Queued(e, k, r)
  BY DEF Inv, Placed, Queued, Busy
<1>3. Sourced(e, r) /\ e.req[r].up \in {"none", "ended"} /\ e.req[r].sources = {}
  <2>1. Upstream(d, r)
    BY ZenonT(30) DEF Inv
  <2>2. d.req[r].up \in {"none", "pending", "open", "ended"}
    BY ZenonT(30) DEF Inv, Common, State, Request
  <2> QED
    BY <2>1, <2>2, ZenonT(30) DEF Upstream, Sourced, Busy
<1>4. ASSUME NEW q \in Requests \ {r} PROVE Placed(e, q) /\ Upstream(e, q)
  <2>1. Placed(d, q) /\ Upstream(d, q) /\ Placed(d, r)
    BY ZenonT(30) DEF Inv
  <2>2. Upstream(e, q)
    BY <2>1, ZenonT(30) DEF Upstream, Sourced
  <2>3. d.req[q].prov \in 1..Providers
    BY ZenonT(30) DEF Inv, Common, State, Request
  <2>4. d.req[q].at \in Busy => d.req[q].prov # p
    BY <2>1, Zenon DEF Placed
  <2>5. \A k \in 1..Providers : Queued(e, k, q) <=> (e.req[q].at = "lock" /\ e.req[q].prov = k)
    BY <2>1, SMTT(30) DEF Placed, Queued
  <2>6. e.req[q].at \in Busy => e.holder[e.req[q].prov] = q
    BY <2>1, <2>3, <2>4, Zenon DEF Placed
  <2>7. e.req[q].at = "connecting" => e.client[e.req[q].prov] \notin e.alive
    BY <2>1, <2>3, <2>4, Zenon DEF Placed, Busy
  <2> QED
    BY <2>2, <2>5, <2>6, <2>7, ZenonT(30) DEF Placed
<1> QED
  BY <1>1, <1>2, <1>3, <1>4, ZenonT(30) DEF Moving

-----------------------------------------------------------------------------
(* The actions.                                                            *)
LEMMA StartKeeps ==
  ASSUME ProxyAssumption, Inv(rq), NEW r \in Requests, Start(r) PROVE Inv(rq')
<1>1. Placed(rq, r) /\ Upstream(rq, r) /\ Common(rq) /\ rq.req[r].at = "idle"
  BY Zenon DEF Inv, Start
<1>2. rq.req[r].up \in {"none", "pending", "open", "ended"}
  BY <1>1, Zenon DEF Common, State, Request
<1>3. Moving(rq, r) /\ rq.req[r].sources = {}
  BY <1>1, <1>2, Zenon DEF Inv, Moving, Placed, Upstream
<1> QED
  BY <1>3, TakeKeeps, RefusedKeeps, Zenon DEF Start

LEMMA LockedKeeps ==
  ASSUME ProxyAssumption, Inv(rq), NEW p \in 1..Providers, Locked(p) PROVE Inv(rq')
<1> DEFINE s == rq.queue[p]
           r == Head(s)
           t == Tail(s)
           b == SetHolder(rq, p, r)
           c == SetQueue(b, p, t)
           e == At(c, r, "entered")
<1>1. /\ rq \in State /\ s \in Seq(Requests) /\ NoRepeat(s) /\ s # <<>>
      /\ rq.holder[p] = Nobody
  BY Zenon DEF Inv, Common, State, Distinct, NoRepeat, Locked
<1>2. /\ r \in Requests /\ Has(s, r) /\ t \in Seq(Requests) /\ NoRepeat(t)
      /\ \A y \in Requests : Has(t, y) <=> y # r /\ Has(s, y)
  BY <1>1, Leaves, Zenon
<1>3. rq' = e
  BY Zenon DEF Locked, SetHolder, SetQueue
<1>4. Upstream(rq, r) /\ rq.req[r].at = "lock" /\ rq.req[r].prov = p
  <2>1. Queued(rq, p, r)
    BY <1>2, Zenon DEF Queued, Has
  <2> QED
    BY <1>2, <2>1, Zenon DEF Inv, Placed
<1> HIDE DEF r, t
<1>5. /\ b \in State /\ b.client = rq.client /\ b.req = rq.req /\ b.queue = rq.queue
      /\ b.alive = rq.alive /\ b.sessions = rq.sessions
      /\ \A k \in 1..Providers : b.holder[k] = IF k = p THEN r ELSE rq.holder[k]
  <2>1. r \in Requests \cup {Nobody}
    BY <1>2, Zenon
  <2> QED
    BY <1>1, <2>1, HolderShape, SMTT(30)
<1> HIDE DEF b
<1>6. /\ c \in State /\ c.client = b.client /\ c.req = b.req /\ c.holder = b.holder
      /\ c.alive = b.alive /\ c.sessions = b.sessions
      /\ \A k \in 1..Providers : c.queue[k] = IF k = p THEN t ELSE b.queue[k]
  BY <1>2, <1>5, QueueShape, SMTT(30)
<1> HIDE DEF c
<1>7. /\ e \in State
      /\ e.client = c.client /\ e.holder = c.holder
      /\ e.queue = c.queue /\ e.alive = c.alive /\ e.sessions = c.sessions
      /\ \A q \in Requests : q # r => e.req[q] = c.req[q]
      /\ e.req[r].at = "entered" /\ e.req[r].sources = c.req[r].sources
      /\ e.req[r].sess = c.req[r].sess /\ e.req[r].exposed = c.req[r].exposed
      /\ e.req[r].up = c.req[r].up /\ e.req[r].prov = c.req[r].prov
  <2>1. c \in State /\ "entered" \in Place /\ r \in Requests
    BY <1>2, <1>6, Zenon DEF Place
  <2> QED
    BY <2>1, AtShape
<1> HIDE DEF e
<1>8. Common(e)
  <2>1. Distinct(e)
    BY <1>2, <1>5, <1>6, <1>7, SMTT(30) DEF Inv, Common, Distinct, NoRepeat
  <2> QED
    BY <1>5, <1>6, <1>7, <2>1, Zenon DEF Inv, Common, SessionsKnown
<1>9. \A k \in 1..Providers, q \in Requests : Queued(e, k, q) <=> Queued(rq, k, q) /\ ~(q = r /\ k = p)
  BY <1>2, <1>5, <1>6, <1>7, SMTT(30) DEF Queued, Has
<1>10. ASSUME NEW q \in Requests \ {r} PROVE Placed(e, q) /\ Upstream(e, q)
  <2>1. Placed(rq, q) /\ Upstream(rq, q) /\ e.req[q] = rq.req[q] /\ rq.req[q].prov \in 1..Providers
    BY <1>5, <1>6, <1>7, SMTT(30) DEF Inv, Common, State, Request
  <2>2. \A k \in 1..Providers : Queued(e, k, q) <=> (e.req[q].at = "lock" /\ e.req[q].prov = k)
    BY <1>9, <2>1, Zenon DEF Placed
  <2>3. rq.req[q].at \in Busy => rq.req[q].prov # p
    BY <1>1, <2>1, Zenon DEF Placed, ProxyAssumption
  <2>4. e.req[q].at \in Busy => e.holder[e.req[q].prov] = q
    BY <1>5, <1>6, <1>7, <2>1, <2>3, SMTT(30) DEF Placed
  <2>5. e.req[q].at = "connecting" => e.client[e.req[q].prov] \notin e.alive
    BY <1>5, <1>6, <1>7, <2>1, Zenon DEF Placed
  <2>6. Upstream(e, q)
    BY <2>1, Zenon DEF Upstream, Sourced
  <2> QED
    BY <2>2, <2>4, <2>5, <2>6, Zenon DEF Placed
<1>11. Placed(e, r) /\ Upstream(e, r)
  <2>1. e.req[r].prov = p /\ e.holder[p] = r
    BY <1>4, <1>5, <1>6, <1>7, SMTT(30)
  <2>2. \A k \in 1..Providers : ~Queued(e, k, r)
    BY <1>2, <1>4, <1>9, Zenon DEF Inv, Placed
  <2>3. Placed(e, r)
    BY <1>7, <2>1, <2>2, Zenon DEF Placed
  <2>4. Upstream(e, r)
    BY <1>4, <1>5, <1>6, <1>7 DEF Upstream, Sourced
  <2> QED
    BY <2>3, <2>4, Zenon
<1> QED
  BY <1>3, <1>8, <1>10, <1>11, Zenon DEF Inv

LEMMA EnterKeeps ==
  ASSUME ProxyAssumption, Inv(rq), NEW r \in Requests, Enter(r) PROVE Inv(rq')
<1> DEFINE p == rq.req[r].prov
<1>1. /\ rq \in State /\ p \in 1..Providers /\ rq.req[r].at = "entered"
      /\ Placed(rq, r) /\ Upstream(rq, r) /\ rq.client[p] \in 0..MaxSessions
  BY Zenon DEF Inv, Common, State, Request, Enter
<1>2. CASE rq.client[p] \in rq.alive
  <2> DEFINE e == Unlock(rq, p)
  <2>1. rq' = GotSession(e, r, rq.client[p])
    BY <1>2, Zenon DEF Enter
  <2>2. e = SetHolder(rq, p, Nobody)
    BY Zenon DEF Unlock, SetHolder
  <2> HIDE DEF e, p
  <2>3. /\ e \in State /\ e.client = rq.client /\ e.req = rq.req /\ e.queue = rq.queue
        /\ e.alive = rq.alive /\ e.sessions = rq.sessions
        /\ \A k \in 1..Providers : e.holder[k] = IF k = p THEN Nobody ELSE rq.holder[k]
    <3>1. Nobody \in Requests \cup {Nobody}
      BY Zenon
    <3> QED
      BY <1>1, <2>2, <3>1, HolderShape, SMTT(30)
  <2>4. SessionsKnown(e) /\ rq.req[r].at \in Busy
    BY <1>1, <2>3, Zenon DEF Inv, Common, SessionsKnown, Busy
  <2>5. Moving(e, r) /\ e.req[r].sources = {}
    BY <1>1, <2>3, <2>4, UnlockMoves DEF p
  <2> QED
    BY <1>1, <2>1, <2>5, GotSessionKeeps, Zenon
<1>3. CASE rq.client[p] \notin rq.alive
  <2> DEFINE e == At(rq, r, "connecting")
  <2>1. rq' = e
    BY <1>3, Zenon DEF Enter
  <2>2. /\ e \in State
        /\ e.client = rq.client /\ e.holder = rq.holder
        /\ e.queue = rq.queue /\ e.alive = rq.alive /\ e.sessions = rq.sessions
        /\ \A q \in Requests : q # r => e.req[q] = rq.req[q]
        /\ e.req[r].at = "connecting" /\ e.req[r].sources = rq.req[r].sources
        /\ e.req[r].sess = rq.req[r].sess /\ e.req[r].exposed = rq.req[r].exposed
        /\ e.req[r].up = rq.req[r].up /\ e.req[r].prov = rq.req[r].prov
    <3>1. "connecting" \in Place
      BY Zenon DEF Place
    <3> QED
      BY <1>1, <3>1, AtShape
  <2> HIDE DEF e
  <2>3. Common(e)
    BY <2>2 DEF Inv, Common, SessionsKnown, Distinct
  <2>4. ASSUME NEW q \in Requests \ {r} PROVE Placed(e, q) /\ Upstream(e, q)
    BY <2>2, OthersKeep, Zenon DEF Inv
  <2>5. Placed(e, r)
    BY <1>1, <1>3, <2>2, SMTT(30) DEF Placed, Queued, Busy
  <2>6. Upstream(e, r)
    BY <1>1, <2>2, Zenon DEF Upstream, Sourced
  <2> QED
    BY <2>1, <2>3, <2>4, <2>5, <2>6, Zenon DEF Inv
<1> QED
  BY <1>2, <1>3, Zenon

(* What connect() leaves behind, with a session and without one.           *)
LEMMA ClientShape ==
  ASSUME NEW d \in State, NEW p \in 1..Providers, NEW s \in 0..MaxSessions
  PROVE  LET e == SetClient(d, p, s)
         IN  /\ e \in State
             /\ e.closed = d.closed /\ e.holder = d.holder /\ e.queue = d.queue /\ e.req = d.req
             /\ e.alive = d.alive /\ e.sessions = d.sessions
             /\ \A k \in 1..Providers : e.client[k] = IF k = p THEN s ELSE d.client[k]
<1> DEFINE m == [d.client EXCEPT ![p] = s]
           e == [d EXCEPT !.client = m]
<1>1. /\ m \in [1..Providers -> 0..MaxSessions]
      /\ \A k \in 1..Providers : m[k] = IF k = p THEN s ELSE d.client[k]
  BY Zenon DEF State
<1>2. /\ e \in State /\ e.client = m
      /\ e.closed = d.closed /\ e.holder = d.holder /\ e.queue = d.queue /\ e.req = d.req
      /\ e.alive = d.alive /\ e.sessions = d.sessions
  <2> HIDE DEF m
  <2> QED
    BY <1>1, Zenon DEF State
<1> QED
  BY <1>1, <1>2, Zenon DEF SetClient

LEMMA NewSessionShape ==
  ASSUME NEW d \in State, NEW p \in 1..Providers, NEW s \in 1..MaxSessions, s \in 0..MaxSessions
  PROVE  LET e == NewSession(d, p, s)
         IN  /\ e \in State
             /\ e.closed = d.closed /\ e.holder = d.holder /\ e.queue = d.queue /\ e.req = d.req
             /\ e.alive = d.alive \cup {s} /\ e.sessions = s
             /\ \A k \in 1..Providers : e.client[k] = IF k = p THEN s ELSE d.client[k]
<1> DEFINE m == [d.client EXCEPT ![p] = s]
           a == d.alive \cup {s}
           e == [d EXCEPT !.client = m, !.sessions = s, !.alive = a]
<1>1. /\ m \in [1..Providers -> 0..MaxSessions] /\ a \in SUBSET (1..MaxSessions)
      /\ \A k \in 1..Providers : m[k] = IF k = p THEN s ELSE d.client[k]
  BY Zenon DEF State
<1>2. e = NewSession(d, p, s)
  BY Zenon DEF NewSession
<1>3. /\ e \in State /\ e.client = m /\ e.closed = d.closed /\ e.holder = d.holder /\ e.queue = d.queue
      /\ e.req = d.req /\ e.alive = a /\ e.sessions = s
  <2> HIDE DEF m, a
  <2> QED
    BY <1>1, Zenon DEF State
<1> HIDE DEF e, m
<1> QED
  BY <1>1, <1>2, <1>3, Zenon

LEMMA ConnectedKeeps ==
  ASSUME ProxyAssumption, Inv(rq), NEW r \in Requests, Connected(r) PROVE Inv(rq')
<1> DEFINE p == rq.req[r].prov
           s == rq.sessions + 1
<1>1. /\ rq \in State /\ p \in 1..Providers /\ rq.req[r].at = "connecting" /\ rq.req[r].at \in Busy
      /\ Placed(rq, r) /\ Upstream(rq, r) /\ SessionsKnown(rq)
  BY Zenon DEF Inv, Common, State, Request, Connected, Busy
<1>2. Nobody \in Requests \cup {Nobody}
  BY Zenon
<1>3. CASE rq.sessions < MaxSessions /\ rq' = GotSession(Unlock(NewSession(rq, p, s), p), r, s)
  <2> DEFINE d == NewSession(rq, p, s)
             e == Unlock(d, p)
  <2>1. e = SetHolder(d, p, Nobody) /\ rq' = GotSession(e, r, s)
    BY <1>3, Zenon DEF Unlock, SetHolder
  <2>2. s \in 1..MaxSessions /\ s \in 0..MaxSessions /\ rq.sessions \in Nat /\ rq.sessions < s
    BY <1>1, <1>3 DEF State, ProxyAssumption
  <2> HIDE DEF e, p, s
  <2>3. /\ d \in State
        /\ d.holder = rq.holder /\ d.queue = rq.queue /\ d.req = rq.req
        /\ d.alive = rq.alive \cup {s} /\ d.sessions = s
        /\ \A k \in 1..Providers : d.client[k] = IF k = p THEN s ELSE rq.client[k]
    BY <1>1, <2>2, NewSessionShape, SMTT(30)
  <2> HIDE DEF d
  <2>4. /\ e \in State /\ e.client = d.client /\ e.req = d.req /\ e.queue = d.queue
        /\ e.alive = d.alive /\ e.sessions = d.sessions
        /\ \A k \in 1..Providers : e.holder[k] = IF k = p THEN Nobody ELSE d.holder[k]
    BY <1>1, <1>2, <2>1, <2>3, HolderShape, SMTT(30)
  <2>5. \A k \in 1..Providers : rq.client[k] \in Nat /\ rq.client[k] <= rq.sessions /\ rq.client[k] # s
    <3>1. \A k \in 1..Providers : rq.client[k] \in 0..MaxSessions /\ rq.client[k] <= rq.sessions
      BY <1>1, Zenon DEF State, SessionsKnown
    <3> QED
      BY <2>2, <3>1 DEF ProxyAssumption
  <2>6. SessionsKnown(e)
    <3>1. e.alive \subseteq 1..e.sessions
      BY <1>1, <2>2, <2>3, <2>4 DEF SessionsKnown
    <3>2. \A k \in 1..Providers : e.client[k] <= e.sessions
      BY <2>2, <2>3, <2>4, <2>5
    <3> QED
      BY <3>1, <3>2, Zenon DEF SessionsKnown
  <2>7. \A k \in 1..Providers : k # p => /\ e.holder[k] = rq.holder[k] /\ e.client[k] = rq.client[k]
                                         /\ rq.client[k] \notin rq.alive => rq.client[k] \notin e.alive
    BY <2>3, <2>4, <2>5, SMTT(30)
  <2>8. Moving(e, r) /\ e.req[r].sources = {}
    BY <1>1, <2>3, <2>4, <2>6, <2>7, UnlockMoves, SMTT(30) DEF p
  <2> QED
    BY <2>1, <2>2, <2>8, GotSessionKeeps, Zenon
<1>4. CASE rq' = GotSession(Unlock(SetClient(rq, p, 0), p), r, 0)
  <2> DEFINE d == SetClient(rq, p, 0)
             e == Unlock(d, p)
  <2>1. e = SetHolder(d, p, Nobody) /\ rq' = GotSession(e, r, 0)
    BY <1>4, Zenon DEF Unlock, SetHolder
  <2>2. 0 \in 0..MaxSessions /\ rq.sessions \in Nat
    BY <1>1 DEF State, ProxyAssumption
  <2> HIDE DEF e, p
  <2>3. /\ d \in State
        /\ d.holder = rq.holder /\ d.queue = rq.queue /\ d.req = rq.req
        /\ d.alive = rq.alive /\ d.sessions = rq.sessions
        /\ \A k \in 1..Providers : d.client[k] = IF k = p THEN 0 ELSE rq.client[k]
    BY <1>1, <2>2, ClientShape
  <2> HIDE DEF d
  <2>4. /\ e \in State /\ e.client = d.client /\ e.req = d.req /\ e.queue = d.queue
        /\ e.alive = d.alive /\ e.sessions = d.sessions
        /\ \A k \in 1..Providers : e.holder[k] = IF k = p THEN Nobody ELSE d.holder[k]
    BY <1>1, <1>2, <2>1, <2>3, HolderShape, SMTT(30)
  <2>5. SessionsKnown(e)
    BY <1>1, <2>2, <2>3, <2>4, SMTT(30) DEF SessionsKnown
  <2>6. Moving(e, r) /\ e.req[r].sources = {}
    BY <1>1, <2>3, <2>4, <2>5, UnlockMoves DEF p
  <2> QED
    BY <2>1, <2>2, <2>6, GotSessionKeeps, Zenon
<1> QED
  BY <1>3, <1>4, Zenon DEF Connected, NewSession, SetClient

(* An answer from upstream ends what the session holds for r.              *)
LEMMA EndedMoves ==
  ASSUME NEW d, Inv(d), NEW r \in Requests, d.req[r].at = "asked"
  PROVE  LET e == [d EXCEPT !.req[r].up = "ended"]
         IN  Moving(e, r) /\ e.req[r].sources = d.req[r].sources
<1> DEFINE n == [d.req[r] EXCEPT !.up = "ended"]
           e == SetReq(d, r, n)
<1>1. d \in State /\ d.req[r] \in Request /\ Placed(d, r) /\ Upstream(d, r)
  BY Zenon DEF Inv, Common, State
<1>2. /\ n \in Request /\ n.up = "ended" /\ n.sess = d.req[r].sess
      /\ n.exposed = d.req[r].exposed /\ n.sources = d.req[r].sources
  BY <1>1, Zenon DEF Request
<1>3. e = [d EXCEPT !.req[r].up = "ended"]
  BY Zenon DEF SetReq
<1> HIDE DEF n
<1>4. /\ e \in State
      /\ e.client = d.client /\ e.holder = d.holder
      /\ e.queue = d.queue /\ e.alive = d.alive /\ e.sessions = d.sessions
      /\ \A q \in Requests : e.req[q] = IF q = r THEN n ELSE d.req[q]
  BY <1>1, <1>2, ReqShape
<1> HIDE DEF e
<1>5. Common(e)
  BY <1>4 DEF Inv, Common, SessionsKnown, Distinct
<1>6. ASSUME NEW q \in Requests \ {r} PROVE Placed(e, q) /\ Upstream(e, q)
  BY <1>4, OthersKeep, Zenon DEF Inv
<1>7. \A p \in 1..Providers : ~Queued(e, p, r)
  BY <1>1, <1>4 DEF Placed, Queued
<1>8. Sourced(e, r) /\ e.req[r].up = "ended" /\ e.req[r].sources = d.req[r].sources
  BY <1>1, <1>2, <1>4, Zenon DEF Upstream, Sourced
<1> QED
  BY <1>3, <1>5, <1>6, <1>7, <1>8, Zenon DEF Moving

LEMMA AcceptedKeeps ==
  ASSUME NEW d, Inv(d), NEW r \in Requests, d.req[r].at = "asked" PROVE Inv(Accepted(d, r))
<1>1. CASE Stopped(d, r)
  BY <1>1, EndedMoves, RefusedKeeps, Zenon DEF Accepted
<1>2. CASE ~Stopped(d, r)
  <2> DEFINE n == [d.req[r] EXCEPT !.up = "open"]
             c == SetReq(d, r, n)
             e == At(c, r, "done")
  <2>1. d \in State /\ d.req[r] \in Request /\ Placed(d, r) /\ Upstream(d, r)
    BY Zenon DEF Inv, Common, State
  <2>2. /\ n \in Request /\ n.up = "open" /\ n.sess = d.req[r].sess
        /\ n.exposed = d.req[r].exposed /\ n.sources = d.req[r].sources
    BY <2>1, Zenon DEF Request
  <2>3. Accepted(d, r) = e
    BY <1>2, Zenon DEF Accepted, SetReq
  <2> HIDE DEF n
  <2>4. /\ c \in State
        /\ c.client = d.client /\ c.holder = d.holder
        /\ c.queue = d.queue /\ c.alive = d.alive /\ c.sessions = d.sessions
        /\ \A q \in Requests : c.req[q] = IF q = r THEN n ELSE d.req[q]
    BY <2>1, <2>2, ReqShape, SMTT(30)
  <2> HIDE DEF c
  <2>5. /\ e \in State
        /\ e.client = c.client /\ e.holder = c.holder
        /\ e.queue = c.queue /\ e.alive = c.alive /\ e.sessions = c.sessions
        /\ \A q \in Requests : q # r => e.req[q] = c.req[q]
        /\ e.req[r].at = "done" /\ e.req[r].sources = c.req[r].sources
        /\ e.req[r].sess = c.req[r].sess /\ e.req[r].exposed = c.req[r].exposed
        /\ e.req[r].up = c.req[r].up /\ e.req[r].prov = c.req[r].prov
    <3>1. c \in State /\ "done" \in Place
      BY <2>4, Zenon DEF Place
    <3> QED
      BY <3>1, AtShape
  <2> HIDE DEF e
  <2>6. Common(e)
    BY <2>4, <2>5, SMTT(30) DEF Inv, Common, SessionsKnown, Distinct
  <2>7. ASSUME NEW q \in Requests \ {r} PROVE Placed(e, q) /\ Upstream(e, q)
    BY <2>4, <2>5, OthersKeep, SMTT(30) DEF Inv
  <2>8. Placed(e, r)
    BY <2>1, <2>4, <2>5, SMTT(30) DEF Placed, Queued, Busy
  <2>9. Upstream(e, r)
    BY <2>1, <2>2, <2>4, <2>5 DEF Upstream, Sourced
  <2> QED
    BY <2>3, <2>6, <2>7, <2>8, <2>9, Zenon DEF Inv
<1> QED
  BY <1>1, <1>2, Zenon

(* Another provider is asked only when r read nothing yet.                 *)
LEMMA FailedKeeps ==
  ASSUME ProxyAssumption, NEW d, Inv(d), NEW r \in Requests, d.req[r].at = "asked", NEW final
  PROVE  Inv(Failed(d, r, final))
<1> DEFINE e == [d EXCEPT !.req[r].up = "ended"]
<1>1. Moving(e, r) /\ e.req[r].sources = d.req[r].sources
  BY EndedMoves, Zenon
<1> HIDE DEF e
<1>2. Failed(d, r, final) = IF Stopped(d, r) \/ (r \in Fetches /\ (d.req[r].exposed \/ final))
                            THEN At(e, r, "refused") ELSE NextProvider(e, r)
  BY Zenon DEF Failed, e
<1>3. Upstream(d, r)
  BY Zenon DEF Inv
<1>4. CASE Stopped(d, r) \/ (r \in Fetches /\ (d.req[r].exposed \/ final))
  BY <1>1, <1>2, <1>4, RefusedKeeps, Zenon
<1>5. CASE ~(Stopped(d, r) \/ (r \in Fetches /\ (d.req[r].exposed \/ final)))
  <2>1. d.req[r].sources = {}
    BY <1>3, <1>5, Zenon DEF Upstream, Sourced
  <2> QED
    BY <1>1, <1>2, <1>5, <2>1, NextProviderKeeps, Zenon
<1> QED
  BY <1>4, <1>5, Zenon

LEMMA AnsweredKeeps ==
  ASSUME ProxyAssumption, Inv(rq), NEW r \in Requests, Answered(r) PROVE Inv(rq')
<1>1. rq.req[r].at = "asked" /\ (rq' = Accepted(rq, r) \/ \E final \in BOOLEAN : rq' = Failed(rq, r, final))
  BY Zenon DEF Answered
<1> QED
  BY <1>1, AcceptedKeeps, FailedKeeps, Zenon

(* A FETCH has up pending or open, so it is asked or done: its source is   *)
(* the session it is with.                                                 *)
LEMMA ExposeKeeps ==
  ASSUME Inv(rq), NEW f \in Fetches, Expose(f) PROVE Inv(rq')
<1> DEFINE n == [rq.req[f] EXCEPT !.exposed = TRUE, !.sources = @ \cup {rq.req[f].sess}]
<1>1. /\ f \in Requests /\ rq \in State /\ rq.req[f] \in Request /\ Upstream(rq, f) /\ Placed(rq, f)
      /\ rq.req[f].up \in {"pending", "open"} /\ rq.req[f].sess \in rq.alive
      /\ rq.alive \subseteq 1..MaxSessions
  BY Zenon DEF Inv, Common, State, Expose, Requests
<1>2. /\ n \in Request /\ n.at = rq.req[f].at /\ n.prov = rq.req[f].prov /\ n.up = rq.req[f].up
      /\ n.sess = rq.req[f].sess /\ n.exposed = TRUE
      /\ n.sources = rq.req[f].sources \cup {rq.req[f].sess}
  BY <1>1, Zenon DEF Request
<1>3. rq' = SetReq(rq, f, n)
  BY Zenon DEF Expose, SetReq
<1> HIDE DEF n
<1>4. /\ rq' \in State
      /\ rq'.client = rq.client /\ rq'.holder = rq.holder
      /\ rq'.queue = rq.queue /\ rq'.alive = rq.alive /\ rq'.sessions = rq.sessions
      /\ \A q \in Requests : rq'.req[q] = IF q = f THEN n ELSE rq.req[q]
  BY <1>1, <1>2, <1>3, ReqShape, SMTT(30)
<1>5. Common(rq')
  BY <1>4 DEF Inv, Common, SessionsKnown, Distinct
<1>6. ASSUME NEW q \in Requests \ {f} PROVE Placed(rq', q) /\ Upstream(rq', q)
  BY <1>4, OthersKeep, Zenon DEF Inv
<1>7. Placed(rq', f)
  BY <1>1, <1>2, <1>4, SMTT(30) DEF Placed, Queued
<1>8. Upstream(rq', f)
  <2>1. rq.req[f].at \in {"asked", "done"} /\ rq.req[f].sources \subseteq {rq.req[f].sess}
    BY <1>1, Zenon DEF Upstream, Sourced
  <2>2. Sourced(rq', f)
    BY <1>1, <1>2, <1>4, <2>1, Zenon DEF Sourced
  <2> QED
    BY <1>1, <1>2, <1>4, <2>1, <2>2, Zenon DEF Upstream
<1> QED
  BY <1>5, <1>6, <1>7, <1>8, Zenon DEF Inv

LEMMA CancelKeeps ==
  ASSUME Inv(rq), NEW f \in Fetches, Cancel(f) PROVE Inv(rq')
<1> DEFINE n == [rq.req[f] EXCEPT !.cancelled = TRUE]
<1>1. /\ f \in Requests /\ rq \in State /\ rq.req[f] \in Request /\ Upstream(rq, f) /\ Placed(rq, f)
  BY Zenon DEF Inv, Common, State, Requests
<1>2. /\ n \in Request /\ n.at = rq.req[f].at /\ n.prov = rq.req[f].prov /\ n.up = rq.req[f].up
      /\ n.sess = rq.req[f].sess /\ n.exposed = rq.req[f].exposed /\ n.sources = rq.req[f].sources
  BY <1>1, Zenon DEF Request
<1>3. rq' = SetReq(rq, f, n)
  BY Zenon DEF Cancel, SetReq
<1> HIDE DEF n
<1>4. /\ rq' \in State
      /\ rq'.client = rq.client /\ rq'.holder = rq.holder
      /\ rq'.queue = rq.queue /\ rq'.alive = rq.alive /\ rq'.sessions = rq.sessions
      /\ \A q \in Requests : rq'.req[q] = IF q = f THEN n ELSE rq.req[q]
  BY <1>1, <1>2, <1>3, ReqShape
<1>5. Common(rq')
  BY <1>4 DEF Inv, Common, SessionsKnown, Distinct
<1>6. ASSUME NEW q \in Requests \ {f} PROVE Placed(rq', q) /\ Upstream(rq', q)
  BY <1>4, OthersKeep, Zenon DEF Inv
<1>7. Placed(rq', f) /\ Upstream(rq', f)
  BY <1>1, <1>2, <1>4 DEF Placed, Queued, Upstream, Sourced
<1> QED
  BY <1>5, <1>6, <1>7, Zenon DEF Inv

(* A session that dies ends what was open on it, and only that.            *)
LEMMA SessionDiesKeeps ==
  ASSUME Inv(rq), NEW s \in 1..MaxSessions, SessionDies(s) PROVE Inv(rq')
<1> DEFINE m == [r \in Requests |-> IF rq.req[r].sess = s /\ rq.req[r].up = "open"
                                    THEN [rq.req[r] EXCEPT !.up = "ended"] ELSE rq.req[r]]
           a == rq.alive \ {s}
<1>1. rq \in State /\ (\A r \in Requests : rq.req[r] \in Request) /\ a \in SUBSET (1..MaxSessions)
  BY Zenon DEF Inv, Common, State
<1>2. rq' = [rq EXCEPT !.alive = a, !.req = m]
  BY Zenon DEF SessionDies
<1>3. ASSUME NEW r \in Requests
      PROVE  /\ m[r] \in Request /\ m[r].at = rq.req[r].at /\ m[r].prov = rq.req[r].prov
             /\ m[r].sess = rq.req[r].sess /\ m[r].exposed = rq.req[r].exposed
             /\ m[r].sources = rq.req[r].sources
             /\ m[r].up = rq.req[r].up \/ (rq.req[r].up = "open" /\ m[r].up = "ended")
  BY <1>1, Zenon DEF Request
<1>4. m \in [Requests -> Request]
  BY <1>3, Zenon
<1> HIDE DEF m, a
<1>5. /\ rq' \in State /\ rq'.client = rq.client /\ rq'.holder = rq.holder /\ rq'.queue = rq.queue
      /\ rq'.sessions = rq.sessions /\ rq'.alive = a /\ rq'.req = m
  BY <1>1, <1>2, <1>4, ZenonT(30) DEF State
<1>6. Common(rq')
  BY <1>5, Zenon DEF Inv, Common, SessionsKnown, Distinct, a
<1>7. ASSUME NEW q \in Requests PROVE Placed(rq', q) /\ Upstream(rq', q)
  <2>1. Placed(rq, q) /\ Upstream(rq, q)
    BY Zenon DEF Inv
  <2>2. Placed(rq', q)
    BY <1>3, <1>5, <2>1 DEF Placed, Queued, a
  <2>3. Upstream(rq', q)
    BY <1>3, <1>5, <2>1, Zenon DEF Upstream, Sourced
  <2> QED
    BY <2>2, <2>3, Zenon
<1> QED
  BY <1>6, <1>7, Zenon DEF Inv

LEMMA CloseKeeps ==
  ASSUME Inv(rq), Close PROVE Inv(rq')
<1>1. /\ rq' \in State /\ rq'.client = rq.client /\ rq'.holder = rq.holder /\ rq'.queue = rq.queue
      /\ rq'.sessions = rq.sessions /\ rq'.alive = rq.alive /\ rq'.req = rq.req
  BY Zenon DEF Inv, Common, State, Close
<1> QED
  BY <1>1 DEF Inv, Common, SessionsKnown, Distinct, Placed, Queued, Upstream, Sourced

LEMMA InitInv ==
  ASSUME ProxyAssumption, ProxyInit PROVE Inv(rq)
<1>1. NewRequest \in Request
  <2>1. 1 \in 1..Providers /\ 0 \in 0..MaxSessions
    BY DEF ProxyAssumption
  <2> QED
    BY <2>1, Zenon DEF NewRequest, Request, Place
<1>2. rq \in State
  <2>1. 0 \in 0..MaxSessions
    BY DEF ProxyAssumption
  <2>2. <<>> \in Seq(Requests)
    OBVIOUS
  <2> QED
    BY <1>1, <2>1, <2>2, Zenon DEF ProxyInit, State
<1>3. \A r \in Requests : /\ rq.req[r].at = "idle" /\ rq.req[r].up = "none"
                          /\ rq.req[r].sources = {}
  BY Zenon DEF ProxyInit, NewRequest
<1>4. \A p \in 1..Providers : rq.queue[p] = <<>> /\ rq.client[p] = 0
  BY Zenon DEF ProxyInit
<1>5. rq.alive = {} /\ rq.sessions = 0
  BY Zenon DEF ProxyInit
<1>6. Common(rq)
  BY <1>2, <1>4, <1>5 DEF Common, SessionsKnown, Distinct
<1>7. ASSUME NEW r \in Requests PROVE Placed(rq, r) /\ Upstream(rq, r)
  BY <1>3, <1>4 DEF Placed, Queued, Upstream, Sourced, Busy
<1> QED
  BY <1>6, <1>7, Zenon DEF Inv

LEMMA StepInv ==
  ASSUME ProxyAssumption, Inv(rq), [ProxyNext]_rq PROVE Inv(rq')
<1>1. CASE UNCHANGED rq
  BY <1>1, Zenon
<1>2. ASSUME NEW r \in Requests, Start(r) \/ Enter(r) \/ Connected(r) \/ Answered(r) PROVE Inv(rq')
  BY <1>2, StartKeeps, EnterKeeps, ConnectedKeeps, AnsweredKeeps, Zenon
<1>3. ASSUME NEW p \in 1..Providers, Locked(p) PROVE Inv(rq')
  BY <1>3, LockedKeeps, Zenon
<1>4. ASSUME NEW f \in Fetches, Expose(f) \/ Cancel(f) PROVE Inv(rq')
  BY <1>4, ExposeKeeps, CancelKeeps, Zenon
<1>5. ASSUME NEW s \in 1..MaxSessions, SessionDies(s) PROVE Inv(rq')
  BY <1>5, SessionDiesKeeps, Zenon
<1>6. CASE Close
  BY <1>6, CloseKeeps, Zenon
<1> QED
  BY <1>1, <1>2, <1>3, <1>4, <1>5, <1>6, Zenon DEF ProxyNext
-----------------------------------------------------------------------------
(* The inductive invariant: the state has its type, a request waits in the *)
(* queue of its provider or holds its mutex, and what it exposed came from *)
(* the session it is with.                                                 *)
THEOREM ProxyInductive == ASSUME ProxyAssumption PROVE ProxySpec => []Inv(rq)
<1>1. ProxyInit => Inv(rq)
  BY InitInv, Zenon
<1>2. Inv(rq) /\ [ProxyNext]_rq => Inv(rq)'
  BY StepInv, Zenon
<1> QED
  BY <1>1, <1>2, PTL DEF ProxySpec

(* Type correctness, with who waits for which mutex (connectMutex_).       *)
THEOREM ProxyTypes == ASSUME ProxyAssumption PROVE ProxySpec => []ProxyTypeOK
<1>1. Inv(rq) => ProxyTypeOK
  BY Zenon DEF Inv, Common, SessionsKnown, Placed, ProxyTypeOK
<1> QED
  BY <1>1, ProxyInductive, PTL

LEMMA AtMostOne ==
  ASSUME NEW S, NEW x, S \subseteq {x} PROVE Cardinality(S) <= 1
<1>1. IsFiniteSet({x}) /\ Cardinality({x}) = 1
  BY FS_Singleton, Zenon
<1> QED
  BY <1>1, FS_Subset, Zenon

LEMMA InvShares == ASSUME Inv(rq) PROVE ProxyShares
<1>1. OneSourcePerFetch
  <2> SUFFICES ASSUME NEW f \in Fetches PROVE Cardinality(rq.req[f].sources) <= 1
    BY Zenon DEF OneSourcePerFetch
  <2>1. rq.req[f].sources \subseteq {rq.req[f].sess}
    BY Zenon DEF Inv, Upstream, Sourced, Requests
  <2> QED
    BY <2>1, AtMostOne, Zenon
<1>2. NothingOrphaned
  BY Zenon DEF Inv, Upstream, NothingOrphaned
<1>3. OneConnection
  <2> SUFFICES ASSUME NEW p \in 1..Providers
               PROVE  LET busy == {r \in Requests : rq.req[r].prov = p /\ rq.req[r].at \in {"entered", "connecting"}}
                      IN  /\ Cardinality(busy) <= 1
                          /\ \A r \in busy : /\ rq.holder[p] = r
                                             /\ rq.req[r].at = "connecting" => rq.client[p] \notin rq.alive
    BY Zenon DEF OneConnection
  <2> DEFINE busy == {r \in Requests : rq.req[r].prov = p /\ rq.req[r].at \in {"entered", "connecting"}}
  <2>1. ASSUME NEW r \in busy
        PROVE  rq.holder[p] = r /\ (rq.req[r].at = "connecting" => rq.client[p] \notin rq.alive)
    BY Zenon DEF Inv, Placed, Busy
  <2>2. busy \subseteq {rq.holder[p]}
    <3> HIDE DEF busy
    <3> QED
      BY <2>1, Zenon
  <2>3. Cardinality(busy) <= 1
    <3> HIDE DEF busy
    <3> QED
      BY <2>2, AtMostOne, Zenon
  <2> QED
    BY <2>1, <2>3, Zenon
<1> QED
  BY <1>1, <1>2, <1>3, Zenon DEF ProxyShares

(* Requests share the upstream sessions without mixing or leaking: a FETCH *)
(* reads from one upstream, nothing stays open behind a refusal, and one   *)
(* request at a time connects a provider (fetch(), publish(), getSession). *)
THEOREM ProxyCorrect == ASSUME ProxyAssumption PROVE ProxySpec => []ProxyShares
<1>1. Inv(rq) => ProxyShares
  BY InvShares, Zenon
<1> QED
  BY <1>1, ProxyInductive, PTL

-----------------------------------------------------------------------------
(* What an operation on r leaves of the other requests, and where it may   *)
(* not put r once the proxy is closed.                                     *)
Quiet(d, e, r) ==
    /\ \A q \in Requests : q # r => e.req[q].at = d.req[q].at
    /\ e.req[r].at # "asked"

LEMMA AtQuiet ==
  ASSUME NEW d \in State, NEW r \in Requests, NEW at \in Place \ {"asked"}
  PROVE  Quiet(d, At(d, r, at), r)
BY AtShape DEF Quiet

(* No step but GotSession forwards, and it looks at closed_ first.         *)
LEMMA ClosedForwardsNothing ==
  ASSUME ProxyAssumption, Inv(rq), [ProxyNext]_rq PROVE NothingForwardedAfterClose
<1> SUFFICES ASSUME rq.closed,
                    NEW q \in Requests, rq'.req[q].at = "asked"
             PROVE  rq.req[q].at = "asked"
  BY Zenon DEF NothingForwardedAfterClose
<1>0. rq \in State /\ Nobody \in Requests \cup {Nobody} /\ \A r \in Requests : rq.req[r] \in Request
  BY Zenon DEF Inv, Common, State
<1>1. "refused" \in Place \ {"asked"} /\ "connecting" \in Place \ {"asked"}
      /\ "entered" \in Place \ {"asked"} /\ "done" \in Place \ {"asked"}
  BY Zenon DEF Place
<1>2. CASE UNCHANGED rq
  BY <1>2, Zenon
<1>3. ASSUME NEW r \in Requests, Start(r) PROVE rq.req[q].at = "asked"
  <2>1. Quiet(rq, rq', r)
    BY <1>0, <1>1, <1>3, AtQuiet, Zenon DEF Start
  <2> QED
    BY <2>1, Zenon DEF Quiet
<1>4. ASSUME NEW r \in Requests, NEW p \in 1..Providers, NEW d \in State, d.req = rq.req, d.closed,
             NEW k, rq' = GotSession(SetHolder(d, p, Nobody), r, k)
      PROVE  rq.req[q].at = "asked"
  <2> DEFINE e == SetHolder(d, p, Nobody)
  <2>1. e \in State /\ e.req = rq.req /\ e.closed
    BY <1>0, <1>4, HolderShape, Zenon
  <2> HIDE DEF e
  <2>2. rq' = At(e, r, "refused")
    BY <1>4, <2>1, Zenon DEF GotSession, Stopped, e
  <2>3. Quiet(e, At(e, r, "refused"), r)
    BY <1>1, <2>1, AtQuiet, Zenon
  <2> QED
    BY <2>1, <2>2, <2>3, Zenon DEF Quiet
<1>5. ASSUME NEW r \in Requests, Enter(r) \/ Connected(r) PROVE rq.req[q].at = "asked"
  <2> DEFINE p == rq.req[r].prov
             s == rq.sessions + 1
  <2>1. p \in 1..Providers /\ 0 \in 0..MaxSessions
    BY <1>0 DEF Request, ProxyAssumption
  <2>2. CASE rq' = GotSession(SetHolder(rq, p, Nobody), r, rq.client[p])
    <3> HIDE DEF p
    <3> QED
      BY <1>0, <1>4, <2>1, <2>2, Zenon
  <2>3. CASE rq.sessions < MaxSessions /\ rq' = GotSession(SetHolder(NewSession(rq, p, s), p, Nobody), r, s)
    <3>1. s \in 1..MaxSessions /\ s \in 0..MaxSessions
      BY <1>0, <2>3 DEF State, ProxyAssumption
    <3> HIDE DEF p, s
    <3>2. LET d == NewSession(rq, p, s) IN d \in State /\ d.req = rq.req /\ d.closed
      BY <1>0, <2>1, <3>1, NewSessionShape, SMTT(30)
    <3> QED
      BY <1>4, <2>1, <2>3, <3>2, Zenon
  <2>4. CASE rq' = GotSession(SetHolder(SetClient(rq, p, 0), p, Nobody), r, 0)
    <3> HIDE DEF p
    <3>1. LET d == SetClient(rq, p, 0) IN d \in State /\ d.req = rq.req /\ d.closed
      BY <1>0, <2>1, ClientShape
    <3> QED
      BY <1>4, <2>1, <2>4, <3>1, Zenon
  <2>5. CASE rq' = At(rq, r, "connecting")
    <3>1. Quiet(rq, rq', r)
      BY <1>0, <1>1, <2>5, AtQuiet, Zenon
    <3> QED
      BY <3>1, Zenon DEF Quiet
  <2>6. CASE Enter(r)
    BY <2>2, <2>5, <2>6, Zenon DEF Enter, SetHolder, Unlock
  <2>7. CASE Connected(r)
    BY <2>3, <2>4, <2>7, Zenon DEF Connected, NewSession, SetClient, SetHolder, Unlock
  <2> QED
    BY <1>5, <2>6, <2>7, Zenon
<1>6. ASSUME NEW r \in Requests, Answered(r) PROVE rq.req[q].at = "asked"
  <2> DEFINE e == [rq EXCEPT !.req[r].up = "ended"]
  <2>1. rq.req[r].at = "asked" /\ (rq' = Accepted(rq, r) \/ \E final \in BOOLEAN : rq' = Failed(rq, r, final))
    BY <1>6, Zenon DEF Answered
  <2>2. rq' = At(e, r, "refused")
    BY <2>1, Zenon DEF Accepted, Failed, Stopped
  <2>3. e \in State /\ \A k \in Requests : k # r => e.req[k].at = rq.req[k].at
    <3> DEFINE n == [rq.req[r] EXCEPT !.up = "ended"]
    <3>1. n \in Request
      BY <1>0, Zenon DEF Request
    <3>2. e = SetReq(rq, r, n)
      BY Zenon DEF SetReq
    <3> HIDE DEF n, e
    <3>3. LET c == SetReq(rq, r, n)
          IN  c \in State /\ \A k \in Requests : c.req[k] = IF k = r THEN n ELSE rq.req[k]
      BY <1>0, <3>1, ReqShape
    <3> QED
      BY <3>2, <3>3, Zenon
  <2> HIDE DEF e
  <2>4. Quiet(e, rq', r)
    BY <1>1, <2>2, <2>3, AtQuiet, Zenon
  <2> QED
    BY <2>1, <2>3, <2>4, Zenon DEF Quiet
<1>7. ASSUME NEW p \in 1..Providers, Locked(p) PROVE rq.req[q].at = "asked"
  <2> DEFINE h == Head(rq.queue[p])
             x == Tail(rq.queue[p])
             c == SetHolder(rq, p, h)
             d == SetQueue(c, p, x)
  <2>1. rq.queue[p] \in Seq(Requests) /\ rq.queue[p] # <<>>
    BY <1>0, <1>7, ZenonT(30) DEF State, Locked
  <2>2. h \in Requests /\ h \in Requests \cup {Nobody} /\ x \in Seq(Requests)
    BY <2>1, HeadTailProperties, Zenon
  <2>3. rq' = At(d, h, "entered")
    BY <1>7, Zenon DEF Locked, SetHolder, SetQueue
  <2> HIDE DEF h, x
  <2>4. c \in State /\ c.req = rq.req
    BY <1>0, <2>2, HolderShape, SMTT(30)
  <2> HIDE DEF c
  <2>5. d \in State /\ d.req = rq.req
    BY <2>2, <2>4, QueueShape, Zenon
  <2> HIDE DEF d
  <2>6. Quiet(d, rq', h)
    BY <1>1, <2>2, <2>3, <2>5, AtQuiet, Zenon
  <2> QED
    BY <2>5, <2>6, Zenon DEF Quiet
<1>8. ASSUME NEW f \in Fetches, Expose(f) \/ Cancel(f) PROVE rq.req[q].at = "asked"
  <2>1. f \in Requests
    BY Zenon DEF Requests
  <2>2. PICK n \in Request : rq' = SetReq(rq, f, n) /\ n.at = rq.req[f].at
    <3>1. CASE Expose(f)
      <4> DEFINE n == [rq.req[f] EXCEPT !.exposed = TRUE, !.sources = @ \cup {rq.req[f].sess}]
      <4>1. rq.req[f].sess \in 1..MaxSessions
        BY <1>0, <3>1, Zenon DEF State, Expose
      <4>2. n \in Request /\ n.at = rq.req[f].at
        BY <1>0, <2>1, <4>1, Zenon DEF Request
      <4>3. rq' = SetReq(rq, f, n)
        BY <3>1, Zenon DEF Expose, SetReq
      <4> HIDE DEF n
      <4> QED
        BY <4>2, <4>3, Zenon
    <3>2. CASE Cancel(f)
      <4> DEFINE n == [rq.req[f] EXCEPT !.cancelled = TRUE]
      <4>2. n \in Request /\ n.at = rq.req[f].at
        BY <1>0, <2>1, ZenonT(30) DEF Request
      <4>3. rq' = SetReq(rq, f, n)
        BY <3>2, Zenon DEF Cancel, SetReq
      <4> HIDE DEF n
      <4> QED
        BY <4>2, <4>3, Zenon
    <3> QED
      BY <1>8, <3>1, <3>2, Zenon
  <2>3. rq'.req[q] = IF q = f THEN n ELSE rq.req[q]
    BY <1>0, <2>1, <2>2, ReqShape
  <2> QED
    BY <2>2, <2>3, Zenon
<1>9. ASSUME NEW s \in 1..MaxSessions, SessionDies(s) PROVE rq.req[q].at = "asked"
  <2>1. rq'.req[q] = IF rq.req[q].sess = s /\ rq.req[q].up = "open"
                     THEN [rq.req[q] EXCEPT !.up = "ended"] ELSE rq.req[q]
    BY <1>0, <1>9, Zenon DEF SessionDies, State
  <2> QED
    BY <1>0, <2>1 DEF Request
<1>10. CASE Close
  BY <1>0, <1>10, Zenon DEF Close, State
<1> QED
  BY <1>2, <1>3, <1>5, <1>6, <1>7, <1>8, <1>9, <1>10, Zenon DEF ProxyNext

(* Once the proxy is closed nothing is forwarded to an upstream, whatever  *)
(* wait a request is in when it happens (closed_ after each co_await).     *)
THEOREM NothingForwarded ==
  ASSUME ProxyAssumption PROVE ProxySpec => [][NothingForwardedAfterClose]_rq
<1>1. Inv(rq) /\ [ProxyNext]_rq => [NothingForwardedAfterClose]_rq
  BY ClosedForwardsNothing, Zenon
<1> QED
  BY <1>1, ProxyInductive, PTL DEF ProxySpec
=============================================================================
