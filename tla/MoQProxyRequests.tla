-------------------------- MODULE MoQProxyRequests --------------------------
(***************************************************************************)
(* Standalone FETCH and PUBLISH through proxy/MoQProxy: each request tries *)
(* the upstream providers in order, asking each for a session and then     *)
(* forwarding. The providers are those of proxy/MoQProxyServer: one shared *)
(* session each, connected under a mutex and reconnected once closed.      *)
(*                                                                         *)
(* A coroutine is cut at each co_await: waiting for the mutex, for the     *)
(* connection, for the upstream's answer. In the record rq                 *)
(*   closed   closed_                      client   the session of each    *)
(*   holder   who holds connectMutex_               provider (0: none)     *)
(*   queue    who waits for it             alive    open sessions          *)
(*   sessions sessions connected so far    req      each request           *)
(* and a request has its place at, its provider prov, the session sess it  *)
(* was forwarded to, what that session holds for it (up), its cancellation *)
(* token, and the sessions that exposed something to it (history).         *)
(***************************************************************************)
EXTENDS Integers, Sequences, FiniteSets

CONSTANTS Fetches,      \* standalone FETCHes
          Publishes,    \* PUBLISHes
          Providers,    \* upstreamProviders_ is 1..Providers
          MaxSessions   \* bound on the upstream sessions ever connected

Requests == Fetches \cup Publishes

Nobody == ""   \* holds a free mutex

ProxyAssumption == Providers \in Nat \ {0} /\ MaxSessions \in Nat /\ Nobody \notin Requests

VARIABLE rq

NewRequest == [at |-> "idle", prov |-> 1, sess |-> 0, up |-> "none", cancelled |-> FALSE,
               exposed |-> FALSE, sources |-> {}]

ProxyInit ==
    rq = [closed |-> FALSE,
          client |-> [p \in 1..Providers |-> 0],
          holder |-> [p \in 1..Providers |-> Nobody],
          queue |-> [p \in 1..Providers |-> <<>>],
          alive |-> {},
          sessions |-> 0,
          req |-> [r \in Requests |-> NewRequest]]

At(d, r, at) == [d EXCEPT !.req[r].at = at]
Stopped(d, r) == d.closed \/ (r \in Fetches /\ d.req[r].cancelled)

(* getSession: the mutex, if free, is taken without suspending; with a     *)
(* session that is open there is nothing to connect.                       *)
Take(d, r) ==
    LET p == d.req[r].prov
    IN  IF d.holder[p] = Nobody THEN At([d EXCEPT !.holder[p] = r], r, "entered")
        ELSE At([d EXCEPT !.queue[p] = Append(@, r)], r, "lock")

(* The next provider, or the last failure.                                 *)
NextProvider(d, r) ==
    IF d.req[r].prov = Providers \/ (r \in Fetches /\ d.req[r].cancelled) THEN At(d, r, "refused")
    ELSE Take([d EXCEPT !.req[r].prov = @ + 1], r)

(* The upstream session is asked.                                          *)
Ask(d, r, s) ==
    At([d EXCEPT !.req[r] = [@ EXCEPT !.sess = s, !.up = "pending", !.exposed = FALSE]], r, "asked")

GotSession(d, r, s) ==
    IF Stopped(d, r) THEN At(d, r, "refused")
    ELSE IF s = 0 THEN NextProvider(d, r)
    ELSE Ask(d, r, s)

(* fetch() or publish() reaches getSession of the first provider.          *)
Start(r) ==
    /\ rq.req[r].at = "idle"
    /\ rq' = IF rq.closed THEN At(rq, r, "refused") ELSE Take(rq, r)

(* The mutex goes to the first waiter.                                     *)
Locked(p) ==
    /\ rq.holder[p] = Nobody /\ rq.queue[p] # <<>>
    /\ rq' = At([rq EXCEPT !.holder[p] = Head(rq.queue[p]), !.queue[p] = Tail(@)],
                Head(rq.queue[p]), "entered")

Unlock(d, p) == [d EXCEPT !.holder[p] = Nobody]

(* Inside the mutex: use the session, or start to connect.                 *)
Enter(r) ==
    LET p == rq.req[r].prov
    IN  /\ rq.req[r].at = "entered"
        /\ rq' = IF rq.client[p] \in rq.alive THEN GotSession(Unlock(rq, p), r, rq.client[p])
                 ELSE At(rq, r, "connecting")

(* connect() ends, with a session or without one.                          *)
Connected(r) ==
    LET p == rq.req[r].prov
        s == rq.sessions + 1
        d == [rq EXCEPT !.client[p] = s, !.sessions = s, !.alive = @ \cup {s}]
        f == [rq EXCEPT !.client[p] = 0]
    IN  /\ rq.req[r].at = "connecting"
        /\ \/ rq.sessions < MaxSessions /\ rq' = GotSession(Unlock(d, p), r, s)
           \/ rq' = GotSession(Unlock(f, p), r, 0)

(* The upstream writes to the FETCH's consumer (ExposureTrackingFetch-     *)
(* Consumer), before or after its FETCH_OK.                                *)
Expose(f) ==
    /\ rq.req[f].up \in {"pending", "open"} /\ rq.req[f].sess \in rq.alive
    /\ rq' = [rq EXCEPT !.req[f] = [rq.req[f] EXCEPT !.exposed = TRUE, !.sources = @ \cup {rq.req[f].sess}]]

SessionDies(s) ==
    /\ s \in rq.alive
    /\ rq' = [rq EXCEPT !.alive = @ \ {s},
                        !.req = [r \in Requests |-> IF @[r].sess = s /\ @[r].up = "open"
                                                    THEN [@[r] EXCEPT !.up = "ended"] ELSE @[r]]]

(* The upstream accepted: bound, or cleaned up when nobody wants it now    *)
(* (fetchCancel, cancelPublishAttempt).                                    *)
Accepted(d, r) ==
    IF Stopped(d, r) THEN At([d EXCEPT !.req[r].up = "ended"], r, "refused")
    ELSE At([d EXCEPT !.req[r].up = "open"], r, "done")

Failed_TriesAll(d, r, final) ==
    LET e == [d EXCEPT !.req[r].up = "ended"]
    IN  IF Stopped(d, r) THEN At(e, r, "refused") ELSE NextProvider(e, r)

(* It failed. A FETCH goes to another provider only if this one exposed    *)
(* nothing and did not say CANCELLED.                                      *)
Failed(d, r, final) ==
    LET e == [d EXCEPT !.req[r].up = "ended"]
    IN  IF Stopped(d, r) THEN At(e, r, "refused")
        ELSE IF r \in Fetches /\ (d.req[r].exposed \/ final) THEN At(e, r, "refused")
        ELSE NextProvider(e, r)

Answered(r) ==
    /\ rq.req[r].at = "asked"
    /\ \/ rq.req[r].sess \in rq.alive /\ rq' = Accepted(rq, r)
       \/ \E final \in {FALSE} \cup (IF r \in Fetches THEN {TRUE} ELSE {}) : rq' = Failed(rq, r, final)

(* FETCH_CANCEL, or the downstream session ends.                           *)
Cancel(f) ==
    /\ ~rq.req[f].cancelled /\ rq.req[f].at \notin {"idle", "done", "refused"}
    /\ rq' = [rq EXCEPT !.req[f].cancelled = TRUE]

Close ==
    /\ ~rq.closed
    /\ rq' = [rq EXCEPT !.closed = TRUE]

ProxyNext ==
    \/ \E r \in Requests : Start(r) \/ Enter(r) \/ Connected(r) \/ Answered(r)
    \/ \E p \in 1..Providers : Locked(p)
    \/ \E f \in Fetches : Expose(f) \/ Cancel(f)
    \/ \E s \in 1..MaxSessions : SessionDies(s)
    \/ Close

(* Coroutines that can run do, connection attempts end (their timeouts),   *)
(* and an upstream session answers or dies.                                *)
ProxySpec == /\ ProxyInit /\ [][ProxyNext]_rq
        /\ \A r \in Requests : WF_rq(Enter(r)) /\ WF_rq(Connected(r)) /\ WF_rq(Answered(r))
        /\ \A p \in 1..Providers : WF_rq(Locked(p))

-----------------------------------------------------------------------------
Place == {"idle", "lock", "entered", "connecting", "asked", "done", "refused"}
Request == [at : Place, prov : 1..Providers, sess : 0..MaxSessions,
            up : {"none", "pending", "open", "ended"}, cancelled : BOOLEAN,
            exposed : BOOLEAN, sources : SUBSET (1..MaxSessions)]
State == [closed : BOOLEAN,
          client : [1..Providers -> 0..MaxSessions],
          holder : [1..Providers -> Requests \cup {Nobody}],
          queue : [1..Providers -> Seq(Requests)],
          alive : SUBSET (1..MaxSessions),
          sessions : 0..MaxSessions,
          req : [Requests -> Request]]
Queued(d, p, r) == \E i \in DOMAIN d.queue[p] : d.queue[p][i] = r

ProxyTypeOK ==
    /\ rq \in State
    /\ rq.alive \subseteq 1..rq.sessions
    /\ \A p \in 1..Providers : rq.client[p] <= rq.sessions
    /\ \A p \in 1..Providers, r \in Requests :
          Queued(rq, p, r) <=> (rq.req[r].at = "lock" /\ rq.req[r].prov = p)

(* A FETCH is answered from one upstream: what the downstream reads never  *)
(* mixes two (exposure->exposed()).                                        *)
OneSourcePerFetch == \A f \in Fetches : Cardinality(rq.req[f].sources) <= 1

(* An upstream that accepted a request keeps it only while the downstream  *)
(* requester was told so: nothing is left open behind a refusal            *)
(* (fetchCancel and cancelPublishAttempt after closed_ or a cancellation). *)
NothingOrphaned ==
    \A r \in Requests : rq.req[r].up = "open" => rq.req[r].at = "done"

(* All requests share a provider's connection: one connects at a time, and *)
(* none while its session is open (connectMutex_).                         *)
OneConnection ==
    \A p \in 1..Providers :
        LET busy == {r \in Requests : rq.req[r].prov = p /\ rq.req[r].at \in {"entered", "connecting"}}
        IN  /\ Cardinality(busy) <= 1
            /\ \A r \in busy : /\ rq.holder[p] = r
                               /\ rq.req[r].at = "connecting" => rq.client[p] \notin rq.alive

(* Requests share the upstream sessions without mixing or leaking.         *)
ProxyShares == OneSourcePerFetch /\ NothingOrphaned /\ OneConnection

(* No step forwards a request to an upstream once the proxy is closed:     *)
(* closed_ is checked after each wait.                                     *)
NothingForwardedAfterClose ==
    \A r \in Requests : rq.closed /\ rq'.req[r].at = "asked" => rq.req[r].at = "asked"

(* Every request is answered, whichever providers fail, however often the  *)
(* session dies and whoever else waits for the same connection.            *)
RequestsAnswered ==
    \A r \in Requests : rq.req[r].at # "idle" ~> rq.req[r].at \in {"done", "refused"}
=============================================================================
