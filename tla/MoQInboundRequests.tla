------------------------- MODULE MoQInboundRequests -------------------------
(* The requests a peer makes of a MoQSession: SUBSCRIBE, FETCH (standalone  *)
(* or joining) and TRACK_STATUS, each served by a coroutine that waits for  *)
(* the application, and the PUBLISH this end sent, which a joining FETCH    *)
(* may also name. A joining FETCH that overtakes the subscription it joins  *)
(* is held as a JoiningDependency. Coroutines resume in any order.          *)
EXTENDS Integers, FiniteSets, FiniteSetsExt

CONSTANTS
  Subs,         \* the peer's SUBSCRIBEs
  Pubs,         \* PUBLISHes of this end
  Fetches,      \* the peer's FETCHes
  Statuses,     \* the peer's TRACK_STATUSes
  Scenarios,    \* each [join |-> what every FETCH joins, used |-> the requests made]
  MaxDeferred   \* maxDeferredJoiningFetches

VARIABLE in

None == "none"
Targets == Subs \cup Pubs
Requests == Targets \cup Fetches \cup Statuses

-----------------------------------------------------------------------------
(* State. req[i]: the entry of i in pubTracks_ with its publisher's state   *)
(* (est, done), the coroutine and its cancellation token, the handle the    *)
(* application returned, and what the peer was told. dep[f]: the            *)
(* JoiningDependency of f; it is in joiningDependencies_ while listed.      *)

NoRequest == [seen |-> FALSE, entry |-> FALSE, state |-> "PENDING", held |-> FALSE,
              coro |-> None, cancelled |-> FALSE, handle |-> None,
              pending |-> FALSE, replies |-> 0, retired |-> 0]
NoDependency == [listed |-> FALSE, timer |-> FALSE, resolved |-> None]

Init ==
  \E s \in Scenarios, draft18 \in BOOLEAN :
    in = [used |-> s.used, req |-> [i \in Requests |-> NoRequest],
          dep |-> [f \in Fetches |-> NoDependency],
          num |-> 0, join |-> s.join, draft18 |-> draft18,
          goaway |-> FALSE, closed |-> FALSE]

Open == ~in.closed

\* Request ids are used once.
New(i) == i \in in.used /\ ~in.req[i].seen

retireRequestID(r, i) == [r EXCEPT !.req[i].retired = @ + 1]

\* publisherDrained(): the publisher leaves pubTracks_.
publisherDrained(r, i) == [r EXCEPT !.req[i].entry = FALSE]

reply(r, i) == [r EXCEPT !.req[i].replies = @ + 1]

-----------------------------------------------------------------------------
(* Joining dependencies *)

\* JoiningDependency::resolve(): the first result counts.
resolve(d, result) ==
  IF d.resolved # None THEN d ELSE [d EXCEPT !.timer = FALSE, !.resolved = result]

Waiting(r, i) == {f \in Fetches : r.join[f] = i /\ r.dep[f].listed}

resolveJoiningDependencies(r, i, result) ==
  LET w == Waiting(r, i)
  IN [r EXCEPT !.num = @ - Cardinality(w),
               !.dep = [f \in Fetches |->
                  IF f \in w THEN resolve([r.dep[f] EXCEPT !.listed = FALSE], result)
                  ELSE r.dep[f]]]

failJoiningDependencies(r, i) == resolveJoiningDependencies(r, i, "error")

\* The SUBSCRIBE has come: what waits for it waits for its answer from now on.
bindJoiningDependencies(r, i) ==
  [r EXCEPT !.dep = [f \in Fetches |->
     IF f \in Waiting(r, i) THEN [r.dep[f] EXCEPT !.timer = FALSE] ELSE r.dep[f]]]

removeJoiningDependency(r, f) ==
  IF ~r.dep[f].listed THEN [r EXCEPT !.dep[f].timer = FALSE]
  ELSE [r EXCEPT !.dep[f].timer = FALSE, !.dep[f].listed = FALSE, !.num = @ - 1]

-----------------------------------------------------------------------------
(* SUBSCRIBE *)

subscribeError(r, i) ==
  publisherDrained(retireRequestID(reply(failJoiningDependencies(r, i), i), i), i)

\* sendPublishDone(), with no data stream left open.
sendPublishDone(r, i) ==
  IF ~r.req[i].entry THEN r
  ELSE publisherDrained(retireRequestID([r EXCEPT !.req[i].state = "DONE",
                                                  !.req[i].held = FALSE,
                                                  !.req[i].handle = "dropped"], i), i)

\* The same track is being published by this end: pendingPublishTracks_.
Publishing(r) == \E p \in Pubs : r.req[p].pending

\* onSubscribe(): refused at once, or registered and handed to the application.
\* `same': it names the track of a PUBLISH that is not answered yet.
onSubscribe(i, same) ==
  /\ Open /\ New(i)
  /\ same => Publishing(in)
  /\ LET r == [in EXCEPT !.req[i].seen = TRUE]
         s == bindJoiningDependencies([r EXCEPT !.req[i].entry = TRUE], i)
     IN in' = IF in.goaway THEN subscribeError(r, i)
              ELSE IF same THEN subscribeError(s, i)
              ELSE [s EXCEPT !.req[i].coro = "asking"]

\* handleSubscribe() from the application's answer on: `ok' or an error.
handleSubscribe(i, ok) ==
  /\ in.req[i].coro = "asking"
  /\ LET r == [in EXCEPT !.req[i].coro = "ended"]
         s == reply([r EXCEPT !.req[i].handle = "installed",
                              !.req[i].state = IF @ = "DONE" THEN @ ELSE "ESTABLISHED"], i)
     IN in' = IF r.req[i].cancelled \/ ~r.req[i].entry
              THEN failJoiningDependencies([r EXCEPT !.req[i].handle =
                                              IF ok THEN "released" ELSE @], i)
              ELSE IF ~ok THEN subscribeError(r, i)
              ELSE resolveJoiningDependencies(
                     IF s.req[i].held THEN sendPublishDone(s, i) ELSE s, i, "ok")

\* The application calls publishDone(): held until SUBSCRIBE_OK is out.
publishDone(i) ==
  /\ Open /\ in.req[i].entry /\ ~in.req[i].held
  /\ in' = IF in.req[i].handle = "installed" THEN sendPublishDone(in, i)
           ELSE [in EXCEPT !.req[i].held = TRUE]

\* cancelInboundRequest(): only a coroutine that has not ended has a source.
cancelInboundRequest(r, i) ==
  [r EXCEPT !.req[i].cancelled = @ \/ r.req[i].coro \in {"waiting", "asking"}]

release(r, i) ==
  [r EXCEPT !.req[i].handle = IF @ = "installed" THEN "released" ELSE @]

\* onUnsubscribe(): UNSUBSCRIBE, or the peer left the request stream.
onUnsubscribe(i) ==
  /\ Open /\ in.req[i].entry
  /\ LET r == release(cancelInboundRequest(in, i), i)
     IN in' = failJoiningDependencies(publisherDrained(retireRequestID(r, i), i), i)

\* terminatePublish(): too many bytes buffered, or a failed update, which
\* cancels the coroutine first.
terminatePublish(i, updateFailed) ==
  /\ Open /\ in.req[i].entry
  /\ LET r == [(IF updateFailed THEN cancelInboundRequest(in, i) ELSE in)
                 EXCEPT !.req[i].held = FALSE]
     IN in' = IF r.req[i].handle = "installed" THEN sendPublishDone(r, i)
              ELSE subscribeError(r, i)

-----------------------------------------------------------------------------
(* PUBLISH of this end, as far as a joining FETCH can name it *)

publish(p) ==
  /\ Open /\ ~in.goaway /\ New(p)
  /\ in' = [in EXCEPT !.req[p].seen = TRUE, !.req[p].entry = TRUE,
                      !.req[p].pending = TRUE, !.req[p].handle = "installed"]

onPublishOk(p) ==
  /\ Open /\ in.req[p].pending
  /\ LET r == [in EXCEPT !.req[p].pending = FALSE]
     IN in' = IF ~r.req[p].entry THEN r
              ELSE resolveJoiningDependencies([r EXCEPT !.req[p].state = "ESTABLISHED"],
                                              p, "ok")

\* cleanupUnansweredRequest() for a PUBLISH.
cleanupUnansweredRequest(r, p) == publisherDrained(failJoiningDependencies(r, p), p)

\* onRequestError(), or the peer leaves the stream before it replied.
onPublishError(p, peerClosed) ==
  /\ Open /\ in.req[p].pending
  /\ peerClosed => in.draft18
  /\ LET r == IF peerClosed THEN sendPublishDone(in, p) ELSE in
     IN in' = cleanupUnansweredRequest([r EXCEPT !.req[p].pending = FALSE], p)

-----------------------------------------------------------------------------
(* FETCH *)

fetchError(r, f) == publisherDrained(reply(r, f), f)

\* FetchPublisherImpl::reset() or cancel(), or its last object: fetchComplete().
fetchComplete(r, f) ==
  IF ~r.req[f].entry THEN r ELSE retireRequestID(publisherDrained(r, f), f)

\* The request ids of a peer grow; only an id before the FETCH's can still come.
isDeferrableUnseenJoiningID(r, i) == r.draft18 /\ i \notin Pubs

deferJoiningFetch(r, f, unseen) ==
  IF r.num >= MaxDeferred THEN fetchError(r, f)
  ELSE [r EXCEPT !.num = @ + 1, !.req[f].entry = TRUE, !.req[f].coro = "waiting",
                 !.dep[f] = [listed |-> TRUE, timer |-> unseen, resolved |-> None]]

serve(r, f) == [r EXCEPT !.req[f].entry = TRUE, !.req[f].coro = "asking"]

\* prepareJoiningFetch(): rejected, held, or served at once.
prepareJoiningFetch(r, f) ==
  LET i == r.join[f]
  IN IF ~r.req[i].entry
     THEN IF isDeferrableUnseenJoiningID(r, i) THEN deferJoiningFetch(r, f, TRUE)
          ELSE fetchError(r, f)
     ELSE IF i \notin Targets \/ r.req[i].state = "DONE" THEN fetchError(r, f)
     ELSE IF r.req[i].state = "ESTABLISHED" THEN serve(r, f)
     ELSE deferJoiningFetch(r, f, FALSE)

\* onFetch(): what joined this id as a subscription fails now.
onFetch(f) ==
  /\ Open /\ New(f)
  /\ LET r == [in EXCEPT !.req[f].seen = TRUE]
         s == failJoiningDependencies(r, f)
     IN in' = IF in.goaway THEN fetchError(r, f)
              ELSE IF in.join[f] = None THEN serve(s, f)
              ELSE prepareJoiningFetch(s, f)

\* handleFetch() after its dependency: cancelled, failed, or on to the application.
resumeJoiningFetch(f) ==
  /\ in.req[f].coro = "waiting"
  /\ in.dep[f].resolved # None \/ in.req[f].cancelled
  /\ LET r == removeJoiningDependency(in, f)
         ended == [r EXCEPT !.req[f].coro = "ended"]
     IN in' = IF r.req[f].cancelled THEN ended
              ELSE IF r.dep[f].resolved = "error"
              THEN fetchError(fetchComplete(ended, f), f)
              ELSE [r EXCEPT !.req[f].coro = "asking"]

\* handleFetch() from the application's answer on.
handleFetch(f, ok) ==
  /\ in.req[f].coro = "asking"
  /\ LET r == [in EXCEPT !.req[f].coro = "ended"]
     IN in' = IF r.req[f].cancelled
              THEN [r EXCEPT !.req[f].handle = IF ok THEN "released" ELSE @]
              ELSE IF ~ok THEN fetchError(fetchComplete(r, f), f)
              ELSE reply([r EXCEPT !.req[f].handle = "installed"], f)

\* The application writes the last object of a FETCH it was asked for.
endOfFetch(f) ==
  /\ Open /\ in.req[f].entry /\ in.req[f].coro # "waiting"
  /\ in' = fetchComplete([in EXCEPT !.req[f].handle = IF @ = "installed" THEN "dropped" ELSE @], f)

onFetchCancel(f) ==
  /\ Open /\ in.req[f].entry
  /\ in' = fetchComplete(release(cancelInboundRequest(in, f), f), f)

onJoiningDependencyTimeout(f) ==
  /\ in.dep[f].timer
  /\ LET r == removeJoiningDependency(in, f)
     IN in' = [r EXCEPT !.dep[f] = resolve(@, "error")]

-----------------------------------------------------------------------------
(* TRACK_STATUS, GOAWAY, close *)

onTrackStatus(t) ==
  /\ Open /\ New(t)
  /\ LET r == [in EXCEPT !.req[t].seen = TRUE]
     IN in' = IF in.goaway THEN reply(r, t) ELSE [r EXCEPT !.req[t].coro = "asking"]

handleTrackStatus(t) ==
  /\ in.req[t].coro = "asking"
  /\ LET r == [in EXCEPT !.req[t].coro = "ended"]
     IN in' = IF r.req[t].cancelled THEN r ELSE retireRequestID(reply(r, t), t)

\* GOAWAY was received, or (draft 18 on) this end drains.
onGoaway == Open /\ ~in.goaway /\ in' = [in EXCEPT !.goaway = TRUE]

\* close(): cleanup() resolves what waits, ends the publishers, cancels every
\* coroutine.
close ==
  /\ Open
  /\ LET r == [in EXCEPT !.closed = TRUE, !.num = 0,
                 !.dep = [f \in Fetches |->
                    IF in.dep[f].listed
                    THEN resolve([in.dep[f] EXCEPT !.listed = FALSE], "error")
                    ELSE in.dep[f]]]
     IN in' = [r EXCEPT !.req = [i \in Requests |->
                 [(cancelInboundRequest(release(r, i), i)).req[i]
                    EXCEPT !.entry = FALSE, !.pending = FALSE]]]

Next ==
  \/ \E i \in Subs : \/ onUnsubscribe(i)
                     \/ \E b \in BOOLEAN : \/ onSubscribe(i, b)
                                           \/ handleSubscribe(i, b)
                                           \/ terminatePublish(i, b)
  \/ \E i \in Targets : publishDone(i)
  \/ \E p \in Pubs : publish(p) \/ onPublishOk(p) \/ \E b \in BOOLEAN : onPublishError(p, b)
  \/ \E f \in Fetches : \/ onFetch(f) \/ resumeJoiningFetch(f) \/ endOfFetch(f)
                        \/ onFetchCancel(f) \/ onJoiningDependencyTimeout(f)
                        \/ \E ok \in BOOLEAN : handleFetch(f, ok)
  \/ \E t \in Statuses : onTrackStatus(t) \/ handleTrackStatus(t)
  \/ onGoaway
  \/ close

Spec == Init /\ [][Next]_in

-----------------------------------------------------------------------------
(* Properties *)

TypeOK ==
  /\ in.num \in Nat
  /\ in.req \in [Requests ->
       [seen : BOOLEAN, entry : BOOLEAN, state : {"PENDING", "ESTABLISHED", "DONE"},
        held : BOOLEAN, coro : {None, "waiting", "asking", "ended"},
        cancelled : BOOLEAN, handle : {None, "installed", "released", "dropped"},
        pending : BOOLEAN, replies : 0..1, retired : 0..1]]
  /\ in.dep \in [Fetches -> [listed : BOOLEAN, timer : BOOLEAN,
                             resolved : {None, "ok", "error"}]]

\* numJoiningDependencies_ counts exactly the FETCHes that are held, and never
\* passes its limit: a leak would turn every later joining FETCH away.
DeferredCounted ==
  /\ in.num = Cardinality({f \in Fetches : in.dep[f].listed})
  /\ in.num <= MaxDeferred

\* A FETCH held for a SUBSCRIBE can still be resolved: its timer runs, or the
\* SUBSCRIBE's handler has not ended.
HeldForSubscribe ==
  \A f \in Fetches :
    in.dep[f].listed /\ in.join[f] \in Subs
      => in.dep[f].timer \/ in.req[in.join[f]].coro = "asking"

\* A FETCH held for a PUBLISH can still be resolved: it has no timer, so the
\* reply to the PUBLISH must still be to come.
HeldForPublish ==
  \A f \in Fetches :
    in.dep[f].listed /\ in.join[f] \in Pubs => in.req[in.join[f]].pending

\* A joining FETCH reaches the application only after the peer was told that
\* the subscription exists: SUBSCRIBE_OK was written, or PUBLISH_OK was read.
JoinAfterOk ==
  \A f \in Fetches :
    in.dep[f].resolved = "ok"
      => LET t == in.req[in.join[f]]
         IN t.state # "PENDING" /\ (in.join[f] \in Subs => t.replies = 1)

\* A request whose coroutine ended without being cancelled got its one reply;
\* one that was cancelled, got at most the reply it had before.
AnsweredOnce ==
  \A i \in Requests \ Pubs :
    /\ in.req[i].coro = "ended" /\ ~in.req[i].cancelled /\ ~in.closed
         => in.req[i].replies = 1 \/ in.req[i].retired = 1
    /\ in.req[i].cancelled /\ i \in Fetches => in.req[i].replies = 0

\* No subscription handle is left behind: once the publisher is gone, the
\* application was told to unsubscribe, or the track had ended.
HandleSettled ==
  \A i \in Subs : ~in.req[i].entry => in.req[i].handle # "installed"

(* Each request is answered and its handle settled, and a FETCH is held    *)
(* within the limit and only for what can still resolve it.                *)
RequestsSettle ==
  DeferredCounted /\ HeldForSubscribe /\ JoinAfterOk /\ AnsweredOnce /\ HandleSettled
=============================================================================
