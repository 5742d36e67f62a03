-------------------------- MODULE MoQSessionDrain --------------------------
(* How a MoQSession ends: GOAWAY, drain(), the wait for open requests, the  *)
(* wait for the acks of everything written (EgressAckTracker), the one      *)
(* timer that bounds both, and close().                                     *)
EXTENDS Integers

CONSTANTS
  MaxOpen,        \* bound on open and on pending requests
  MaxWrites,      \* bound on unacked writes
  FlushTimeout,   \* whether drainFlushTimeout is not zero
  GoawayTimeout   \* whether GOAWAY carries a timeout

DrainAssumption == MaxOpen \in Nat /\ MaxWrites \in Nat

VARIABLES
  draft18,
  draining, flushing,   \* draining_, drainFlushing_
  received,             \* receivedGoaway_
  entries,              \* entries of pubTracks_, fetches_ and subTracks_
  pending,              \* SUBSCRIBEs of this end that wait for their reply
  control,              \* controlWriteBuf_ is not empty
  unacked,              \* EgressAckTracker::pending_
  onIdle,               \* EgressAckTracker::onIdle_ is set
  timer,                \* goawayTimeout_: "off", "long" (more than the flush
                        \* timeout remains) or "short"
  expired,              \* expiries queued on the executor
  closeCode             \* "open" or the close code

drainVars == <<draft18, draining, flushing, received, entries, pending, control,
               unacked, onIdle, timer, expired, closeCode>>

DrainInit ==
  /\ draft18 \in BOOLEAN
  /\ draining = FALSE /\ flushing = FALSE /\ received = FALSE
  /\ entries = 0 /\ pending = 0 /\ control = FALSE /\ unacked = 0
  /\ onIdle = FALSE /\ timer = "off" /\ expired = 0 /\ closeCode = "open"

Open == closeCode = "open"

-----------------------------------------------------------------------------

\* close(): once. cleanup() cancels the timer and empties the maps.
closeWith(code) ==
  /\ closeCode' = code /\ timer' = "off" /\ onIdle' = FALSE
  /\ entries' = 0 /\ pending' = 0

egressIdle(ctl, un) == ~ctl /\ un = 0

\* Mutant: the acks are not waited for.
checkForCloseOnDrain_AtOnce(drn, req, pend, ctl) ==
  IF ~drn \/ flushing \/ req # 0
  THEN /\ entries' = req /\ pending' = pend
       /\ UNCHANGED <<flushing, onIdle, timer, closeCode>>
  ELSE flushing' = TRUE /\ closeWith("NO_ERROR")

\* checkForCloseOnDrain(), with what the caller leaves in the maps: no open
\* request is left, so close, or arm the flush.
checkForCloseOnDrain(drn, req, pend, ctl) ==
  IF ~drn \/ flushing \/ req # 0
  THEN /\ entries' = req /\ pending' = pend
       /\ UNCHANGED <<flushing, onIdle, timer, closeCode>>
  ELSE /\ flushing' = TRUE
       /\ IF ~FlushTimeout \/ egressIdle(ctl, unacked) THEN closeWith("NO_ERROR")
          ELSE /\ onIdle' = TRUE /\ entries' = req /\ pending' = pend
               /\ timer' = "short"
               /\ UNCHANGED closeCode

\* goaway(): GOAWAY is written, its timer armed, then drain(). The timer the
\* flush may arm replaces it.
goaway ==
  /\ Open /\ ~draining
  /\ draining' = TRUE /\ control' = TRUE
  /\ IF entries # 0 /\ draft18 /\ GoawayTimeout
     THEN timer' = "long" /\ UNCHANGED <<flushing, onIdle, entries, pending, closeCode>>
     ELSE checkForCloseOnDrain(TRUE, entries, pending, TRUE)
  /\ UNCHANGED <<draft18, received, unacked, expired>>

\* drain(), without GOAWAY.
drain ==
  /\ Open /\ ~draining
  /\ draining' = TRUE
  /\ checkForCloseOnDrain(TRUE, entries, pending, control)
  /\ UNCHANGED <<draft18, received, control, unacked, expired>>

\* onGoaway(): a second one is a protocol violation.
onGoaway ==
  /\ Open
  /\ IF received THEN closeWith("PROTOCOL_VIOLATION") /\ UNCHANGED received
     ELSE received' = TRUE /\ UNCHANGED <<closeCode, timer, onIdle, entries, pending>>
  /\ UNCHANGED <<draft18, draining, flushing, control, unacked, expired>>

\* A request of the peer: refused when shouldRejectNewPeerRequestDueToGoaway().
peerRequest ==
  /\ Open /\ entries < MaxOpen
  /\ ~received /\ ~(draining /\ draft18)
  /\ entries' = entries + 1
  /\ UNCHANGED <<draft18, draining, flushing, received, pending, control, unacked,
                 onIdle, timer, expired, closeCode>>

\* subscribe() writes SUBSCRIBE and waits; a draining session refuses.
localSubscribe ==
  /\ Open /\ pending < MaxOpen
  /\ ~draining /\ ~(received /\ draft18)
  /\ pending' = pending + 1 /\ control' = TRUE
  /\ UNCHANGED <<draft18, draining, flushing, received, entries, unacked,
                 onIdle, timer, expired, closeCode>>

\* SUBSCRIBE_OK: the subscription enters subTracks_.
subscribeOk ==
  /\ Open /\ pending > 0 /\ entries < MaxOpen
  /\ pending' = pending - 1 /\ entries' = entries + 1
  /\ UNCHANGED <<draft18, draining, flushing, received, control, unacked, onIdle,
                 timer, expired, closeCode>>

\* SUBSCRIBE_ERROR: onRequestError() ends with checkForCloseOnDrain().
subscribeError ==
  /\ Open /\ pending > 0
  /\ checkForCloseOnDrain(draining, entries, pending - 1, control)
  /\ UNCHANGED <<draft18, draining, received, control, unacked, expired>>

\* Mutant: the last request leaves without a look at the drain.
requestEnds_Silent ==
  /\ Open /\ entries > 0
  /\ control' = TRUE /\ entries' = entries - 1
  /\ UNCHANGED <<draft18, draining, flushing, received, pending, unacked, onIdle,
                 timer, expired, closeCode>>

\* A request ends: its entry leaves its map, then checkForCloseOnDrain().
requestEnds ==
  /\ Open /\ entries > 0
  /\ control' = TRUE
  /\ checkForCloseOnDrain(draining, entries - 1, pending, TRUE)
  /\ UNCHANGED <<draft18, draining, received, unacked, expired>>

\* controlWriteLoop(): what is in controlWriteBuf_ goes out as one write.
controlWriteLoop ==
  /\ Open /\ control /\ unacked < MaxWrites
  /\ control' = FALSE /\ unacked' = unacked + 1
  /\ UNCHANGED <<draft18, draining, flushing, received, entries, pending, onIdle,
                 timer, expired, closeCode>>

\* An object goes out on a data stream.
dataWrite ==
  /\ Open /\ entries > 0 /\ unacked < MaxWrites
  /\ unacked' = unacked + 1
  /\ UNCHANGED <<draft18, draining, flushing, received, entries, pending, control,
                 onIdle, timer, expired, closeCode>>

\* onWriteComplete(): acked or cancelled; the last one calls onIdle_.
onWriteComplete ==
  /\ Open /\ unacked > 0
  /\ unacked' = unacked - 1
  /\ IF onIdle /\ egressIdle(control, unacked - 1) THEN closeWith("NO_ERROR")
     ELSE UNCHANGED <<closeCode, timer, onIdle, entries, pending>>
  /\ UNCHANGED <<draft18, draining, flushing, received, control, expired>>

\* Time passes until less than the flush timeout remains.
timePasses ==
  /\ timer = "long" /\ timer' = "short"
  /\ UNCHANGED <<draft18, draining, flushing, received, entries, pending, control,
                 unacked, onIdle, expired, closeCode>>

\* GoawayTimeoutCallback::timeoutExpired(): the work is queued on the executor.
timeoutExpired ==
  /\ timer = "short" /\ timer' = "off" /\ expired' = expired + 1
  /\ UNCHANGED <<draft18, draining, flushing, received, entries, pending, control,
                 unacked, onIdle, closeCode>>

\* onGoawayTimeoutExpired(), perhaps long after the timer it stands for.
onGoawayTimeoutExpired ==
  /\ expired > 0 /\ expired' = expired - 1
  /\ IF ~Open THEN UNCHANGED <<flushing, closeCode, timer, onIdle, entries, pending>>
     ELSE IF flushing THEN closeWith("NO_ERROR") /\ UNCHANGED flushing
     ELSE IF entries = 0 THEN checkForCloseOnDrain(draining, entries, pending, control)
     ELSE closeWith("GOAWAY_TIMEOUT") /\ UNCHANGED flushing
  /\ UNCHANGED <<draft18, draining, received, control, unacked>>

\* The application or the transport ends the session.
closeSession ==
  /\ Open /\ closeWith("SESSION_CLOSED")
  /\ UNCHANGED <<draft18, draining, flushing, received, control, unacked, expired>>

DrainNext ==
  \/ goaway \/ drain \/ onGoaway \/ peerRequest \/ localSubscribe \/ subscribeOk
  \/ subscribeError \/ requestEnds \/ controlWriteLoop \/ dataWrite
  \/ onWriteComplete \/ timePasses \/ timeoutExpired \/ onGoawayTimeoutExpired
  \/ closeSession

\* Timers fire and the executor runs what is queued. Nothing is assumed of the
\* peer: it may never ack and never end a request.
DrainFairness ==
  WF_drainVars(timePasses) /\ WF_drainVars(timeoutExpired) /\ WF_drainVars(onGoawayTimeoutExpired)

DrainSpec == DrainInit /\ [][DrainNext]_drainVars /\ DrainFairness

-----------------------------------------------------------------------------

DrainTypeOK ==
  /\ draft18 \in BOOLEAN /\ draining \in BOOLEAN /\ flushing \in BOOLEAN
  /\ received \in BOOLEAN /\ control \in BOOLEAN /\ onIdle \in BOOLEAN
  /\ entries \in 0..MaxOpen /\ pending \in 0..MaxOpen
  /\ unacked \in 0..MaxWrites /\ expired \in 0..2
  /\ timer \in {"off", "long", "short"}
  /\ closeCode \in {"open", "NO_ERROR", "GOAWAY_TIMEOUT", "PROTOCOL_VIOLATION",
                 "SESSION_CLOSED"}

\* While the session waits for acks, a deadline within the flush timeout is set
\* or its expiry is queued: a peer that never acks cannot hold it open.
FlushIsBounded == flushing /\ Open => timer = "short" \/ expired > 0

\* An open draining session holds a request, or is flushing: every end of a
\* request looks at the drain. (A SUBSCRIBE of this end that waits for its
\* reply does not hold it.)
DrainNotForgotten == draining /\ Open => entries > 0 \/ flushing

\* A draining session that is open waits for something that ends.
DrainIsBounded == FlushIsBounded /\ DrainNotForgotten

\* A step closes a session with NO_ERROR only when everything written was acked, or
\* the deadline passed, or no flush was asked for.
GracefulClose ==
  closeCode = "open" /\ closeCode' = "NO_ERROR"
    => \/ egressIdle(control', unacked')
       \/ expired' < expired
       \/ ~FlushTimeout

\* drain() refuses new requests (draft 18 on): what is open can only end, step
\* by step.
DrainRefuses == draining /\ draft18 => entries' + pending' <= entries + pending

\* A draining session without open requests closes, whatever the peer does.
DrainedCloses == draining /\ entries = 0 ~> ~Open

\* A GOAWAY with a timeout closes the session even if its requests never end.
GoawayCloses == timer = "long" ~> ~Open

\* drain() waits for the open requests before it closes with NO_ERROR, those
\* that are waiting for their reply included.
DrainWaitsForPending == closeCode = "open" /\ closeCode' = "NO_ERROR" => pending = 0
=============================================================================
