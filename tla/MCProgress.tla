----------------------------- MODULE MCProgress -----------------------------
(* Small instances of the parts whose work must end: the SETUP exchange,   *)
(* the drain of a session, the queue for unidirectional streams and the    *)
(* requests a proxy forwards.  A behaviour is one of one part; the others  *)
(* stay in an initial state.                                               *)
EXTENDS MoQSessionSetup, MoQSessionDrain, UniStreamQueue, MoQProxyRequests

VARIABLE part

vars == <<part, setupVars, drainVars, queueVars, rq>>

(* What the proofs assume of these constants.                              *)
ASSUME SetupAssumption /\ DrainAssumption /\ QueueAssumption /\ ProxyAssumption

Init ==
  /\ part \in {"setup", "drain", "queue", "proxy"}
  /\ SetupInit /\ (part # "setup" => ~uni /\ ~client)
  /\ DrainInit /\ (part # "drain" => ~draft18)
  /\ QueueInit /\ (part # "queue" => credit = 0 /\ \A i \in Ids : priority[i] = 0)
  /\ ProxyInit

setupStep(A) == part = "setup" /\ A /\ UNCHANGED <<part, drainVars, queueVars, rq>>
drainStep(A) == part = "drain" /\ A /\ UNCHANGED <<part, setupVars, queueVars, rq>>
queueStep(A) == part = "queue" /\ A /\ UNCHANGED <<part, setupVars, drainVars, rq>>
proxyStep(A) == part = "proxy" /\ A /\ UNCHANGED <<part, setupVars, drainVars, queueVars>>

Next ==
  \/ setupStep(SetupNext)
  \/ drainStep(DrainNext)
  \/ queueStep(QueueNext)
  \/ proxyStep(ProxyNext)

(* Each part has the fairness its module gives for its code: coroutines    *)
(* that can resume do, timers fire, loops run to their end, and an         *)
(* upstream session answers or dies.                                       *)
Fairness ==
  /\ WF_vars(setupStep(awaitPeerSetup)) /\ WF_vars(setupStep(setupTimeout))
  /\ \A b \in RequestStreams : WF_vars(setupStep(bidiStreamDemuxer(b)))
  /\ WF_vars(drainStep(timePasses)) /\ WF_vars(drainStep(timeoutExpired))
  /\ WF_vars(drainStep(onGoawayTimeoutExpired))
  /\ WF_vars(queueStep(Loop))
  /\ \A r \in Fetches \cup Publishes :
       /\ WF_vars(proxyStep(Enter(r))) /\ WF_vars(proxyStep(Connected(r)))
       /\ WF_vars(proxyStep(Answered(r)))
  /\ \A p \in 1 .. Providers : WF_vars(proxyStep(Locked(p)))

Spec == Init /\ [][Next]_vars /\ Fairness

-----------------------------------------------------------------------------
(* The state of each part has its shape, its counters in their bounds.     *)
TypeOK == SetupTypeOK /\ DrainTypeOK /\ QueueTypeOK /\ ProxyTypeOK

(* NO_ERROR means that everything was acked or the deadline passed; a      *)
(* draining session takes no new request from draft 18 on; a closed proxy  *)
(* forwards nothing.                                                       *)
NoStepTooFar ==
  [][GracefulClose /\ DrainRefuses /\ NothingForwardedAfterClose]_vars

(* A session that sent its SETUP gets the peer's or closes, and what came  *)
(* before it is served; a draining session closes once idle, or when its   *)
(* GOAWAY times out; close() of the queue finishes, whatever its grants    *)
(* ask for; every request the proxy took is answered.                      *)
WorkEnds ==
  /\ SetupDecides /\ RequestsServed
  /\ DrainedCloses /\ GoawayCloses
  /\ CloseTerminates
  /\ RequestsAnswered
=============================================================================
