-------------------------- MODULE MoQSessionProofs --------------------------
(***************************************************************************)
(* Proofs about three parts of a session and about two sessions in turn:   *)
(* the SETUP exchange, for any finite set of streams and any bound on the  *)
(* buffered ones; the drain, for any number of requests and writes, with   *)
(* or without the two timeouts; the queue for unidirectional streams, for  *)
(* any priorities, any number of requests and any credit; and the handoff  *)
(* of a subscription from one upstream session to the next, for every set  *)
(* of group ids.                                                           *)
(***************************************************************************)
EXTENDS MoQSessionSetup, MoQSessionDrain, UniStreamQueue, MoQUpstreamHandoffArbiter,
        FiniteSetTheorems, SequenceTheorems, WellFoundedInduction, TLAPS

-----------------------------------------------------------------------------
(* The SETUP exchange.                                                     *)

SetupInv == SetupTypeOK /\ SetupInOrder

UniState == {"none", "reading", "control", "buffered", "loop", "ended"}
BidiState == {"none", "waiting", "serving", "ended"}

-----------------------------------------------------------------------------
(* The streams that stay buffered are as few as before.                     *)
LEMMA NoMoreBuffered ==
  ASSUME SetupAssumption, SetupTypeOK, Buffered' \subseteq Buffered
  PROVE  Cardinality(Buffered') <= MaxBuffered
<1>1. IsFiniteSet(Buffered)
  BY FS_Subset, Zenon DEF SetupAssumption, Buffered
<1>2. IsFiniteSet(Buffered') /\ Cardinality(Buffered') <= Cardinality(Buffered)
  BY <1>1, FS_Subset, Zenon
<1>3. Cardinality(Buffered') \in Nat /\ Cardinality(Buffered) \in Nat
  BY <1>1, <1>2, FS_CardinalityType, Zenon
<1> QED
  BY <1>2, <1>3 DEF SetupTypeOK, SetupAssumption

(* One more is one more.                                                    *)
LEMMA OneMoreBuffered ==
  ASSUME SetupAssumption, SetupTypeOK, NEW s \in Uni, Buffered' \subseteq Buffered \cup {s},
         ~(Cardinality(Buffered) >= MaxBuffered)
  PROVE  Cardinality(Buffered') <= MaxBuffered
<1>1. IsFiniteSet(Buffered)
  BY FS_Subset, Zenon DEF SetupAssumption, Buffered
<1>2. /\ IsFiniteSet(Buffered \cup {s})
      /\ \/ Cardinality(Buffered \cup {s}) = Cardinality(Buffered)
         \/ Cardinality(Buffered \cup {s}) = Cardinality(Buffered) + 1
  BY <1>1, FS_AddElement, Zenon
<1>3. IsFiniteSet(Buffered') /\ Cardinality(Buffered') <= Cardinality(Buffered \cup {s})
  BY <1>2, FS_Subset, Zenon
<1>4. Cardinality(Buffered') \in Nat /\ Cardinality(Buffered) \in Nat
  BY <1>1, <1>3, FS_CardinalityType, Zenon
<1> QED
  BY <1>2, <1>3, <1>4 DEF SetupAssumption

(* The initial state.                                                       *)
LEMMA SetupStarts == ASSUME SetupAssumption PROVE SetupInit => SetupInv
<1> SUFFICES ASSUME SetupInit PROVE SetupInv
  BY Zenon
<1>1. Buffered = {}
  BY Zenon DEF SetupInit, Buffered
<1>2. Cardinality(Buffered) <= MaxBuffered
  BY <1>1, FS_EmptySet DEF SetupAssumption
<1>3. SetupTypeOK
  BY <1>2, Zenon DEF SetupInit, SetupTypeOK
<1>4. SetupInOrder
  BY <1>1, Zenon DEF SetupInit, SetupInOrder, NothingBeforeSetup, NothingStranded
<1> QED
  BY <1>3, <1>4, Zenon DEF SetupInv

-----------------------------------------------------------------------------
(* close() ends every stream.                                               *)
LEMMA SetupCloseKeeps == ASSUME SetupAssumption, SetupInv, closeNow PROVE SetupInv'
<1>1. Buffered' = {}
  BY Zenon DEF closeNow, Buffered
<1>2. /\ \A s \in Uni : stream'[s] # "loop"
      /\ \A b \in RequestStreams : requestStream'[b] # "serving"
  BY Zenon DEF closeNow
<1>3. Cardinality(Buffered') <= MaxBuffered
  BY <1>1, NoMoreBuffered, Zenon DEF SetupInv
<1>4. stream' \in [Uni -> UniState] /\ requestStream' \in [RequestStreams -> BidiState]
  BY Zenon DEF closeNow, UniState, BidiState
<1>5. await' \in {"none", "waiting", "done", "cancelled"} /\ closed' \in BOOLEAN
  BY Zenon DEF closeNow, SetupInv, SetupTypeOK
<1>6. SetupTypeOK'
  BY <1>3, <1>4, <1>5, Zenon DEF closeNow, SetupInv, SetupTypeOK, UniState, BidiState
<1> QED
  BY <1>1, <1>2, <1>6, Zenon DEF SetupInv, SetupInOrder, NothingBeforeSetup, NothingStranded

(* The setup completes: what was buffered is read.                          *)
LEMMA DoneKeeps ==
  ASSUME SetupAssumption, SetupInv, setupDone, UNCHANGED <<uni, client, closed, requestStream>>,
         setupPromise' \in {"none", "open", "set"},
         await' \in {"none", "waiting", "done", "cancelled"}
  PROVE  SetupInv'
<1>1. Buffered' = {} /\ complete'
  BY Zenon DEF setupDone, Buffered
<1>2. Cardinality(Buffered') <= MaxBuffered
  BY <1>1, NoMoreBuffered, Zenon DEF SetupInv
<1>3. stream' \in [Uni -> UniState] /\ complete' \in BOOLEAN
  BY Zenon DEF setupDone, SetupInv, SetupTypeOK, UniState
<1>4. SetupTypeOK'
  BY <1>2, <1>3, Zenon DEF SetupInv, SetupTypeOK, UniState
<1> QED
  BY <1>1, <1>4, Zenon DEF SetupInv, SetupInOrder, NothingBeforeSetup, NothingStranded

(* One uni stream moves, and nothing else.                                  *)
LEMMA StreamKeeps ==
  ASSUME SetupAssumption, SetupInv, NEW s \in Uni, NEW to \in UniState,
         stream' = [stream EXCEPT ![s] = to],
         UNCHANGED <<uni, client, setupPromise, await, complete, closed, requestStream>>,
         to = "loop" => complete,
         to = "buffered" => ~complete /\ ~(Cardinality(Buffered) >= MaxBuffered)
  PROVE  SetupInv'
<1>1. /\ stream' \in [Uni -> UniState]
      /\ \A u \in Uni : stream'[u] = IF u = s THEN to ELSE stream[u]
  BY Zenon DEF SetupInv, SetupTypeOK, UniState
<1>2. Buffered' \subseteq Buffered \cup {s} /\ (to # "buffered" => Buffered' \subseteq Buffered)
  BY <1>1, Zenon DEF Buffered
<1>3. Cardinality(Buffered') <= MaxBuffered
  BY <1>2, NoMoreBuffered, OneMoreBuffered, Zenon DEF SetupInv
<1>4. SetupTypeOK'
  BY <1>1, <1>3, Zenon DEF SetupInv, SetupTypeOK, UniState
<1>5. NothingBeforeSetup' /\ NothingStranded'
  BY <1>1, <1>2, Zenon DEF SetupInv, SetupInOrder, NothingBeforeSetup, NothingStranded
<1> QED
  BY <1>4, <1>5, Zenon DEF SetupInv, SetupInOrder

(* One request stream moves, and nothing else.                              *)
LEMMA SetupRequestKeeps ==
  ASSUME SetupAssumption, SetupInv, NEW b \in RequestStreams, NEW to \in BidiState,
         requestStream' = [requestStream EXCEPT ![b] = to],
         UNCHANGED <<uni, client, setupPromise, await, complete, closed, stream>>,
         to = "serving" => complete
  PROVE  SetupInv'
<1>1. /\ requestStream' \in [RequestStreams -> BidiState]
      /\ \A a \in RequestStreams : requestStream'[a] = IF a = b THEN to ELSE requestStream[a]
  BY Zenon DEF SetupInv, SetupTypeOK, BidiState
<1>2. Buffered' = Buffered
  BY Zenon DEF Buffered
<1>3. SetupTypeOK'
  BY <1>1, <1>2, Zenon DEF SetupInv, SetupTypeOK, BidiState
<1> QED
  BY <1>1, <1>2, <1>3, Zenon DEF SetupInv, SetupInOrder, NothingBeforeSetup, NothingStranded

(* Only the SETUP exchange moves.                                           *)
LEMMA ExchangeKeeps ==
  ASSUME SetupInv, UNCHANGED <<uni, client, complete, closed, stream, requestStream>>,
         setupPromise' \in {"none", "open", "set"},
         await' \in {"none", "waiting", "done", "cancelled"}
  PROVE  SetupInv'
<1>1. Buffered' = Buffered
  BY Zenon DEF Buffered
<1>2. SetupTypeOK'
  BY <1>1, Zenon DEF SetupInv, SetupTypeOK
<1> QED
  BY <1>1, <1>2, Zenon DEF SetupInv, SetupInOrder, NothingBeforeSetup, NothingStranded

(* Every step keeps the invariant.                                          *)
LEMMA SetupKeeps == ASSUME SetupAssumption, SetupInv, [SetupNext]_setupVars PROVE SetupInv'
<1> USE DEF SetupInv, SetupTypeOK
<1>1. CASE sendSetup
  BY <1>1, ExchangeKeeps, Zenon DEF sendSetup
<1>2. CASE onServerSetup
  BY <1>2, ExchangeKeeps, SetupCloseKeeps, Zenon DEF onServerSetup
<1>3. CASE onClientSetup
  BY <1>3, DoneKeeps, SetupCloseKeeps, Zenon DEF onClientSetup
<1>4. CASE awaitPeerSetup
  BY <1>4, DoneKeeps, Zenon DEF awaitPeerSetup
<1>5. CASE setupTimeout \/ closeInSetup
  BY <1>5, SetupCloseKeeps, Zenon DEF setupTimeout, closeInSetup
<1>6. ASSUME NEW s \in Uni, onNewUniStream(s) PROVE SetupInv'
  BY <1>6, SetupCloseKeeps, StreamKeeps, Zenon DEF onNewUniStream, UniState
<1>7. ASSUME NEW s \in Uni, handlePreSetupUniStream(s) PROVE SetupInv'
  <2>1. CASE closeNow
    BY <2>1, SetupCloseKeeps, Zenon
  <2>2. CASE ~closeNow
    <3> DEFINE to == IF s \in ControlStreams THEN "control" ELSE IF complete THEN "loop" ELSE "buffered"
    <3>1. /\ stream' = [stream EXCEPT ![s] = to]
          /\ UNCHANGED <<uni, client, setupPromise, await, complete, closed, requestStream>>
          /\ s \in DataStreams /\ ~complete => ~(Cardinality(Buffered) >= MaxBuffered)
      BY <1>7, <2>2, Zenon DEF handlePreSetupUniStream
    <3>2. to \in UniState /\ (to = "loop" => complete)
          /\ (to = "buffered" => ~complete /\ s \in DataStreams)
      BY Zenon DEF UniState, Uni
    <3> HIDE DEF to
    <3> QED
      BY <3>1, <3>2, StreamKeeps, Zenon
  <2> QED
    BY <2>1, <2>2, Zenon
<1>8. ASSUME NEW s \in Uni, uniStreamEnds(s) PROVE SetupInv'
  BY <1>8, StreamKeeps, Zenon DEF uniStreamEnds, UniState
<1>9. ASSUME NEW b \in RequestStreams, onNewBidiStream(b) PROVE SetupInv'
  BY <1>9, SetupRequestKeeps, Zenon DEF onNewBidiStream, BidiState
<1>10. ASSUME NEW b \in RequestStreams, bidiStreamDemuxer(b) PROVE SetupInv'
  BY <1>10, SetupRequestKeeps, Zenon DEF bidiStreamDemuxer, BidiState
<1>11. CASE UNCHANGED setupVars
  BY <1>11, ExchangeKeeps, Zenon DEF setupVars
<1> QED
  BY <1>1, <1>2, <1>3, <1>4, <1>5, <1>6, <1>7, <1>8, <1>9, <1>10, <1>11, Zenon DEF SetupNext

-----------------------------------------------------------------------------
(* The invariant holds always.                                              *)
THEOREM SetupInductive == ASSUME SetupAssumption PROVE SetupSpec => []SetupInv
<1>1. SetupInit => SetupInv
  BY SetupStarts, Zenon
<1>2. SetupInv /\ [SetupNext]_setupVars => SetupInv'
  BY SetupKeeps, Zenon
<1> QED
  BY <1>1, <1>2, PTL DEF SetupSpec

(* The members keep their types, and no more than                           *)
(* kMaxBufferedPreSetupUniStreams streams are ever buffered.                *)
THEOREM SetupTypes == ASSUME SetupAssumption PROVE SetupSpec => []SetupTypeOK
<1>1. SetupInv => SetupTypeOK
  BY Zenon DEF SetupInv
<1> QED
  BY <1>1, SetupInductive, PTL

(* Nothing is read as data or served before SETUP, and nothing that was     *)
(* buffered before it stays buffered after.                                 *)
THEOREM SetupCorrect == ASSUME SetupAssumption PROVE SetupSpec => []SetupInOrder
<1>1. SetupInv => SetupInOrder
  BY Zenon DEF SetupInv
<1> QED
  BY <1>1, SetupInductive, PTL

-----------------------------------------------------------------------------
(* The drain.                                                              *)

(* GOAWAY and the flush arm the timer once each, so two expiries at most    *)
(* are queued: one before the flush, and the timer is off by then.          *)
Timers ==
  /\ ~draining => ~flushing /\ timer = "off" /\ expired = 0
  /\ ~flushing => expired = 0 \/ (expired = 1 /\ timer = "off")
  /\ flushing => expired \in {0, 1} \/ (expired = 2 /\ timer = "off")

DrainInv == DrainTypeOK /\ Timers /\ DrainIsBounded

-----------------------------------------------------------------------------
(* The initial state.                                                       *)
LEMMA DrainStarts == ASSUME DrainAssumption PROVE DrainInit => DrainInv
<1> SUFFICES ASSUME DrainInit PROVE DrainInv
  BY Zenon
<1>1. 0 \in 0..MaxOpen /\ 0 \in 0..MaxWrites /\ 0 \in 0..2
  BY DEF DrainAssumption
<1>2. DrainTypeOK
  BY <1>1, Zenon DEF DrainInit, DrainTypeOK
<1>3. Timers /\ FlushIsBounded /\ DrainNotForgotten
  BY Zenon DEF DrainInit, Timers, FlushIsBounded, DrainNotForgotten
<1> QED
  BY <1>2, <1>3, Zenon DEF DrainInv, DrainIsBounded

(* checkForCloseOnDrain() keeps the invariant, whatever its caller left in  *)
(* the maps, and also when the caller consumed the expiry of GOAWAY.        *)
LEMMA CheckKeeps ==
  ASSUME DrainAssumption, DrainInv, Open,
         NEW drn \in BOOLEAN, NEW req \in 0..MaxOpen, NEW pend \in 0..MaxOpen, NEW ctl,
         checkForCloseOnDrain(drn, req, pend, ctl),
         draining' = drn, draining => drn,
         expired' = expired \/ (expired' = expired - 1 /\ ~flushing /\ expired > 0),
         control' \in BOOLEAN, unacked' = unacked, draft18' = draft18, received' = received
  PROVE  DrainInv'
<1>1. CASE ~drn \/ flushing \/ req # 0
  <2>1. /\ entries' = req /\ pending' = pend
        /\ flushing' = flushing /\ onIdle' = onIdle /\ timer' = timer /\ closeCode' = closeCode
    BY <1>1, Zenon DEF checkForCloseOnDrain
  <2>2. DrainTypeOK'
    BY <2>1 DEF DrainInv, DrainTypeOK
  <2>3. Timers'
    BY <2>1 DEF DrainInv, Timers
  <2>4. FlushIsBounded'
    BY <2>1, Zenon DEF DrainInv, DrainIsBounded, FlushIsBounded, Open
  <2>5. DrainNotForgotten'
    BY <1>1, <2>1 DEF DrainNotForgotten, Open
  <2> QED
    BY <2>2, <2>3, <2>4, <2>5, Zenon DEF DrainInv, DrainIsBounded
<1>2. CASE ~(~drn \/ flushing \/ req # 0)
  <2>1. /\ flushing' = TRUE
        /\ \/ closeWith("NO_ERROR")
           \/ /\ onIdle' = TRUE /\ entries' = req /\ pending' = pend /\ timer' = "short"
              /\ closeCode' = closeCode
    BY <1>2, Zenon DEF checkForCloseOnDrain
  <2>2. DrainTypeOK'
    <3>1. entries' \in 0..MaxOpen /\ pending' \in 0..MaxOpen
      BY <2>1 DEF closeWith, DrainAssumption
    <3>2. expired' \in 0..2
      BY DEF DrainInv, DrainTypeOK
    <3>3. /\ onIdle' \in BOOLEAN /\ timer' \in {"off", "long", "short"}
          /\ closeCode' \in {"open", "NO_ERROR", "GOAWAY_TIMEOUT", "PROTOCOL_VIOLATION",
                          "SESSION_CLOSED"}
      BY <2>1, Zenon DEF closeWith, DrainInv, DrainTypeOK
    <3> QED
      BY <2>1, <3>1, <3>2, <3>3, Zenon DEF DrainInv, DrainTypeOK
  <2>3. Timers'
    BY <1>2, <2>1 DEF DrainInv, Timers, closeWith
  <2>4. FlushIsBounded' /\ DrainNotForgotten'
    BY <2>1, Zenon DEF FlushIsBounded, DrainNotForgotten, Open, closeWith
  <2> QED
    BY <2>2, <2>3, <2>4, Zenon DEF DrainInv, DrainIsBounded
<1> QED
  BY <1>1, <1>2, Zenon

(* close() keeps it: nothing is owed any more.                              *)
LEMMA DrainCloseKeeps ==
  ASSUME DrainAssumption, DrainInv,
         NEW code \in {"NO_ERROR", "GOAWAY_TIMEOUT", "PROTOCOL_VIOLATION", "SESSION_CLOSED"},
         closeWith(code), UNCHANGED <<draft18, draining, flushing, control>>,
         received' \in BOOLEAN, unacked' \in 0..MaxWrites,
         expired' = expired \/ (expired' = expired - 1 /\ expired > 0)
  PROVE  DrainInv'
<1>1. DrainTypeOK'
  <2>1. entries' \in 0..MaxOpen /\ pending' \in 0..MaxOpen
    BY DEF closeWith, DrainAssumption
  <2>2. expired' \in 0..2
    BY DEF DrainInv, DrainTypeOK
  <2>3. onIdle' \in BOOLEAN /\ timer' \in {"off", "long", "short"}
    BY Zenon DEF closeWith
  <2> QED
    BY <2>1, <2>2, <2>3, Zenon DEF DrainInv, DrainTypeOK, closeWith
<1>2. Timers'
  BY DEF DrainInv, Timers, DrainTypeOK, closeWith
<1>3. FlushIsBounded' /\ DrainNotForgotten'
  BY Zenon DEF FlushIsBounded, DrainNotForgotten, Open, closeWith
<1> QED
  BY <1>1, <1>2, <1>3, Zenon DEF DrainInv, DrainIsBounded

-----------------------------------------------------------------------------
(* The actions that drain.                                                  *)
LEMMA GoawayKeeps == ASSUME DrainAssumption, DrainInv, goaway \/ drain PROVE DrainInv'
<1>1. CASE goaway /\ entries # 0 /\ draft18 /\ GoawayTimeout
  <2>1. /\ ~draining /\ draining' = TRUE /\ control' = TRUE /\ timer' = "long" /\ entries # 0
        /\ UNCHANGED <<draft18, flushing, onIdle, entries, pending, closeCode, received, unacked,
                       expired>>
    BY <1>1, Zenon DEF goaway
  <2>2. DrainTypeOK' /\ Timers'
    BY <2>1, Zenon DEF DrainInv, DrainTypeOK, Timers
  <2>3. FlushIsBounded' /\ DrainNotForgotten'
    BY <2>1 DEF DrainInv, DrainTypeOK, Timers, FlushIsBounded, DrainNotForgotten, Open
  <2> QED
    BY <2>2, <2>3, Zenon DEF DrainInv, DrainIsBounded
<1>2. CASE goaway /\ ~(entries # 0 /\ draft18 /\ GoawayTimeout)
  BY <1>2, CheckKeeps, Zenon DEF goaway, DrainInv, DrainTypeOK
<1>3. CASE drain
  BY <1>3, CheckKeeps, Zenon DEF drain, DrainInv, DrainTypeOK
<1> QED
  BY <1>1, <1>2, <1>3, Zenon

(* The actions that end a request.                                          *)
LEMMA EndKeeps == ASSUME DrainAssumption, DrainInv, subscribeError \/ requestEnds PROVE DrainInv'
<1>1. CASE subscribeError
  <2>1. pending - 1 \in 0..MaxOpen /\ entries \in 0..MaxOpen
    BY <1>1 DEF subscribeError, DrainInv, DrainTypeOK, DrainAssumption
  <2> QED
    BY <1>1, <2>1, CheckKeeps, Zenon DEF subscribeError, DrainInv, DrainTypeOK
<1>2. CASE requestEnds
  <2>1. entries - 1 \in 0..MaxOpen /\ pending \in 0..MaxOpen
    BY <1>2 DEF requestEnds, DrainInv, DrainTypeOK, DrainAssumption
  <2> QED
    BY <1>2, <2>1, CheckKeeps, Zenon DEF requestEnds, DrainInv, DrainTypeOK
<1> QED
  BY <1>1, <1>2, Zenon

(* The actions of requests and writes that leave the drain alone.           *)
LEMMA WorkKeeps ==
  ASSUME DrainAssumption, DrainInv,
         peerRequest \/ localSubscribe \/ subscribeOk \/ controlWriteLoop \/ dataWrite
  PROVE  DrainInv'
<1>1. /\ UNCHANGED <<draft18, draining, flushing, received, onIdle, timer, expired, closeCode>>
      /\ entries' = entries \/ entries' = entries + 1
      /\ Open
  BY Zenon DEF peerRequest, localSubscribe, subscribeOk, controlWriteLoop, dataWrite
<1>2. /\ entries' \in 0..MaxOpen /\ pending' \in 0..MaxOpen
      /\ unacked' \in 0..MaxWrites
  BY DEF peerRequest, localSubscribe, subscribeOk, controlWriteLoop, dataWrite, DrainInv, DrainTypeOK,
         DrainAssumption
<1>3. control' \in BOOLEAN
  BY Zenon DEF peerRequest, localSubscribe, subscribeOk, controlWriteLoop, dataWrite, DrainInv, DrainTypeOK
<1>4. DrainTypeOK' /\ Timers'
  BY <1>1, <1>2, <1>3, Zenon DEF DrainInv, DrainTypeOK, Timers
<1>5. FlushIsBounded' /\ DrainNotForgotten'
  BY <1>1 DEF DrainInv, DrainTypeOK, DrainIsBounded, FlushIsBounded, DrainNotForgotten, Open
<1> QED
  BY <1>4, <1>5, Zenon DEF DrainInv, DrainIsBounded

(* The timers.                                                              *)
LEMMA TimerKeeps == ASSUME DrainAssumption, DrainInv, timePasses \/ timeoutExpired PROVE DrainInv'
<1>1. CASE timePasses
  <2>1. DrainTypeOK' /\ Timers'
    BY <1>1, Zenon DEF DrainInv, DrainTypeOK, Timers, timePasses
  <2>2. FlushIsBounded' /\ DrainNotForgotten'
    BY <1>1, Zenon DEF DrainInv, DrainIsBounded, FlushIsBounded, DrainNotForgotten, Open, timePasses
  <2> QED
    BY <2>1, <2>2, Zenon DEF DrainInv, DrainIsBounded
<1>2. CASE timeoutExpired
  <2>1. DrainTypeOK' /\ Timers'
    BY <1>2 DEF DrainInv, DrainTypeOK, Timers, timeoutExpired
  <2>2. FlushIsBounded' /\ DrainNotForgotten'
    BY <1>2 DEF DrainInv, DrainTypeOK, DrainIsBounded, FlushIsBounded, DrainNotForgotten, Open,
                timeoutExpired
  <2> QED
    BY <2>1, <2>2, Zenon DEF DrainInv, DrainIsBounded
<1> QED
  BY <1>1, <1>2, Zenon

(* What an expiry does when the executor runs it.                           *)
LEMMA ExpiredKeeps == ASSUME DrainAssumption, DrainInv, onGoawayTimeoutExpired PROVE DrainInv'
<1>1. /\ expired > 0 /\ expired' = expired - 1
      /\ UNCHANGED <<draft18, draining, received, control, unacked>>
  BY Zenon DEF onGoawayTimeoutExpired
<1>2. CASE ~Open
  <2>1. UNCHANGED <<flushing, closeCode, timer, onIdle, entries, pending>>
    BY <1>2, Zenon DEF onGoawayTimeoutExpired
  <2>2. DrainTypeOK' /\ Timers'
    BY <1>1, <2>1 DEF DrainInv, DrainTypeOK, Timers
  <2>3. FlushIsBounded' /\ DrainNotForgotten'
    BY <1>2, <2>1, Zenon DEF FlushIsBounded, DrainNotForgotten, Open
  <2> QED
    BY <2>2, <2>3, Zenon DEF DrainInv, DrainIsBounded
<1>3. CASE Open /\ (flushing \/ entries # 0)
  <2>1. (closeWith("NO_ERROR") \/ closeWith("GOAWAY_TIMEOUT")) /\ UNCHANGED flushing
    BY <1>3, Zenon DEF onGoawayTimeoutExpired
  <2> QED
    BY <1>1, <2>1, DrainCloseKeeps, Zenon DEF DrainInv, DrainTypeOK
<1>4. CASE Open /\ ~flushing /\ entries = 0
  <2>1. checkForCloseOnDrain(draining, entries, pending, control)
    BY <1>4, Zenon DEF onGoawayTimeoutExpired
  <2> QED
    BY <1>1, <1>4, <2>1, CheckKeeps, Zenon DEF DrainInv, DrainTypeOK
<1> QED
  BY <1>2, <1>3, <1>4, Zenon

(* The actions that may close at once.                                      *)
LEMMA EndSessionKeeps ==
  ASSUME DrainAssumption, DrainInv, onGoaway \/ onWriteComplete \/ closeSession PROVE DrainInv'
<1>1. UNCHANGED <<draft18, draining, flushing, control, expired>> /\ Open
  BY Zenon DEF onGoaway, onWriteComplete, closeSession
<1>2. received' \in BOOLEAN
  BY Zenon DEF onGoaway, onWriteComplete, closeSession, DrainInv, DrainTypeOK
<1>3. unacked' \in 0..MaxWrites
  BY DEF onGoaway, onWriteComplete, closeSession, DrainInv, DrainTypeOK, DrainAssumption
<1>4. \/ closeWith("PROTOCOL_VIOLATION") \/ closeWith("NO_ERROR") \/ closeWith("SESSION_CLOSED")
      \/ UNCHANGED <<closeCode, timer, onIdle, entries, pending>>
  BY Zenon DEF onGoaway, onWriteComplete, closeSession
<1>5. CASE UNCHANGED <<closeCode, timer, onIdle, entries, pending>>
  <2>1. DrainTypeOK' /\ Timers'
    BY <1>1, <1>2, <1>3, <1>5, Zenon DEF DrainInv, DrainTypeOK, Timers
  <2>2. FlushIsBounded' /\ DrainNotForgotten'
    BY <1>1, <1>5, Zenon DEF DrainInv, DrainIsBounded, FlushIsBounded, DrainNotForgotten, Open
  <2> QED
    BY <2>1, <2>2, Zenon DEF DrainInv, DrainIsBounded
<1> QED
  BY <1>1, <1>2, <1>3, <1>4, <1>5, DrainCloseKeeps, Zenon

(* Every step keeps the invariant.                                          *)
LEMMA DrainKeeps == ASSUME DrainAssumption, DrainInv, [DrainNext]_drainVars PROVE DrainInv'
<1>1. CASE UNCHANGED drainVars
  BY <1>1 DEF drainVars, DrainInv, DrainTypeOK, Timers, DrainIsBounded, FlushIsBounded, DrainNotForgotten, Open
<1> QED
  BY <1>1, GoawayKeeps, EndKeeps, WorkKeeps, TimerKeeps, ExpiredKeeps, EndSessionKeeps, Zenon DEF DrainNext

-----------------------------------------------------------------------------
(* The invariant holds always.                                              *)
THEOREM DrainInductive == ASSUME DrainAssumption PROVE DrainSpec => []DrainInv
<1>1. DrainInit => DrainInv
  BY DrainStarts, Zenon
<1>2. DrainInv /\ [DrainNext]_drainVars => DrainInv'
  BY DrainKeeps, Zenon
<1> QED
  BY <1>1, <1>2, PTL DEF DrainSpec

(* The members keep their types; no more than two expiries are ever queued. *)
THEOREM DrainTypes == ASSUME DrainAssumption PROVE DrainSpec => []DrainTypeOK
<1>1. DrainInv => DrainTypeOK
  BY Zenon DEF DrainInv
<1> QED
  BY <1>1, DrainInductive, PTL

(* A draining session that is open holds a request or flushes, and a flush  *)
(* has its deadline set or its expiry queued.                               *)
THEOREM DrainCorrect == ASSUME DrainAssumption PROVE DrainSpec => []DrainIsBounded
<1>1. DrainInv => DrainIsBounded
  BY Zenon DEF DrainInv
<1> QED
  BY <1>1, DrainInductive, PTL

(* A step closes with NO_ERROR only when everything was acked, the deadline *)
(* passed or no flush was asked for; and while a session of draft 18 drains *)
(* no step adds a request.                                                  *)
THEOREM DrainSteps ==
  ASSUME DrainAssumption PROVE DrainSpec => [][GracefulClose /\ DrainRefuses]_drainVars
<1>1. DrainInv /\ [DrainNext]_drainVars => [GracefulClose /\ DrainRefuses]_drainVars
  <2> SUFFICES ASSUME DrainInv, DrainNext PROVE GracefulClose /\ DrainRefuses
    BY Zenon
  <2> USE DEF DrainInv, DrainTypeOK
  <2>1. CASE goaway \/ drain
    BY <2>1 DEF goaway, drain, checkForCloseOnDrain, closeWith, egressIdle, GracefulClose, DrainRefuses
  <2>2. CASE onGoaway \/ closeSession
    BY <2>2 DEF onGoaway, closeSession, closeWith, GracefulClose, DrainRefuses
  <2>3. CASE subscribeError
    BY <2>3 DEF subscribeError, checkForCloseOnDrain, closeWith, egressIdle, GracefulClose, DrainRefuses
  <2>4. CASE requestEnds
    BY <2>4 DEF requestEnds, checkForCloseOnDrain, closeWith, egressIdle, GracefulClose, DrainRefuses
  <2>5. CASE peerRequest \/ localSubscribe \/ subscribeOk \/ controlWriteLoop \/ dataWrite
    BY <2>5 DEF peerRequest, localSubscribe, subscribeOk, controlWriteLoop, dataWrite,
                GracefulClose, DrainRefuses
  <2>6. CASE onWriteComplete
    BY <2>6 DEF onWriteComplete, closeWith, egressIdle, GracefulClose, DrainRefuses
  <2>7. CASE timePasses \/ timeoutExpired
    BY <2>7 DEF timePasses, timeoutExpired, GracefulClose, DrainRefuses
  <2>8. CASE onGoawayTimeoutExpired
    <3>1. GracefulClose
      BY <2>8 DEF onGoawayTimeoutExpired, GracefulClose
    <3>2. DrainRefuses
      BY <2>8 DEF onGoawayTimeoutExpired, checkForCloseOnDrain, closeWith, DrainRefuses
    <3> QED
      BY <3>1, <3>2, Zenon
  <2> QED
    BY <2>1, <2>2, <2>3, <2>4, <2>5, <2>6, <2>7, <2>8, Zenon DEF DrainNext
<1> QED
  BY <1>1, DrainInductive, PTL DEF DrainSpec

-----------------------------------------------------------------------------
(* The queue for unidirectional streams.                                   *)

(* An id that was not handed out yet was neither requested nor granted.    *)
Unasked == \A id \in Ids : id >= nextId => calls[id] = <<>> /\ id \notin requests

(* The loops in progress: close() may run in a grant, and only once; a     *)
(* pass of onCredit has consumed its future and still counts as waiting.   *)
Stack ==
  /\ Len(frames) \in {0, 1, 2}
  /\ Len(frames) = 2 => frames[1].loop = "failAll" /\ ~open
  /\ frames # <<>> /\ frames[Len(frames)].loop # "failAll" => waiting /\ waits = <<>>
  /\ inGrant => frames # <<>>

(* waiting_ has a future behind it, except during the pass it woke.        *)
WaitingIsTrue ==
  open /\ waiting /\ (frames = <<>> \/ frames[1].loop = "failAll") => waits # <<>>

(* A closed queue has no requests, unless failAll is about to fail them.   *)
Closing ==
  alive /\ ~open => requests = {} \/ (frames # <<>> /\ frames[1].loop = "failAll")

Grants == GrantedOnce /\ FIFOWithinPriority /\ Unasked
Waits == OneCreditWaiter /\ NoLostWakeup /\ WaitingIsTrue
QueueInv == QueueTypeOK /\ Stack /\ Grants /\ Waits /\ Closing

-----------------------------------------------------------------------------
(* A set of naturals that is not empty has a least element.                *)
LEMMA LeastNatural ==
  ASSUME NEW T \in SUBSET Nat, T # {}
  PROVE  \E x \in T : \A y \in T : x <= y
<1>1. PICK x \in T : \A y \in T : ~ (<<y, x>> \in OpToRel(<, Nat))
  BY NatLessThanWellFounded, WFMin, Zenon
<1>2. \A y \in T : ~(y < x)
  BY <1>1, Zenon DEF OpToRel
<1> QED
  BY <1>2

(* order_ always has a first id: the lowest of the most urgent ones.       *)
LEMMA PeekIsFirst ==
  ASSUME QueueAssumption, QueueTypeOK, requests # {}
  PROVE  /\ peekNextScheduledID \in requests
         /\ \A j \in requests : \/ priority[peekNextScheduledID] < priority[j]
                                \/ /\ priority[peekNextScheduledID] = priority[j]
                                   /\ peekNextScheduledID <= j
<1>1. requests \subseteq Nat /\ \A i \in requests : priority[i] \in Nat
  <2>1. requests \subseteq Ids /\ priority \in [Ids -> Priorities]
    BY Zenon DEF QueueTypeOK
  <2>2. Ids \subseteq Nat /\ Priorities \subseteq Nat
    BY DEF QueueAssumption, Ids
  <2> QED
    BY <2>1, <2>2, Zenon
<1>2. PICK p \in {priority[i] : i \in requests} : \A q \in {priority[i] : i \in requests} : p <= q
  BY <1>1, LeastNatural, Zenon
<1>3. PICK i \in {k \in requests : priority[k] = p} :
        \A j \in {k \in requests : priority[k] = p} : i <= j
  BY <1>1, <1>2, LeastNatural, Zenon
<1>4. \A j \in requests : priority[i] < priority[j] \/ (priority[i] = priority[j] /\ i <= j)
  BY <1>1, <1>2, <1>3
<1> QED
  BY <1>3, <1>4, Zenon DEF peekNextScheduledID

(* The initial state.                                                      *)
LEMMA QueueStarts == ASSUME QueueAssumption PROVE QueueInit => QueueInv
<1> SUFFICES ASSUME QueueInit PROVE QueueInv
  BY Zenon
<1>1. QueueTypeOK
  <2>1. calls \in [Ids -> Seq({"stream", "null"})] /\ waits \in Seq(Wait) /\ frames \in Seq(Frame)
    BY DEF QueueInit
  <2>2. nextId \in 0 .. MaxRequests
    BY DEF QueueInit, QueueAssumption
  <2> QED
    BY <2>1, <2>2, Zenon DEF QueueInit, QueueTypeOK
<1> QED
  BY <1>1 DEF QueueInit, QueueInv, Stack, Grants, Waits, Closing, GrantedOnce, FIFOWithinPriority,
              Unasked, OneCreditWaiter, NoLostWakeup, WaitingIsTrue

-----------------------------------------------------------------------------
(* What the loops and futures have in common: their shapes.                *)
LEMMA Shapes ==
  ASSUME QueueAssumption, QueueTypeOK
  PROVE  /\ Ids \subseteq Nat /\ nextId \in Nat /\ requests \subseteq Ids
         /\ \A i \in DOMAIN frames : frames[i] \in Frame
         /\ Len(frames) \in Nat /\ Len(waits) \in Nat
         /\ frames = <<>> <=> Len(frames) = 0
         /\ waits = <<>> <=> Len(waits) = 0
         /\ \A id \in Ids : /\ calls[id] \in Seq({"stream", "null"})
                            /\ Len(calls[id]) \in Nat
                            /\ calls[id] = <<>> <=> Len(calls[id]) = 0
         /\ \A id \in Ids : priority[id] \in Nat
<1>1. Ids \subseteq Nat /\ nextId \in Nat /\ requests \subseteq Ids
  BY DEF QueueTypeOK, Ids, QueueAssumption
<1>2. frames \in Seq(Frame) /\ waits \in Seq(Wait)
  BY Zenon DEF QueueTypeOK
<1>3. /\ \A i \in DOMAIN frames : frames[i] \in Frame
      /\ Len(frames) \in Nat /\ Len(waits) \in Nat
      /\ frames = <<>> <=> Len(frames) = 0
      /\ waits = <<>> <=> Len(waits) = 0
  BY <1>2, EmptySeq, ElementOfSeq
<1>4. \A id \in Ids : calls[id] \in Seq({"stream", "null"})
  BY Zenon DEF QueueTypeOK
<1>5. \A id \in Ids : Len(calls[id]) \in Nat /\ (calls[id] = <<>> <=> Len(calls[id]) = 0)
  BY <1>4, EmptySeq
<1>6. \A id \in Ids : priority[id] \in Nat
  BY Zenon DEF QueueTypeOK, QueueAssumption
<1> QED
  BY <1>1, <1>3, <1>4, <1>5, <1>6, Zenon

(* A grant is taken from the front of order_ and called once.              *)
LEMMA GrantKeeps ==
  ASSUME QueueAssumption, QueueTypeOK, Grants, requests # {},
         NEW handle \in {"stream", "null"}, grantFirst(handle), UNCHANGED <<nextId, priority>>
  PROVE  Grants' /\ requests' \subseteq requests /\ calls' \in [Ids -> Seq({"stream", "null"})]
<1> DEFINE id == peekNextScheduledID
<1>1. /\ id \in requests
      /\ \A j \in requests : priority[id] < priority[j] \/ (priority[id] = priority[j] /\ id <= j)
  BY PeekIsFirst, Zenon
<1> HIDE DEF id
<1>2. /\ requests' = requests \ {id}
      /\ calls' = [calls EXCEPT ![id] = Append(@, handle)]
  BY Zenon DEF grantFirst, id
<1>3. requests \subseteq Ids /\ Ids \subseteq Nat /\ nextId \in Nat
  BY Shapes, Zenon
<1>4. calls \in [Ids -> Seq({"stream", "null"})]
  BY Zenon DEF QueueTypeOK
<1>5. calls[id] = <<>>
  BY <1>1, <1>3, Zenon DEF Grants, GrantedOnce
<1>6. \A k \in Ids : calls'[k] = IF k = id THEN <<handle>> ELSE calls[k]
  BY <1>2, <1>4, <1>5
<1>7. calls' \in [Ids -> Seq({"stream", "null"})]
  <2>1. \A k \in Ids : calls'[k] \in Seq({"stream", "null"})
    <3>1. <<handle>> \in Seq({"stream", "null"})
      OBVIOUS
    <3>2. \A k \in Ids : calls[k] \in Seq({"stream", "null"})
      BY <1>4, Zenon
    <3> QED
      BY <3>1, <3>2, <1>6, Zenon
  <2>2. calls' = [k \in Ids |-> calls'[k]]
    BY <1>2, <1>4, Zenon
  <2> QED
    BY <2>1, <2>2, Zenon
<1>8. GrantedOnce'
  <2> SUFFICES ASSUME NEW k \in Ids
               PROVE  Len(calls'[k]) <= 1 /\ (k \in requests' => calls'[k] = <<>>)
    BY Zenon DEF GrantedOnce
  <2>1. CASE k = id
    <3>1. calls'[k] = <<handle>> /\ k \notin requests'
      BY <2>1, <1>2, <1>6, Zenon
    <3>2. Len(<<handle>>) <= 1
      OBVIOUS
    <3> QED
      BY <3>1, <3>2, Zenon
  <2>2. CASE k # id
    BY <2>2, <1>2, <1>6, Zenon DEF Grants, GrantedOnce
  <2> QED
    BY <2>1, <2>2, Zenon
<1>9. FIFOWithinPriority'
  <2> SUFFICES ASSUME NEW i \in Ids, NEW j \in Ids, i < j, priority[i] = priority[j],
                      calls'[j] # <<>>, i \in requests'
               PROVE  FALSE
    BY Zenon DEF FIFOWithinPriority
  <2>1. CASE j = id
    BY <2>1, <1>1, <1>2, <1>3, Shapes
  <2>2. CASE j # id
    BY <2>2, <1>2, <1>6, Zenon DEF Grants, FIFOWithinPriority
  <2> QED
    BY <2>1, <2>2, Zenon
<1>10. Unasked'
  BY <1>1, <1>2, <1>3, <1>6, Zenon DEF Grants, Unasked
<1> QED
  BY <1>2, <1>7, <1>8, <1>9, <1>10, Zenon DEF Grants

(* waitForCredit takes out a future only when there is none.               *)
LEMMA WaitKeeps ==
  ASSUME QueueAssumption, QueueTypeOK, NEW w \in BOOLEAN, NEW left, NEW o \in BOOLEAN,
         waits # <<>> => w, Len(waits) <= 1, waitForCredit(w, left, o)
  PROVE  /\ waiting' \in BOOLEAN /\ waits' \in Seq(Wait) /\ OneCreditWaiter'
         /\ o /\ left # {} => waiting'
         /\ waiting' /\ ~w => waits' # <<>>
         /\ waits # <<>> => waits' # <<>>
         /\ w => waits' = waits
<1>1. waits \in Seq(Wait) /\ credit \in Nat
  BY DEF QueueTypeOK, QueueAssumption
<1>2. CASE w \/ left = {} \/ ~o
  BY <1>1, <1>2, Zenon DEF waitForCredit, OneCreditWaiter
<1>3. CASE ~(w \/ left = {} \/ ~o)
  <2>1. waits = <<>>
    BY <1>3, Zenon
  <2>2. waits' = Append(waits, [wasReady |-> credit > 0, resolved |-> credit > 0]) /\ waiting' = TRUE
    BY <1>3, Zenon DEF waitForCredit
  <2>3. [wasReady |-> credit > 0, resolved |-> credit > 0] \in Wait
    BY <1>1 DEF Wait
  <2>4. waits' \in Seq(Wait) /\ Len(waits') = 1 /\ waits' # <<>>
    BY <1>1, <2>1, <2>2, <2>3
  <2> QED
    BY <1>3, <2>1, <2>2, <2>4 DEF OneCreditWaiter
<1> QED
  BY <1>2, <1>3, Zenon

-----------------------------------------------------------------------------
(* The calls of the application.                                           *)
LEMMA QueueRequestKeeps == ASSUME QueueAssumption, QueueInv, request PROVE QueueInv'
<1>1. /\ open /\ nextId \in Ids /\ nextId' = nextId + 1 /\ requests' = requests \cup {nextId}
      /\ waitForCredit(waiting, requests', open)
      /\ UNCHANGED <<open, alive, priority, frames, inGrant, calls, credit>>
  <2>1. nextId \in Ids
    <3>1. nextId < MaxRequests /\ MaxRequests \in Nat /\ nextId \in 0 .. MaxRequests
      BY Zenon DEF request, QueueInv, QueueTypeOK, QueueAssumption
    <3> QED
      BY <3>1 DEF Ids
  <2> QED
    BY <2>1, Zenon DEF request
<1>2. /\ waiting' \in BOOLEAN /\ waits' \in Seq(Wait) /\ OneCreditWaiter' /\ waiting'
      /\ ~waiting => waits' # <<>>
      /\ waits # <<>> => waits' # <<>>
      /\ waiting => waits' = waits
  <2>1. waiting \in BOOLEAN /\ open \in BOOLEAN /\ requests' # {} /\ Len(waits) <= 1 /\ (waits # <<>> => waiting)
    BY <1>1, Zenon DEF QueueInv, QueueTypeOK, Waits, OneCreditWaiter
  <2> QED
    BY <1>1, <2>1, WaitKeeps, Zenon DEF QueueInv
<1>3. QueueTypeOK'
  <2>1. requests' \subseteq Ids /\ nextId' \in 0 .. MaxRequests
    BY <1>1, Shapes DEF QueueInv, QueueTypeOK, Ids, QueueAssumption
  <2> QED
    BY <1>1, <1>2, <2>1, Zenon DEF QueueInv, QueueTypeOK
<1>4. Stack'
  BY <1>1, <1>2, Zenon DEF QueueInv, Stack
<1>5. Grants'
  <2>1. GrantedOnce'
    BY <1>1, Shapes DEF QueueInv, Grants, GrantedOnce, Unasked
  <2>2. FIFOWithinPriority'
    BY <1>1, Shapes DEF QueueInv, Grants, FIFOWithinPriority, Unasked
  <2>3. Unasked'
    BY <1>1, Shapes DEF QueueInv, Grants, Unasked
  <2> QED
    BY <2>1, <2>2, <2>3, Zenon DEF Grants
<1>6. Waits'
  BY <1>1, <1>2, Zenon DEF QueueInv, Waits, NoLostWakeup, WaitingIsTrue
<1>7. Closing'
  BY <1>1, Zenon DEF Closing
<1> QED
  BY <1>3, <1>4, <1>5, <1>6, <1>7, Zenon DEF QueueInv

LEMMA QueueCancelKeeps ==
  ASSUME QueueAssumption, QueueInv, NEW id \in Ids, cancel(id) PROVE QueueInv'
<1>1. /\ requests' = requests \ {id}
      /\ UNCHANGED <<open, alive, nextId, priority, waiting, waits, frames, inGrant, calls, credit>>
  BY Zenon DEF cancel
<1>2. QueueTypeOK'
  BY <1>1, Zenon DEF QueueInv, QueueTypeOK
<1>3. Grants'
  BY <1>1, Zenon DEF QueueInv, Grants, GrantedOnce, FIFOWithinPriority, Unasked
<1> QED
  BY <1>1, <1>2, <1>3, Zenon DEF QueueInv, Stack, Waits, OneCreditWaiter, NoLostWakeup, WaitingIsTrue, Closing

(* close() runs alone or in a grant of the only loop there is.             *)
LEMMA QueueCloseKeeps == ASSUME QueueAssumption, QueueInv, close PROVE QueueInv'
<1> DEFINE f == [loop |-> "failAll", wasReady |-> FALSE]
<1>1. /\ open /\ open' = FALSE /\ frames' = <<f>> \o frames /\ inGrant' = FALSE
      /\ UNCHANGED <<alive, nextId, requests, priority, waiting, waits, calls, credit>>
  BY Zenon DEF close
<1>2. f \in Frame /\ frames \in Seq(Frame) /\ Len(frames) \in {0, 1}
  <2>1. f \in Frame
    BY Zenon DEF Frame
  <2>2. frames \in Seq(Frame)
    BY Zenon DEF QueueInv, QueueTypeOK
  <2>3. Len(frames) \in {0, 1, 2} /\ Len(frames) # 2
    BY <1>1, Zenon DEF QueueInv, Stack
  <2> QED
    BY <2>1, <2>2, <2>3, Zenon
<1> HIDE DEF f
<1>3. /\ frames' \in Seq(Frame) /\ Len(frames') = Len(frames) + 1 /\ frames'[1] = f
      /\ Len(frames) = 1 => frames'[2] = frames[1]
  <2>1. <<f>> \in Seq(Frame) /\ Len(<<f>>) = 1 /\ <<f>>[1] = f
    BY <1>2
  <2>2. /\ <<f>> \o frames \in Seq(Frame) /\ Len(<<f>> \o frames) = 1 + Len(frames)
        /\ \A i \in 1 .. 1 + Len(frames) :
             (<<f>> \o frames)[i] = IF i <= 1 THEN <<f>>[i] ELSE frames[i - 1]
    BY <1>2, <2>1, ConcatProperties
  <2> QED
    BY <1>1, <1>2, <2>1, <2>2
<1>4. frames' # <<>> /\ frames'[1].loop = "failAll"
  BY <1>2, <1>3 DEF f
<1>5. QueueTypeOK'
  BY <1>1, <1>3, Zenon DEF QueueInv, QueueTypeOK
<1>6. Stack'
  <2>1. Len(frames') \in {0, 1, 2} /\ (Len(frames') = 2 => frames'[1].loop = "failAll" /\ ~open')
    BY <1>1, <1>2, <1>3, <1>4
  <2>2. ASSUME frames'[Len(frames')].loop # "failAll" PROVE waiting /\ waits = <<>>
    <3>1. Len(frames) = 1 /\ frames'[Len(frames')] = frames[1]
      <4>1. CASE Len(frames) = 0
        BY <2>2, <4>1, <1>3, <1>4
      <4>2. CASE Len(frames) = 1
        BY <4>2, <1>3
      <4>3. Len(frames) = 0 \/ Len(frames) = 1
        BY <1>2, Zenon
      <4> QED
        BY <4>1, <4>2, <4>3, Zenon
    <3> QED
      BY <2>2, <3>1, Shapes, Zenon DEF QueueInv, Stack
  <2> QED
    BY <1>1, <1>4, <2>1, <2>2, Zenon DEF Stack
<1>7. Grants'
  BY <1>1, Zenon DEF QueueInv, Grants, GrantedOnce, FIFOWithinPriority, Unasked
<1> QED
  BY <1>1, <1>4, <1>5, <1>6, <1>7, Zenon
     DEF QueueInv, Waits, OneCreditWaiter, NoLostWakeup, WaitingIsTrue, Closing

LEMMA DestroyKeeps == ASSUME QueueInv, Destroy PROVE QueueInv'
<1>1. /\ alive' = FALSE
      /\ UNCHANGED <<open, nextId, requests, priority, waiting, waits, frames, inGrant, calls, credit>>
  BY Zenon DEF Destroy
<1>2. QueueTypeOK'
  BY <1>1, Zenon DEF QueueInv, QueueTypeOK
<1> QED
  BY <1>1, <1>2, Zenon DEF QueueInv, Stack, Grants, GrantedOnce, FIFOWithinPriority, Unasked,
                    Waits, OneCreditWaiter, NoLostWakeup, WaitingIsTrue, Closing

-----------------------------------------------------------------------------
(* The loops.                                                              *)

(* A future comes back: its pass starts, or there is nothing left to do.   *)
LEMMA OnCreditKeeps ==
  ASSUME QueueAssumption, QueueInv, NEW ok \in BOOLEAN, onCredit(ok) PROVE QueueInv'
<1>1. /\ alive /\ frames = <<>> /\ waits # <<>> /\ waits' = Tail(waits)
      /\ UNCHANGED <<open, alive, nextId, requests, priority, inGrant, calls, credit>>
  BY Zenon DEF onCredit
<1>2. waits \in Seq(Wait) /\ Len(waits) <= 1 /\ waits[1] \in Wait
  BY <1>1 DEF QueueInv, QueueTypeOK, Waits, OneCreditWaiter
<1>3. waits' \in Seq(Wait) /\ waits' = <<>>
  BY <1>1, <1>2
<1>4. ~inGrant
  BY <1>1, Zenon DEF QueueInv, Stack
<1>5. Grants'
  BY <1>1, Zenon DEF QueueInv, Grants, GrantedOnce, FIFOWithinPriority, Unasked
<1>6. Len(<<>>) = 0 /\ Len(<<>>) <= 1
  OBVIOUS
<1>7. CASE ~open
  <2>1. waiting' = FALSE /\ frames' = frames
    BY <1>7, Zenon DEF onCredit
  <2>2. QueueTypeOK'
    BY <1>1, <1>3, <2>1, Zenon DEF QueueInv, QueueTypeOK
  <2>3. Waits'
    BY <1>1, <1>3, <1>6, <1>7, <2>1, Zenon DEF Waits, OneCreditWaiter, NoLostWakeup, WaitingIsTrue
  <2>4. Stack' /\ Closing'
    BY <1>1, <1>4, <1>6, <2>1, Zenon DEF QueueInv, Stack, Closing
  <2> QED
    BY <1>5, <2>2, <2>3, <2>4, Zenon DEF QueueInv
<1>8. CASE open
  <2> DEFINE f == [loop |-> IF ok THEN "onCredit" ELSE "failAll", wasReady |-> waits[1].wasReady]
  <2>1. waiting' = ok /\ frames' = <<f>>
    BY <1>8, Zenon DEF onCredit
  <2>2. f \in Frame /\ f.loop = IF ok THEN "onCredit" ELSE "failAll"
    BY <1>2, Zenon DEF Frame, Wait
  <2> HIDE DEF f
  <2>3. frames' \in Seq(Frame) /\ frames' # <<>> /\ Len(frames') = 1 /\ frames'[1] = f
    BY <2>1, <2>2
  <2>4. QueueTypeOK'
    BY <1>1, <1>3, <2>1, <2>3, Zenon DEF QueueInv, QueueTypeOK
  <2>5. Waits'
    <3>1. OneCreditWaiter'
      BY <1>3, <1>6, Zenon DEF OneCreditWaiter
    <3>2. NoLostWakeup'
      BY <2>3, Zenon DEF NoLostWakeup
    <3>3. WaitingIsTrue'
      BY <2>1, <2>2, <2>3, Zenon DEF WaitingIsTrue
    <3> QED
      BY <3>1, <3>2, <3>3, Zenon DEF Waits
  <2>6. Stack'
    <3>1. ASSUME frames'[Len(frames')].loop # "failAll" PROVE waiting'
      BY <3>1, <2>1, <2>2, <2>3, Zenon
    <3> QED
      BY <1>3, <2>3, <3>1 DEF Stack
  <2>7. Closing'
    BY <1>1, <1>8, Zenon DEF Closing
  <2> QED
    BY <1>5, <2>4, <2>5, <2>6, <2>7, Zenon DEF QueueInv
<1>9. open \in BOOLEAN
  BY Zenon DEF QueueInv, QueueTypeOK
<1> QED
  BY <1>7, <1>8, <1>9, Zenon

(* The frame on top, when it is popped.                                    *)
LEMMA PopShapes ==
  ASSUME QueueAssumption, QueueInv, frames # <<>>, PopFrame
  PROVE  /\ frames' \in Seq(Frame) /\ inGrant' \in BOOLEAN
         /\ inGrant' => frames' # <<>>
         /\ \/ Len(frames) = 1 /\ frames' = <<>> /\ Len(frames') = 0
            \/ /\ Len(frames) = 2 /\ Len(frames') = 1 /\ frames' # <<>>
               /\ frames'[1] = frames[2] /\ frames[1].loop = "failAll" /\ ~open
<1>1. frames \in Seq(Frame) /\ Len(frames) \in {1, 2}
  BY Shapes, Zenon DEF QueueInv, QueueTypeOK, Stack
<1>2. frames' = Tail(frames) /\ inGrant' = (frames' # <<>>)
  BY Zenon DEF PopFrame
<1>3. /\ frames' \in Seq(Frame) /\ Len(frames') = Len(frames) - 1
      /\ \A i \in 1 .. Len(frames') : frames'[i] = frames[i + 1]
      /\ frames' = <<>> <=> Len(frames') = 0
  <2>1. /\ Tail(frames) \in Seq(Frame) /\ Len(Tail(frames)) = Len(frames) - 1
        /\ \A i \in 1 .. Len(Tail(frames)) : Tail(frames)[i] = frames[i + 1]
    BY <1>1, HeadTailProperties, Zenon
  <2> QED
    BY <1>2, <2>1, EmptySeq, Zenon
<1>4. CASE Len(frames) = 1
  <2>1. Len(frames') = 0
    BY <1>4, <1>3
  <2> QED
    BY <1>2, <1>4, <1>3, <2>1, Zenon
<1>5. CASE Len(frames) = 2
  <2>1. frames' \in Seq(Frame) /\ Len(frames') = 1 /\ frames' # <<>> /\ frames'[1] = frames[2]
    BY <1>3, <1>5
  <2>2. frames[1].loop = "failAll" /\ ~open
    BY <1>5, Zenon DEF QueueInv, Stack
  <2> QED
    BY <1>2, <1>5, <2>1, <2>2, Zenon
<1> QED
  BY <1>1, <1>4, <1>5, Zenon

LEMMA FailAllKeeps == ASSUME QueueAssumption, QueueInv, failAll PROVE QueueInv'
<1>1. /\ alive /\ frames # <<>> /\ frames[1].loop = "failAll"
      /\ UNCHANGED <<open, alive, nextId, priority, waiting, waits, credit>>
  BY Zenon DEF failAll, InLoop
<1>2. CASE requests # {} /\ grantFirst("null") /\ UNCHANGED frames
  <2>1. Grants' /\ requests' \subseteq requests /\ calls' \in [Ids -> Seq({"stream", "null"})]
    BY <1>1, <1>2, GrantKeeps, Zenon DEF QueueInv
  <2>2. inGrant' = TRUE
    BY <1>2, Zenon DEF grantFirst
  <2>3. QueueTypeOK'
    BY <1>1, <1>2, <2>1, <2>2, Zenon DEF QueueInv, QueueTypeOK
  <2>4. Stack' /\ Closing'
    BY <1>1, <1>2, <2>2, Zenon DEF QueueInv, Stack, Closing
  <2>5. Waits'
    BY <1>1, <1>2, Zenon DEF QueueInv, Waits, OneCreditWaiter, NoLostWakeup, WaitingIsTrue
  <2> QED
    BY <2>1, <2>3, <2>4, <2>5, Zenon DEF QueueInv
<1>3. CASE requests = {} /\ PopFrame /\ UNCHANGED <<requests, calls>>
  <2>1. /\ frames' \in Seq(Frame) /\ inGrant' \in BOOLEAN
        /\ inGrant' => frames' # <<>>
        /\ \/ Len(frames) = 1 /\ frames' = <<>> /\ Len(frames') = 0
           \/ /\ Len(frames) = 2 /\ Len(frames') = 1 /\ frames' # <<>>
              /\ frames'[1] = frames[2] /\ ~open
    BY <1>1, <1>3, PopShapes, Zenon
  <2>2. QueueTypeOK'
    BY <1>1, <1>3, <2>1, Zenon DEF QueueInv, QueueTypeOK
  <2>3. Grants'
    BY <1>1, <1>3, Zenon DEF QueueInv, Grants, GrantedOnce, FIFOWithinPriority, Unasked
  <2>4. Stack'
    BY <1>1, <2>1 DEF QueueInv, Stack
  <2>5. Waits'
    BY <1>1, <1>3, <2>1, Zenon DEF QueueInv, Waits, OneCreditWaiter, NoLostWakeup, WaitingIsTrue
  <2>6. Closing'
    BY <1>3, Zenon DEF Closing
  <2> QED
    BY <2>2, <2>3, <2>4, <2>5, <2>6, Zenon DEF QueueInv
<1> QED
  BY <1>2, <1>3, Zenon DEF failAll

(* onCredit gives a stream to the first request.                           *)
LEMMA OnCreditGrantKeeps == ASSUME QueueAssumption, QueueInv, onCreditGrant PROVE QueueInv'
<1>1. /\ alive /\ open /\ frames # <<>> /\ requests # {} /\ frames[1].loop = "onCredit"
      /\ credit > 0 /\ credit' = credit - 1 /\ grantFirst("stream")
      /\ UNCHANGED <<open, alive, nextId, priority, waiting, waits, frames>>
  BY Zenon DEF onCreditGrant, InLoop
<1>2. Grants' /\ requests' \subseteq requests /\ calls' \in [Ids -> Seq({"stream", "null"})]
  BY <1>1, GrantKeeps, Zenon DEF QueueInv
<1>3. inGrant' = TRUE
  BY <1>1, Zenon DEF grantFirst
<1>4. credit' \in 0 .. MaxCredit
  BY <1>1 DEF QueueInv, QueueTypeOK, QueueAssumption
<1>5. QueueTypeOK'
  BY <1>1, <1>2, <1>3, <1>4, Zenon DEF QueueInv, QueueTypeOK
<1>6. Stack' /\ Closing'
  BY <1>1, <1>3, Zenon DEF QueueInv, Stack, Closing
<1>7. Waits'
  BY <1>1, Zenon DEF QueueInv, Waits, OneCreditWaiter, NoLostWakeup, WaitingIsTrue
<1> QED
  BY <1>2, <1>5, <1>6, <1>7, Zenon DEF QueueInv

(* No stream although credit was reported: the first request fails.        *)
LEMMA OnCreditUnusableKeeps == ASSUME QueueAssumption, QueueInv, onCreditUnusable PROVE QueueInv'
<1>1. /\ alive /\ open /\ frames # <<>> /\ requests # {} /\ frames[1].loop = "onCredit"
      /\ grantFirst("null") /\ frames' = [frames EXCEPT ![1].loop = "leaving"]
      /\ UNCHANGED <<open, alive, nextId, priority, waiting, waits, credit>>
  BY Zenon DEF onCreditUnusable, InLoop
<1>2. Grants' /\ requests' \subseteq requests /\ calls' \in [Ids -> Seq({"stream", "null"})]
  BY <1>1, GrantKeeps, Zenon DEF QueueInv
<1>3. inGrant' = TRUE
  BY <1>1, Zenon DEF grantFirst
<1>4. frames \in Seq(Frame) /\ Len(frames) = 1 /\ frames[1] \in Frame
  <2>1. frames \in Seq(Frame) /\ Len(frames) # 0 /\ Len(frames) \in {0, 1, 2} /\ Len(frames) # 2
    BY <1>1, Shapes, Zenon DEF QueueInv, QueueTypeOK, Stack
  <2>2. Len(frames) = 1
    BY <2>1, Zenon
  <2> QED
    BY <2>1, <2>2, Shapes DEF QueueInv
<1>5. /\ frames' \in Seq(Frame) /\ Len(frames') = 1 /\ frames' # <<>>
      /\ frames'[1] = [frames[1] EXCEPT !.loop = "leaving"]
      /\ frames'[1].loop = "leaving"
  <2>1. [frames[1] EXCEPT !.loop = "leaving"] \in Frame
    BY <1>4, Zenon DEF Frame
  <2>2. [frames[1] EXCEPT !.loop = "leaving"].loop = "leaving"
    BY <1>4, Zenon DEF Frame
  <2>3. frames' = [frames EXCEPT ![1] = [frames[1] EXCEPT !.loop = "leaving"]]
    BY <1>1, Zenon
  <2>4. frames' \in Seq(Frame) /\ Len(frames') = Len(frames) /\ frames'[1] = [frames[1] EXCEPT !.loop = "leaving"]
    BY <1>4, <2>1, <2>3, ExceptSeq
  <2> QED
    BY <1>4, <2>2, <2>4
<1>6. waiting /\ waits = <<>>
  BY <1>1, <1>4, Zenon DEF QueueInv, Stack
<1>7. QueueTypeOK'
  BY <1>1, <1>2, <1>3, <1>5, Zenon DEF QueueInv, QueueTypeOK
<1>8. Stack'
  BY <1>1, <1>3, <1>5, <1>6 DEF Stack
<1>9. Waits'
  BY <1>1, <1>5, <1>6, Zenon DEF QueueInv, Waits, OneCreditWaiter, NoLostWakeup, WaitingIsTrue
<1>10. Closing'
  BY <1>1, Zenon DEF Closing
<1> QED
  BY <1>2, <1>7, <1>8, <1>9, <1>10, Zenon DEF QueueInv

(* The pass ends and waits again for what is left.                         *)
LEMMA OnCreditEndKeeps == ASSUME QueueAssumption, QueueInv, onCreditEnd PROVE QueueInv'
<1>1. /\ alive /\ frames # <<>> /\ frames[1].loop # "failAll" /\ PopFrame
      /\ waitForCredit(FALSE, requests, open)
      /\ UNCHANGED <<open, alive, nextId, requests, priority, calls, credit>>
  BY Zenon DEF onCreditEnd, InLoop
<1>2. /\ frames' \in Seq(Frame) /\ inGrant' \in BOOLEAN /\ (inGrant' => frames' # <<>>)
      /\ Len(frames) = 1 /\ frames' = <<>> /\ Len(frames') = 0
  BY <1>1, PopShapes, Zenon
<1>3. waits = <<>> /\ Len(waits) <= 1
  BY <1>1, <1>2, Zenon DEF QueueInv, Stack, Waits, OneCreditWaiter
<1>4. /\ waiting' \in BOOLEAN /\ waits' \in Seq(Wait) /\ OneCreditWaiter'
      /\ open /\ requests # {} => waiting'
      /\ waiting' => waits' # <<>>
  <2>1. open \in BOOLEAN
    BY Zenon DEF QueueInv, QueueTypeOK
  <2> QED
    BY <1>1, <1>3, <2>1, WaitKeeps, Zenon DEF QueueInv
<1>5. QueueTypeOK'
  BY <1>1, <1>2, <1>4, Zenon DEF QueueInv, QueueTypeOK
<1>6. Stack'
  BY <1>2 DEF Stack
<1>7. Grants'
  BY <1>1, Zenon DEF QueueInv, Grants, GrantedOnce, FIFOWithinPriority, Unasked
<1>8. Waits'
  BY <1>1, <1>4, Zenon DEF Waits, NoLostWakeup, WaitingIsTrue
<1>9. Closing'
  BY <1>1, Zenon DEF QueueInv, Closing
<1> QED
  BY <1>5, <1>6, <1>7, <1>8, <1>9, Zenon DEF QueueInv

(* The transport's credit changes.                                         *)
LEMMA CreditKeeps ==
  ASSUME QueueAssumption, QueueInv, CreditArrives \/ CreditSpent PROVE QueueInv'
<1>1. UNCHANGED <<open, alive, nextId, requests, priority, waiting, frames, inGrant, calls>>
  BY Zenon DEF CreditArrives, CreditSpent
<1>2. credit' \in 0 .. MaxCredit
  BY DEF CreditArrives, CreditSpent, QueueInv, QueueTypeOK, QueueAssumption
<1>3. waits' \in Seq(Wait) /\ Len(waits') = Len(waits) /\ (waits' = <<>> <=> waits = <<>>)
  <2>1. waits \in Seq(Wait)
    BY Zenon DEF QueueInv, QueueTypeOK
  <2>2. CASE CreditArrives
    <3> DEFINE n == Len(waits)
               w == [i \in 1 .. n |-> [waits[i] EXCEPT !.resolved = TRUE]]
    <3>1. waits' = w /\ n \in Nat
      BY <2>1, <2>2 DEF CreditArrives
    <3>2. \A i \in 1 .. n : waits[i] \in Wait
      BY <2>1
    <3>3. \A i \in 1 .. n : [waits[i] EXCEPT !.resolved = TRUE] \in Wait
      BY <3>2, Zenon DEF Wait
    <3>4. w \in [1 .. n -> Wait]
      BY <3>3, Zenon
    <3>5. w \in Seq(Wait) /\ Len(w) = n
      BY <3>1, <3>4, IsASeq, LenProperties
    <3> QED
      BY <2>1, <3>1, <3>5, EmptySeq, Zenon
  <2>3. CASE CreditSpent
    BY <2>1, <2>3, Zenon DEF CreditSpent
  <2> QED
    BY <2>2, <2>3, Zenon
<1>4. QueueTypeOK'
  BY <1>1, <1>2, <1>3, Zenon DEF QueueInv, QueueTypeOK
<1> QED
  BY <1>1, <1>3, <1>4, Zenon DEF QueueInv, Stack, Grants, GrantedOnce, FIFOWithinPriority, Unasked,
                          Waits, OneCreditWaiter, NoLostWakeup, WaitingIsTrue, Closing

-----------------------------------------------------------------------------
(* Every step keeps the invariant.                                         *)
LEMMA QueueKeeps == ASSUME QueueAssumption, QueueInv, [QueueNext]_queueVars PROVE QueueInv'
<1>1. CASE request
  BY <1>1, QueueRequestKeeps, Zenon
<1>2. CASE close
  BY <1>2, QueueCloseKeeps, Zenon
<1>3. CASE Destroy
  BY <1>3, DestroyKeeps, Zenon
<1>4. CASE \E id \in Ids : cancel(id)
  BY <1>4, QueueCancelKeeps, Zenon
<1>5. CASE \E ok \in BOOLEAN : onCredit(ok)
  BY <1>5, OnCreditKeeps, Zenon
<1>6. CASE Loop
  BY <1>6, FailAllKeeps, OnCreditGrantKeeps, OnCreditUnusableKeeps, OnCreditEndKeeps, Zenon DEF Loop
<1>7. CASE CreditArrives \/ CreditSpent
  BY <1>7, CreditKeeps, Zenon
<1>8. CASE UNCHANGED queueVars
  <2>1. QueueTypeOK' /\ Stack' /\ Closing'
    BY <1>8, Zenon DEF QueueInv, QueueTypeOK, Stack, Closing, queueVars
  <2>2. Grants' /\ Waits'
    BY <1>8, Zenon DEF QueueInv, Grants, GrantedOnce, FIFOWithinPriority, Unasked, Waits,
                OneCreditWaiter, NoLostWakeup, WaitingIsTrue, queueVars
  <2> QED
    BY <2>1, <2>2, Zenon DEF QueueInv
<1> QED
  BY <1>1, <1>2, <1>3, <1>4, <1>5, <1>6, <1>7, <1>8, Zenon DEF QueueNext

(* The invariant holds always, whatever the priorities and the bounds.     *)
THEOREM QueueInductive == ASSUME QueueAssumption PROVE QueueSpec => []QueueInv
<1>1. QueueInit => QueueInv
  BY QueueStarts, Zenon
<1>2. QueueInv /\ [QueueNext]_queueVars => QueueInv'
  BY QueueKeeps, Zenon
<1> QED
  BY <1>1, <1>2, PTL DEF QueueSpec

(* The members of UniStreamQueue keep their types.                         *)
THEOREM QueueTypes == ASSUME QueueAssumption PROVE QueueSpec => []QueueTypeOK
<1>1. QueueInv => QueueTypeOK
  BY Zenon DEF QueueInv
<1> QED
  BY <1>1, QueueInductive, PTL

(* Requests for streams are served: one credit waiter, never a lost        *)
(* wakeup, every grant called once and in order, nothing left by close().  *)
THEOREM QueueCorrect == ASSUME QueueAssumption PROVE QueueSpec => []QueueServes
<1>1. QueueInv => QueueServes
  <2> SUFFICES ASSUME QueueInv PROVE QueueServes
    BY Zenon
  <2>1. CloseFailsAll
    BY Zenon DEF QueueInv, Closing, CloseFailsAll
  <2> QED
    BY <2>1, Zenon DEF QueueInv, Grants, Waits, QueueServes
<1> QED
  BY <1>1, QueueInductive, PTL
-----------------------------------------------------------------------------
(* The handoff from one upstream session to the next.                      *)

(* The two high-water marks are the highest groups old opened and the      *)
(* replacement had refused, and neither is owned by the replacement.       *)
Marks ==
  /\ highestOldGroup \in fromOld \cup {None}
  /\ \A g \in fromOld : g <= highestOldGroup
  /\ replacementIncompleteGroup \in turnedAway \cup {None}
  /\ \A g \in turnedAway : g <= replacementIncompleteGroup
  /\ ~ownedByReplacement(ownership, highestOldGroup)
  /\ ~ownedByReplacement(ownership, replacementIncompleteGroup)

(* What was accepted from the replacement is owned by it, and ownership    *)
(* after old's end has the bounds computed from the marks.                 *)
Owned ==
  /\ ownership # NoSplit => ownership.replacementFirstGroup >= 0
  /\ \A g \in fromReplacement : ownedByReplacement(ownership, g)
  /\ oldEnded /\ ownership # NoSplit => ownership = splitAfterOldEnded

(* Old has only groups open that were accepted from it.                    *)
OldOpen ==
  /\ \A id \in oldOpenSubgroups : id[1] \in fromOld
  /\ oldDatagramGroup.open => oldDatagramGroup.group \in fromOld
  /\ replacementDelivering => fromReplacement # {}

IInv == TypeOK /\ Marks /\ Owned /\ OldOpen
(* The part of the type invariant that admit can change, and the rest.     *)
AdmissionTypes ==
  /\ highestOldGroup \in Optional
  /\ split \in [replacementFirstGroup : Optional, oldLastGroup : Optional]
  /\ ownership \in [replacementFirstGroup : Optional \cup {0}, oldLastGroup : Optional]
  /\ replacementIncompleteGroup \in Optional
  /\ oldReachedReplacement \in BOOLEAN
  /\ fromOld \subseteq Groups
  /\ fromReplacement \subseteq Groups
  /\ turnedAway \subseteq Groups

ProgressTypes ==
  /\ oldOpenSubgroups \subseteq Groups \X SubgroupIDs
  /\ oldDatagramGroup \in [group : Optional, open : BOOLEAN]
  /\ oldEnded \in BOOLEAN
  /\ replacementDelivering \in BOOLEAN

Admission == AdmissionTypes /\ Marks /\ Owned

-----------------------------------------------------------------------------
(* TypeOK is its two parts.                                                *)
LEMMA TypeParts == TypeOK <=> AdmissionTypes /\ ProgressTypes
BY Zenon DEF TypeOK, AdmissionTypes, ProgressTypes

(* ownedByReplacement is closed upwards: two lower bounds and nothing else.*)
LEMMA OwnedUpwards ==
  ASSUME NEW s \in [replacementFirstGroup : Optional \cup {0}, oldLastGroup : Optional],
         NEW g \in Optional, NEW h \in Optional,
         g <= h, ownedByReplacement(s, g)
  PROVE  ownedByReplacement(s, h)
<1>1. Optional \cup {0} \subseteq Int
  BY ArbiterAssumption DEF Optional, None
<1>2. s.replacementFirstGroup \in Optional \cup {0} /\ s.oldLastGroup \in Optional
  BY Zenon
<1> QED BY <1>1, <1>2 DEF ownedByReplacement

(* What old opened, and what the replacement had refused, is not owned.    *)
LEMMA NotOwned ==
  ASSUME Admission
  PROVE  /\ \A g \in fromOld : ~ownedByReplacement(ownership, g)
         /\ \A g \in turnedAway : ~ownedByReplacement(ownership, g)
<1>1. ASSUME NEW g \in fromOld, ownedByReplacement(ownership, g) PROVE FALSE
  <2>1. g \in Optional /\ highestOldGroup \in Optional /\ g <= highestOldGroup
    BY <1>1, Zenon DEF Admission, AdmissionTypes, Marks, Optional
  <2> QED BY <1>1, <2>1, OwnedUpwards DEF Admission, AdmissionTypes, Marks
<1>2. ASSUME NEW g \in turnedAway, ownedByReplacement(ownership, g) PROVE FALSE
  <2>1. /\ g \in Optional /\ replacementIncompleteGroup \in Optional
        /\ g <= replacementIncompleteGroup
    BY <1>2, Zenon DEF Admission, AdmissionTypes, Marks, Optional
  <2> QED BY <1>2, <2>1, OwnedUpwards DEF Admission, AdmissionTypes, Marks
<1> QED BY <1>1, <1>2

(* admit for old keeps the ledger: old gets only what it owns.             *)
LEMMA AdmitOldStep ==
  ASSUME Admission, oldEnded \in BOOLEAN, NEW g \in Groups, admitOld(g), UNCHANGED oldEnded
  PROVE  Admission' /\ fromOld \subseteq fromOld' /\ (OldMayHave(g) => g \in fromOld')
                    /\ UNCHANGED <<ownership, fromReplacement>>
<1> USE ArbiterAssumption
<1>1. CASE OldMayHave(g)
  <2>1. /\ highestOldGroup' = Higher(g, highestOldGroup)
        /\ fromOld' = fromOld \cup {g}
        /\ UNCHANGED <<split, ownership, replacementIncompleteGroup, oldReachedReplacement,
                       fromReplacement, turnedAway, oldEnded>>
    BY <1>1, Zenon DEF admitOld, raiseHighestOldGroup
  <2>2. AdmissionTypes'
    BY <2>1, Zenon DEF Admission, AdmissionTypes, Higher, Optional
  <2>3. Marks'
    BY <1>1, <2>1 DEF Admission, AdmissionTypes, Marks, Higher, Optional, None, OldMayHave,
                      ownedByReplacement
  <2>4. Owned'
    BY <1>1, <2>1 DEF Admission, Owned, OldMayHave, ownedByReplacement
  <2> QED BY <1>1, <2>1, <2>2, <2>3, <2>4 DEF Admission
<1>2. CASE ~OldMayHave(g)
  <2>1. /\ oldReachedReplacement' = (oldReachedReplacement \/ ~oldEnded)
        /\ UNCHANGED <<highestOldGroup, fromOld, split, ownership, replacementIncompleteGroup,
                       fromReplacement, turnedAway, oldEnded>>
    BY <1>2, Zenon DEF admitOld
  <2>2. oldReachedReplacement' \in BOOLEAN
    BY <2>1, Zenon DEF Admission, AdmissionTypes
  <2>3. Admission'
    BY <2>1, <2>2 DEF Admission, AdmissionTypes, Marks, Owned, ownedByReplacement,
                      splitAfterOldEnded
  <2> QED BY <1>2, <2>1, <2>3
<1> QED BY <1>1, <1>2

(* The ownership under which replacement data is judged extends the one    *)
(* there is, and leaves the two marks out.                                 *)
LEMMA OwnershipForStep ==
  ASSUME Admission, oldEnded \in BOOLEAN, NEW g \in Groups, ~cannotBeFirst(g)
  PROVE  /\ OwnershipFor(g) \in
              [replacementFirstGroup : Optional \cup {0}, oldLastGroup : Optional]
         /\ OwnershipFor(g) # NoSplit
         /\ OwnershipFor(g).replacementFirstGroup >= 0
         /\ ~ownedByReplacement(OwnershipFor(g), highestOldGroup)
         /\ ~ownedByReplacement(OwnershipFor(g), replacementIncompleteGroup)
         /\ ownership # NoSplit => OwnershipFor(g) = ownership
         /\ oldEnded => OwnershipFor(g) = splitAfterOldEnded
         /\ ownership = NoSplit /\ ~oldEnded => OwnershipFor(g) = FirstSplit(g)
<1> USE ArbiterAssumption
<1>1. CASE ownership # NoSplit
  BY <1>1, Zenon DEF Admission, AdmissionTypes, Marks, Owned, OwnershipFor
<1>2. CASE ownership = NoSplit /\ oldEnded
  BY <1>2 DEF Admission, AdmissionTypes, OwnershipFor, splitAfterOldEnded, Higher, NoSplit,
              None, Optional, ownedByReplacement
<1>3. CASE ownership = NoSplit /\ ~oldEnded
  BY <1>3 DEF Admission, AdmissionTypes, OwnershipFor, FirstSplit, cannotBeFirst, NoSplit,
              None, Optional, ownedByReplacement
<1> QED BY <1>1, <1>2, <1>3
(* Refusing replacement data for a group that is not the replacement's     *)
(* keeps the ledger.                                                       *)
LEMMA RefuseStep ==
  ASSUME Admission, NEW g \in Groups, raiseReplacementIncompleteGroup(g),
         ~ownedByReplacement(ownership, g), oldEnded \in BOOLEAN,
         UNCHANGED <<highestOldGroup, split, ownership, oldReachedReplacement, fromOld,
                     fromReplacement, oldEnded>>
  PROVE  Admission'
<1> USE ArbiterAssumption
<1>1. /\ replacementIncompleteGroup' = Higher(g, replacementIncompleteGroup)
      /\ turnedAway' = turnedAway \cup {g}
  BY Zenon DEF raiseReplacementIncompleteGroup
<1>2. AdmissionTypes'
  BY <1>1, Zenon DEF Admission, AdmissionTypes, Higher, Optional
<1>3. Marks'
  BY <1>1 DEF Admission, AdmissionTypes, Marks, Higher, Optional, None, ownedByReplacement
<1>4. CASE oldEnded /\ ownership # NoSplit
  <2>1. ownership = splitAfterOldEnded
    BY <1>4, Zenon DEF Admission, Owned
  <2>2. g <= Higher(highestOldGroup, replacementIncompleteGroup)
    BY <1>4, <2>1 DEF splitAfterOldEnded, ownedByReplacement, Higher, Admission,
                      AdmissionTypes, Optional, None
  <2>3. splitAfterOldEnded' = splitAfterOldEnded
    BY <1>1, <2>2 DEF splitAfterOldEnded, Higher, Admission, AdmissionTypes, Optional, None
  <2> QED BY <1>2, <1>3, <2>1, <2>3 DEF Admission, Owned, ownedByReplacement
<1>5. CASE ~(oldEnded /\ ownership # NoSplit)
  BY <1>2, <1>3, <1>5, Zenon DEF Admission, Owned, ownedByReplacement
<1> QED BY <1>4, <1>5

(* admit for the replacement keeps the ledger.                             *)
LEMMA AdmitReplacementStep ==
  ASSUME Admission, oldEnded \in BOOLEAN, NEW g \in Groups, admitReplacement(g),
         UNCHANGED oldEnded
  PROVE  /\ Admission'
         /\ fromReplacement \subseteq fromReplacement'
         /\ ReplacementMayHave(g) => g \in fromReplacement'
         /\ UNCHANGED fromOld
         /\ ownership # NoSplit => ownership' = ownership
<1> USE ArbiterAssumption
<1>1. UNCHANGED <<highestOldGroup, oldReachedReplacement, fromOld>>
  BY Zenon DEF admitReplacement
<1>2. CASE cannotBeFirst(g)
  <2>1. ~ReplacementMayHave(g)
    BY <1>2, Zenon DEF ReplacementMayHave
  <2>2. /\ raiseReplacementIncompleteGroup(g)
        /\ UNCHANGED <<ownership, fromReplacement>>
    BY <1>2, <2>1, Zenon DEF admitReplacement
  <2>3. ownership = NoSplit /\ ~oldEnded
    BY <1>2, Zenon DEF cannotBeFirst
  <2>4. replacementIncompleteGroup' = replacementIncompleteGroup
    BY <1>2, <2>2 DEF cannotBeFirst, raiseReplacementIncompleteGroup, Higher, Admission,
                      AdmissionTypes, Optional, None
  <2>5. split' = NoSplit
    BY <2>2, <2>3, Zenon DEF admitReplacement
  <2>6. turnedAway' = turnedAway \cup {g} /\ g <= replacementIncompleteGroup
    BY <1>2, <2>2, Zenon DEF raiseReplacementIncompleteGroup, cannotBeFirst
  <2>7. AdmissionTypes'
    BY <1>1, <2>2, <2>4, <2>5, <2>6, Zenon DEF Admission, AdmissionTypes, NoSplit, Optional
  <2>8. Marks'
    BY <1>1, <2>2, <2>4, <2>6, Zenon DEF Admission, Marks, ownedByReplacement
  <2>9. Owned'
    BY <2>2, <2>3, Zenon DEF Admission, Owned, ownedByReplacement
  <2> QED BY <1>1, <2>1, <2>2, <2>7, <2>8, <2>9 DEF Admission
<1>3. CASE ~cannotBeFirst(g)
  <2> DEFINE own == OwnershipFor(g)
  <2>1. /\ own \in [replacementFirstGroup : Optional \cup {0}, oldLastGroup : Optional]
        /\ own # NoSplit /\ own.replacementFirstGroup >= 0
        /\ ~ownedByReplacement(own, highestOldGroup)
        /\ ~ownedByReplacement(own, replacementIncompleteGroup)
        /\ ownership # NoSplit => own = ownership
        /\ oldEnded => own = splitAfterOldEnded
        /\ ownership = NoSplit /\ ~oldEnded => own = FirstSplit(g)
    BY <1>3, OwnershipForStep, Zenon
  <2>2. ownership' = own
    BY <1>3, Zenon DEF admitReplacement
  <2>3. split' \in [replacementFirstGroup : Optional, oldLastGroup : Optional]
    BY <2>1, <2>2 DEF admitReplacement, FirstSplit, Admission, AdmissionTypes, Optional
  <2>4. \A h \in fromReplacement : ownedByReplacement(own, h)
    BY <2>1, Zenon DEF Admission, Owned, ownedByReplacement
  <2>5. ReplacementMayHave(g) <=> ownedByReplacement(own, g)
    BY <1>3, Zenon DEF ReplacementMayHave
  <2> HIDE DEF own
  <2>6. CASE ReplacementMayHave(g)
    <3>1. /\ fromReplacement' = fromReplacement \cup {g}
          /\ UNCHANGED <<replacementIncompleteGroup, turnedAway>>
      BY <2>6, Zenon DEF admitReplacement
    <3>2. AdmissionTypes'
      BY <1>1, <2>1, <2>2, <2>3, <3>1, Zenon DEF Admission, AdmissionTypes
    <3>3. Marks'
      BY <1>1, <2>1, <2>2, <3>1, Zenon DEF Admission, Marks, ownedByReplacement
    <3>4. Owned'
      BY <1>1, <2>1, <2>2, <2>4, <2>5, <2>6, <3>1, Zenon
      DEF Owned, ownedByReplacement, splitAfterOldEnded
    <3> QED BY <1>1, <2>1, <2>2, <3>1, <3>2, <3>3, <3>4 DEF Admission
  <2>7. CASE ~ReplacementMayHave(g)
    <3>1. raiseReplacementIncompleteGroup(g) /\ UNCHANGED fromReplacement
      BY <2>7, Zenon DEF admitReplacement
    <3>2. /\ replacementIncompleteGroup' = Higher(g, replacementIncompleteGroup)
          /\ turnedAway' = turnedAway \cup {g}
      BY <3>1, Zenon DEF raiseReplacementIncompleteGroup
    <3>3. AdmissionTypes'
      BY <1>1, <2>1, <2>2, <2>3, <3>1, <3>2, Zenon DEF Admission, AdmissionTypes, Higher, Optional
    <3>4. Marks'
      BY <1>1, <2>1, <2>2, <2>5, <2>7, <3>2
      DEF Admission, AdmissionTypes, Marks, Higher, Optional, None, ownedByReplacement
    <3>5. oldEnded => splitAfterOldEnded' = splitAfterOldEnded
      <4>1. SUFFICES ASSUME oldEnded PROVE splitAfterOldEnded' = splitAfterOldEnded
        BY Zenon
      <4>2. g <= Higher(highestOldGroup, replacementIncompleteGroup)
        BY <2>1, <2>5, <2>7, <4>1 DEF splitAfterOldEnded, ownedByReplacement, Higher,
                                      Admission, AdmissionTypes, Optional, None
      <4> QED BY <1>1, <3>2, <4>2 DEF splitAfterOldEnded, Higher, Admission, AdmissionTypes,
                                      Optional, None
    <3>6. Owned'
      BY <2>1, <2>2, <2>4, <3>1, <3>5, Zenon DEF Owned, ownedByReplacement
    <3> QED BY <1>1, <2>1, <2>2, <2>7, <3>1, <3>3, <3>4, <3>6 DEF Admission
  <2> QED BY <2>6, <2>7
<1> QED BY <1>2, <1>3
(* When old ends, ownership keeps every group it had.                      *)
LEMMA OldEndedStep ==
  ASSUME IInv, onOldEnded
  PROVE  /\ Admission'
         /\ \A g \in Groups : ownedByReplacement(ownership, g) => ownedByReplacement(ownership', g)
<1> USE ArbiterAssumption
<1>1. Admission /\ AdmissionTypes /\ Marks /\ Owned
  BY TypeParts, Zenon DEF IInv, Admission
<1>2. UNCHANGED <<highestOldGroup, split, replacementIncompleteGroup, oldReachedReplacement,
                  fromOld, fromReplacement, turnedAway>>
  BY Zenon DEF onOldEnded
<1>3. CASE ownership = NoSplit
  <2>1. ownership' = ownership
    BY <1>3, Zenon DEF onOldEnded
  <2> QED BY <1>1, <1>2, <1>3, <2>1
          DEF Admission, AdmissionTypes, Marks, Owned, ownedByReplacement
<1>4. CASE ownership # NoSplit
  <2>1. ownership' = splitAfterOldEnded
    BY <1>4, Zenon DEF onOldEnded
  <2>2. \A g \in Groups : ownedByReplacement(ownership, g) =>
          g > highestOldGroup /\ g > replacementIncompleteGroup
    <3> SUFFICES ASSUME NEW g \in Groups, ownedByReplacement(ownership, g)
                 PROVE  g > highestOldGroup /\ g > replacementIncompleteGroup
      BY Zenon
    <3>1. /\ g \in Optional /\ highestOldGroup \in Optional
          /\ replacementIncompleteGroup \in Optional /\ Optional \subseteq Int
      BY <1>1 DEF AdmissionTypes, Optional, None
    <3>2. ~(g <= highestOldGroup) /\ ~(g <= replacementIncompleteGroup)
      BY <1>1, <3>1, OwnedUpwards, Zenon DEF AdmissionTypes, Marks
    <3> QED BY <3>1, <3>2
  <2>3. \A g \in Groups :
          g > highestOldGroup /\ g > replacementIncompleteGroup <=>
            ownedByReplacement(splitAfterOldEnded, g)
    BY <1>1 DEF splitAfterOldEnded, ownedByReplacement, NoSplit, Higher, AdmissionTypes,
                Optional, None
  <2>4. AdmissionTypes'
    BY <1>1, <1>2, <2>1, Zenon DEF AdmissionTypes, splitAfterOldEnded, Higher, Optional
  <2>5. Marks'
    BY <1>1, <1>2, <2>1 DEF AdmissionTypes, Marks, splitAfterOldEnded, Higher, Optional, None,
                            ownedByReplacement
  <2>6. \A g \in fromReplacement : ownedByReplacement(splitAfterOldEnded, g)
    BY <1>1, <2>2, <2>3, Zenon DEF AdmissionTypes, Owned
  <2>7. splitAfterOldEnded' = splitAfterOldEnded /\ splitAfterOldEnded.replacementFirstGroup = 0
    BY <1>2, Zenon DEF splitAfterOldEnded, Higher
  <2>8. Owned'
    BY <1>2, <2>1, <2>6, <2>7 DEF Owned, ownedByReplacement
  <2> QED BY <2>1, <2>2, <2>3, <2>4, <2>5, <2>8 DEF Admission
<1> QED BY <1>3, <1>4

(* The initial states satisfy the invariant.                               *)
LEMMA InitIInv == Init => IInv
<1> SUFFICES ASSUME Init PROVE IInv
  BY Zenon
<1> USE ArbiterAssumption
<1>1. PICK opened \in SUBSET Groups :
        /\ highestOldGroup \in opened \cup {None}
        /\ \A g \in opened : g <= highestOldGroup
        /\ oldOpenSubgroups \in SUBSET (opened \X SubgroupIDs)
        /\ oldDatagramGroup \in {NoDatagramGroup} \cup [group : opened, open : {TRUE}]
        /\ fromOld = opened
  BY Zenon DEF Init
<1>2. /\ split = NoSplit /\ ownership = NoSplit /\ replacementIncompleteGroup = None
      /\ oldReachedReplacement = FALSE /\ oldEnded = FALSE /\ replacementDelivering = FALSE
      /\ fromReplacement = {} /\ turnedAway = {}
  BY Zenon DEF Init
<1>3. AdmissionTypes
  BY <1>1, <1>2, Zenon DEF AdmissionTypes, Optional, NoSplit
<1>4. oldDatagramGroup \in [group : Optional, open : BOOLEAN]
  <2>1. CASE oldDatagramGroup = NoDatagramGroup
    BY <2>1, Zenon DEF NoDatagramGroup, Optional
  <2>2. CASE oldDatagramGroup \in [group : opened, open : {TRUE}]
    BY <2>2, <1>1, Zenon DEF Optional
  <2> QED BY <1>1, <2>1, <2>2, Zenon
<1>5. ProgressTypes
  BY <1>1, <1>2, <1>4, Zenon DEF ProgressTypes
<1>6. Marks
  BY <1>1, <1>2, Zenon DEF Marks, ownedByReplacement
<1>7. Owned
  BY <1>2, Zenon DEF Owned
<1>8. oldDatagramGroup.open => oldDatagramGroup.group \in fromOld
  <2>1. CASE oldDatagramGroup = NoDatagramGroup
    BY <2>1, Zenon DEF NoDatagramGroup
  <2>2. CASE oldDatagramGroup \in [group : opened, open : {TRUE}]
    BY <2>2, <1>1, Zenon
  <2> QED BY <1>1, <2>1, <2>2, Zenon
<1>9. OldOpen
  BY <1>1, <1>2, <1>8, Zenon DEF OldOpen
<1> QED BY <1>3, <1>5, <1>6, <1>7, <1>9, TypeParts DEF IInv

(* Every step preserves the invariant and leaves the replacement what it   *)
(* owns.                                                                   *)
LEMMA NextIInv ==
  ASSUME IInv, [Next]_vars
  PROVE  /\ IInv'
         /\ \A g \in Groups : ownedByReplacement(ownership, g) => ownedByReplacement(ownership', g)
<1> USE ArbiterAssumption
<1> DEFINE Kept == \A g \in Groups :
                     ownedByReplacement(ownership, g) => ownedByReplacement(ownership', g)
<1>1. Admission /\ ProgressTypes /\ OldOpen /\ oldEnded \in BOOLEAN
  BY TypeParts, Zenon DEF IInv, Admission, ProgressTypes
<1>2. SUFFICES Admission' /\ ProgressTypes' /\ OldOpen' /\ Kept
  BY Zenon DEF IInv, Admission, TypeOK, AdmissionTypes, ProgressTypes
<1>3. ASSUME NEW g \in Groups, NEW i \in SubgroupIDs, onBeginSubgroupOld(g, i)
      PROVE  Admission' /\ ProgressTypes' /\ OldOpen' /\ Kept
  <2>1. /\ admitOld(g) /\ UNCHANGED <<oldEnded, oldDatagramGroup, replacementDelivering>>
        /\ oldOpenSubgroups' = IF OldMayHave(g) THEN oldOpenSubgroups \cup {<<g, i>>}
                               ELSE oldOpenSubgroups
    BY <1>3, Zenon DEF onBeginSubgroupOld
  <2>2. /\ Admission' /\ fromOld \subseteq fromOld' /\ (OldMayHave(g) => g \in fromOld')
        /\ UNCHANGED <<ownership, fromReplacement>>
    BY <1>1, <2>1, AdmitOldStep, Zenon
  <2>3. ProgressTypes'
    BY <1>1, <1>3, <2>1 DEF ProgressTypes
  <2>4. OldOpen'
    BY <1>1, <2>1, <2>2 DEF OldOpen
  <2> QED BY <2>2, <2>3, <2>4
<1>4. ASSUME NEW g \in Groups, onBeginSubgroupReplacement(g)
      PROVE  Admission' /\ ProgressTypes' /\ OldOpen' /\ Kept
  <2>1. admitReplacement(g) /\ UNCHANGED <<progress, oldEnded>>
    BY <1>4, Zenon DEF onBeginSubgroupReplacement
  <2>2. /\ Admission' /\ fromReplacement \subseteq fromReplacement' /\ UNCHANGED fromOld
        /\ ownership # NoSplit => ownership' = ownership
    BY <1>1, <2>1, AdmitReplacementStep, Zenon
  <2>3. ProgressTypes' /\ OldOpen'
    BY <1>1, <2>1, <2>2, Zenon DEF ProgressTypes, OldOpen, progress
  <2> QED BY <2>2, <2>3 DEF ownedByReplacement
<1>5. ASSUME NEW g \in Groups, onBeginSubgroupMid(g)
      PROVE  Admission' /\ ProgressTypes' /\ OldOpen' /\ Kept
  <2>1. Admission'
    BY <1>1, <1>5, RefuseStep, Zenon DEF onBeginSubgroupMid
  <2> QED BY <1>1, <1>5, <2>1 DEF onBeginSubgroupMid, ProgressTypes, OldOpen, progress
<1>6. ASSUME NEW g \in Groups, NEW lastInGroup \in BOOLEAN, onDatagramOld(g, lastInGroup)
      PROVE  Admission' /\ ProgressTypes' /\ OldOpen' /\ Kept
  <2>1. /\ admitOld(g) /\ UNCHANGED <<oldOpenSubgroups, replacementDelivering, oldEnded>>
        /\ IF oldEnded THEN UNCHANGED oldDatagramGroup
           ELSE noteOldDatagram(g, lastInGroup, OldMayHave(g))
    BY <1>6, Zenon DEF onDatagramOld
  <2>2. /\ Admission' /\ fromOld \subseteq fromOld' /\ (OldMayHave(g) => g \in fromOld')
        /\ UNCHANGED <<ownership, fromReplacement>>
    BY <1>1, <2>1, AdmitOldStep, Zenon
  <2>3. OldMayHave(g) \in BOOLEAN
    BY Zenon DEF OldMayHave, ownedByReplacement
  <2>4. \/ oldDatagramGroup' = oldDatagramGroup
        \/ oldDatagramGroup' = [group |-> g, open |-> OldMayHave(g) /\ ~lastInGroup]
        \/ oldDatagramGroup' = [oldDatagramGroup EXCEPT !.open = @ /\ ~lastInGroup]
    BY <2>1, Zenon DEF noteOldDatagram
  <2>5. /\ oldDatagramGroup' \in [group : Optional, open : BOOLEAN]
        /\ oldDatagramGroup'.open => oldDatagramGroup'.group \in fromOld'
    <3>1. CASE oldDatagramGroup' = oldDatagramGroup
      BY <1>1, <2>2, <3>1, Zenon DEF ProgressTypes, OldOpen
    <3>2. CASE oldDatagramGroup' = [group |-> g, open |-> OldMayHave(g) /\ ~lastInGroup]
      BY <2>2, <2>3, <3>2, Zenon DEF Optional
    <3>3. CASE oldDatagramGroup' = [oldDatagramGroup EXCEPT !.open = @ /\ ~lastInGroup]
      BY <1>1, <2>2, <3>3, Zenon DEF ProgressTypes, OldOpen
    <3> QED BY <2>4, <3>1, <3>2, <3>3
  <2>6. ProgressTypes' /\ OldOpen'
    BY <1>1, <2>1, <2>2, <2>5, Zenon DEF ProgressTypes, OldOpen
  <2> QED BY <2>2, <2>6
<1>7. ASSUME NEW g \in Groups, onDatagramReplacement(g)
      PROVE  Admission' /\ ProgressTypes' /\ OldOpen' /\ Kept
  <2>1. /\ admitReplacement(g) /\ UNCHANGED <<oldOpenSubgroups, oldDatagramGroup, oldEnded>>
        /\ replacementDelivering' = (replacementDelivering \/ ReplacementMayHave(g))
    BY <1>7, Zenon DEF onDatagramReplacement
  <2>2. /\ Admission' /\ fromReplacement \subseteq fromReplacement' /\ UNCHANGED fromOld
        /\ ReplacementMayHave(g) => g \in fromReplacement'
        /\ ownership # NoSplit => ownership' = ownership
    BY <1>1, <2>1, AdmitReplacementStep, Zenon
  <2>3. replacementDelivering' \in BOOLEAN
    BY <2>1, Zenon
  <2>4. ProgressTypes' /\ OldOpen'
    BY <1>1, <2>1, <2>2, <2>3, Zenon DEF ProgressTypes, OldOpen
  <2> QED BY <2>2, <2>4 DEF ownedByReplacement
<1>8. ASSUME NEW g \in Groups, onObject(g)
      PROVE  Admission' /\ ProgressTypes' /\ OldOpen' /\ Kept
  <2>1. /\ g \in fromReplacement
        /\ replacementDelivering' = (replacementDelivering \/ ownedByReplacement(ownership, g))
        /\ UNCHANGED <<admission, oldOpenSubgroups, oldDatagramGroup, oldEnded>>
    BY <1>8, Zenon DEF onObject
  <2>2. replacementDelivering' \in BOOLEAN
    BY <2>1, Zenon
  <2>3. Admission' /\ Kept
    BY <1>1, <2>1, Zenon DEF Admission, AdmissionTypes, Marks, Owned, admission, ownedByReplacement,
                      splitAfterOldEnded
  <2>4. ProgressTypes' /\ OldOpen'
    BY <1>1, <2>1, <2>2, Zenon DEF ProgressTypes, OldOpen, admission
  <2> QED BY <2>3, <2>4
<1>9. ASSUME NEW id \in oldOpenSubgroups, onSubgroupEnded(id)
      PROVE  Admission' /\ ProgressTypes' /\ OldOpen' /\ Kept
  <2>1. /\ oldOpenSubgroups' = oldOpenSubgroups \ {id}
        /\ UNCHANGED <<admission, oldDatagramGroup, replacementDelivering, oldEnded>>
    BY <1>9, Zenon DEF onSubgroupEnded
  <2>2. Admission' /\ Kept
    BY <1>1, <2>1, Zenon DEF Admission, AdmissionTypes, Marks, Owned, admission, ownedByReplacement,
                      splitAfterOldEnded
  <2> QED BY <1>1, <2>1, <2>2 DEF ProgressTypes, OldOpen, admission
<1>10. CASE onOldEnded
  <2>1. Admission' /\ Kept
    BY <1>10, OldEndedStep, Zenon
  <2> QED BY <1>1, <1>10, <2>1 DEF onOldEnded, ProgressTypes, OldOpen, progress
<1>11. CASE UNCHANGED vars
  BY <1>1, <1>11 DEF vars, admission, progress, Admission, AdmissionTypes, Marks, Owned,
                     ProgressTypes, OldOpen, ownedByReplacement, splitAfterOldEnded
<1> QED BY <1>3, <1>4, <1>5, <1>6, <1>7, <1>8, <1>9, <1>10, <1>11 DEF Next, GroupStep

-----------------------------------------------------------------------------
(* The invariant holds in every state of the arbiter.                      *)
THEOREM ArbiterInductive == Spec => []IInv
BY InitIInv, NextIInv, PTL DEF Spec

(* No group comes from both upstreams, and none that old was accepted for  *)
(* is the replacement's (admit).                                           *)
THEOREM SourceIsOne == Spec => []OneSource
<1>1. IInv => OneSource
  BY NotOwned, TypeParts, Zenon DEF IInv, Admission, Owned, OneSource
<1> QED BY <1>1, ArbiterInductive, PTL

(* Data of a group is not both accepted from the replacement and refused   *)
(* (admit and the mid-subgroup case of onBeginSubgroup).                   *)
THEOREM GroupsAreWhole == Spec => []WholeGroups
<1>1. IInv => WholeGroups
  BY NotOwned, TypeParts, Zenon DEF IInv, Admission, Owned, WholeGroups
<1> QED BY <1>1, ArbiterInductive, PTL

(* After old's end the replacement owns exactly the groups after all that  *)
(* old opened and all that was refused (splitAfterOldEnded).               *)
THEOREM EndIsExact == Spec => []EndHandsOver
<1>1. ASSUME IInv PROVE EndHandsOver
  <2> SUFFICES ASSUME oldEnded, ownership # NoSplit, NEW g \in Groups
               PROVE  ownedByReplacement(ownership, g) <=>
                        \A h \in fromOld \cup turnedAway : g > h
    BY Zenon DEF EndHandsOver
  <2> USE ArbiterAssumption
  <2>1. AdmissionTypes /\ Marks /\ ownership = splitAfterOldEnded
    BY <1>1, TypeParts, Zenon DEF IInv, Owned
  <2>2. ownedByReplacement(ownership, g) <=>
          g > highestOldGroup /\ g > replacementIncompleteGroup
    BY <2>1 DEF splitAfterOldEnded, ownedByReplacement, Higher, AdmissionTypes, Optional, None
  <2>3. g > highestOldGroup <=> \A h \in fromOld : g > h
    BY <2>1 DEF AdmissionTypes, Marks, Optional, None
  <2>4. g > replacementIncompleteGroup <=> \A h \in turnedAway : g > h
    BY <2>1 DEF AdmissionTypes, Marks, Optional, None
  <2> QED BY <2>2, <2>3, <2>4
<1> QED BY <1>1, ArbiterInductive, PTL

(* Whoever waits for old waits for groups old was accepted for, before all *)
(* of the replacement (oldCaughtUp, oldBlocksReplacement).                 *)
THEOREM WaitIsForEarlier == Spec => []WaitsForEarlierGroups
<1>1. ASSUME IInv PROVE WaitsForEarlierGroups
  <2> USE ArbiterAssumption
  <2>1. Admission /\ AdmissionTypes /\ Owned /\ OldOpen
    BY <1>1, TypeParts, Zenon DEF IInv, Admission
  <2>2. OldOpenGroups \subseteq fromOld
    BY <2>1, Zenon DEF OldOpen, OldOpenGroups
  <2>3. ASSUME NEW g \in OldOpenGroups, NEW h \in fromReplacement PROVE g < h
    <3>1. g \in fromOld /\ g \in Optional /\ h \in Optional /\ Optional \subseteq Int
      BY <2>1, <2>2, <2>3 DEF AdmissionTypes, Optional, None
    <3>2. ~ownedByReplacement(ownership, g) /\ ownedByReplacement(ownership, h)
      BY <2>1, <3>1, NotOwned, Zenon DEF Owned
    <3>3. ~(h <= g)
      BY <2>1, <3>1, <3>2, OwnedUpwards, Zenon DEF AdmissionTypes
    <3> QED BY <3>1, <3>3
  <2> QED BY <2>1, <2>2, <2>3 DEF WaitsForEarlierGroups, OldOpen, oldBlocksReplacement
<1> QED BY <1>1, ArbiterInductive, PTL

(* The hand-off as a whole: every group has one source and is whole, what  *)
(* is left goes to the replacement, and waits are for earlier groups only. *)
THEOREM HandoffCorrect == Spec => []HandoffIsClean
BY SourceIsOne, GroupsAreWhole, EndIsExact, WaitIsForEarlier, PTL DEF HandoffIsClean

(* The arbiter's state keeps its shape.                                    *)
THEOREM ArbiterTypes == Spec => []TypeOK
<1>1. IInv => TypeOK
  BY Zenon DEF IInv
<1> QED BY <1>1, ArbiterInductive, PTL

(* No step takes a group from the replacement, the end of old included     *)
(* (onOldEnded).                                                           *)
THEOREM OwnershipKept == Spec => OwnershipGrows
<1>1. IInv /\ [Next]_vars =>
        [\A g \in Groups :
           ownedByReplacement(ownership, g) => ownedByReplacement(ownership', g)]_vars
  BY NextIInv, Zenon
<1> QED BY <1>1, ArbiterInductive, PTL DEF Spec, OwnershipGrows
=============================================================================
