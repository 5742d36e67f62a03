-------------------------- MODULE MoQSessionSetup --------------------------
(* The start of a MoQSession: SETUP is exchanged while the peer's streams   *)
(* already arrive. With uni control streams (draft 18 on) a stream that     *)
(* comes before SETUP is read up to its type and, if it carries data, kept  *)
(* until the setup completes; a request stream waits. Before draft 18 such  *)
(* a data stream is an error.                                               *)
EXTENDS Integers, FiniteSets

CONSTANTS
  ControlStreams,   \* uni streams of the peer that carry SETUP
  DataStreams,      \* uni streams of the peer that carry data
  RequestStreams,   \* bidi streams of the peer
  MaxBuffered       \* kMaxBufferedPreSetupUniStreams

VARIABLES
  uni,          \* useUniControlStreams
  client,       \* dir_ is CLIENT
  setupPromise, \* "none", "open" (sendSetup ran), "set" (the peer's SETUP came)
  await,        \* awaitPeerSetup(): "none", "waiting", "done", "cancelled"
  complete,     \* setupComplete_
  closed,
  stream,       \* uni streams: "none", "reading", "control", "buffered", "loop", "ended"
  requestStream \* bidi streams: "none", "waiting", "serving", "ended"

setupVars == <<uni, client, setupPromise, await, complete, closed, stream, requestStream>>

Uni == ControlStreams \cup DataStreams

SetupAssumption == IsFiniteSet(Uni) /\ MaxBuffered \in Nat

SetupInit ==
  /\ uni \in BOOLEAN /\ client \in BOOLEAN
  /\ setupPromise = "none" /\ await = "none"
  /\ complete = FALSE /\ closed = FALSE
  /\ stream = [s \in Uni |-> "none"]
  /\ requestStream = [b \in RequestStreams |-> "none"]

Buffered == {s \in Uni : stream[s] = "buffered"}

-----------------------------------------------------------------------------

\* close(): every coroutine is cancelled; the buffered streams go with it.
closeNow ==
  /\ closed' = TRUE
  /\ stream' = [s \in Uni |-> IF stream[s] = "none" THEN "none" ELSE "ended"]
  /\ requestStream' = [b \in RequestStreams |-> IF requestStream[b] = "none" THEN "none" ELSE "ended"]
  /\ await' = IF await = "waiting" THEN "cancelled" ELSE await
  /\ UNCHANGED <<uni, client, setupPromise, complete>>

\* sendSetup() and, for the caller of setup(), awaitPeerSetup(). A server of
\* the uni control mode sends its SETUP when it starts.
sendSetup ==
  /\ ~closed /\ setupPromise = "none"
  /\ client \/ uni
  /\ setupPromise' = "open" /\ await' = "waiting"
  /\ UNCHANGED <<uni, client, complete, closed, stream, requestStream>>

\* Mutant: the setup completes and what was buffered stays buffered.
setupDone_NoReplay ==
  /\ complete' = TRUE
  /\ UNCHANGED stream

\* markSetupComplete() and replayBufferedUniStreams().
setupDone ==
  /\ complete' = TRUE
  /\ stream' = [s \in Uni |-> IF stream[s] = "buffered" THEN "loop" ELSE stream[s]]

\* onServerSetup(): the caller of awaitPeerSetup() will complete the setup. An
\* AUTHORITY parameter closes the session.
onServerSetup ==
  /\ ~closed /\ client /\ setupPromise = "open"
  /\ uni => \E s \in Uni : stream[s] = "control"
  /\ \/ /\ setupPromise' = "set"
        /\ UNCHANGED <<uni, client, await, complete, closed, stream, requestStream>>
     \/ closeNow

\* onClientSetup(): in uni control mode the setup is complete here; otherwise
\* SERVER_SETUP is the answer. The application may refuse the parameters.
onClientSetup ==
  /\ ~closed /\ ~client
  /\ IF uni THEN setupPromise = "open" /\ \E s \in Uni : stream[s] = "control"
     ELSE setupPromise = "none"
  /\ \/ /\ setupPromise' = "set" /\ setupDone
        /\ UNCHANGED <<uni, client, await, closed, requestStream>>
     \/ closeNow

\* awaitPeerSetup() resumes with the peer's SETUP.
awaitPeerSetup ==
  /\ ~closed /\ await = "waiting" /\ setupPromise = "set"
  /\ await' = "done" /\ setupDone
  /\ UNCHANGED <<uni, client, setupPromise, closed, requestStream>>

\* Mutant: the caller is told, the session stays open.
setupTimeout_KeepsOpen ==
  /\ ~closed /\ await = "waiting" /\ setupPromise = "open"
  /\ await' = "cancelled"
  /\ UNCHANGED <<uni, client, setupPromise, complete, closed, stream, requestStream>>

\* setupTimeout passed first: VERSION_NEGOTIATION_FAILED.
setupTimeout ==
  /\ ~closed /\ await = "waiting" /\ setupPromise = "open"
  /\ closeNow

\* onNewUniStream()
onNewUniStream(s) ==
  /\ ~closed /\ stream[s] = "none"
  /\ IF ~complete /\ ~uni THEN closeNow
     ELSE /\ stream' = [stream EXCEPT ![s] = IF complete THEN "loop" ELSE "reading"]
          /\ UNCHANGED <<uni, client, setupPromise, await, complete, closed, requestStream>>

\* Mutant: one stream too many is kept.
handlePreSetupUniStream_OneMore(s) ==
  /\ ~closed /\ stream[s] = "reading"
  /\ IF s \in ControlStreams /\ (\E c \in Uni : stream[c] = "control") THEN closeNow
     ELSE IF s \in DataStreams /\ ~complete /\ Cardinality(Buffered) > MaxBuffered
     THEN closeNow
     ELSE /\ stream' = [stream EXCEPT ![s] = IF s \in ControlStreams THEN "control"
                                             ELSE IF complete THEN "loop"
                                             ELSE "buffered"]
          /\ UNCHANGED <<uni, client, setupPromise, await, complete, closed, requestStream>>

\* handlePreSetupUniStream() once the stream's type is read: the control
\* stream, a data stream whose setup completed meanwhile, or one to buffer.
handlePreSetupUniStream(s) ==
  /\ ~closed /\ stream[s] = "reading"
  /\ IF s \in ControlStreams /\ (\E c \in Uni : stream[c] = "control") THEN closeNow
     ELSE IF s \in DataStreams /\ ~complete /\ Cardinality(Buffered) >= MaxBuffered
     THEN closeNow
     ELSE /\ stream' = [stream EXCEPT ![s] = IF s \in ControlStreams THEN "control"
                                             ELSE IF complete THEN "loop"
                                             ELSE "buffered"]
          /\ UNCHANGED <<uni, client, setupPromise, await, complete, closed, requestStream>>

\* The stream ends before its type is known.
uniStreamEnds(s) ==
  /\ ~closed /\ stream[s] = "reading"
  /\ stream' = [stream EXCEPT ![s] = "ended"]
  /\ UNCHANGED <<uni, client, setupPromise, await, complete, closed, requestStream>>

\* onNewBidiStream() and bidiStreamDemuxer(): a request stream waits for the
\* setup with a promise of its own. (Before draft 18 the first bidi stream is
\* the control stream.)
onNewBidiStream(b) ==
  /\ ~closed /\ requestStream[b] = "none" /\ uni
  /\ requestStream' = [requestStream EXCEPT ![b] = IF complete THEN "serving" ELSE "waiting"]
  /\ UNCHANGED <<uni, client, setupPromise, await, complete, closed, stream>>

\* bidiStreamDemuxer() resumes when markSetupComplete() fulfilled its promise.
bidiStreamDemuxer(b) ==
  /\ ~closed /\ requestStream[b] = "waiting" /\ complete
  /\ requestStream' = [requestStream EXCEPT ![b] = "serving"]
  /\ UNCHANGED <<uni, client, setupPromise, await, complete, closed, stream>>

\* The application or the transport closes.
closeInSetup == ~closed /\ closeNow

SetupNext ==
  \/ sendSetup \/ onServerSetup \/ onClientSetup \/ awaitPeerSetup \/ setupTimeout \/ closeInSetup
  \/ \E s \in Uni : onNewUniStream(s) \/ handlePreSetupUniStream(s) \/ uniStreamEnds(s)
  \/ \E b \in RequestStreams : onNewBidiStream(b) \/ bidiStreamDemuxer(b)

\* The executor runs a coroutine that can resume, and the setup timer fires.
SetupFairness ==
  /\ WF_setupVars(awaitPeerSetup) /\ WF_setupVars(setupTimeout)
  /\ \A b \in RequestStreams : WF_setupVars(bidiStreamDemuxer(b))

SetupSpec == SetupInit /\ [][SetupNext]_setupVars /\ SetupFairness

-----------------------------------------------------------------------------

SetupTypeOK ==
  /\ uni \in BOOLEAN /\ client \in BOOLEAN /\ complete \in BOOLEAN /\ closed \in BOOLEAN
  /\ setupPromise \in {"none", "open", "set"}
  /\ await \in {"none", "waiting", "done", "cancelled"}
  /\ stream \in [Uni -> {"none", "reading", "control", "buffered", "loop", "ended"}]
  /\ requestStream \in [RequestStreams -> {"none", "waiting", "serving", "ended"}]
  /\ Cardinality(Buffered) <= MaxBuffered

\* No stream is read as data and no request is served before SETUP: their
\* parsing depends on the negotiated version and extensions.
NothingBeforeSetup ==
  /\ \A s \in Uni : stream[s] = "loop" => complete
  /\ \A b \in RequestStreams : requestStream[b] = "serving" => complete

\* A stream that was buffered before SETUP is not left behind by it.
NothingStranded == complete => Buffered = {}

\* What arrives around SETUP is read after it, and not forgotten.
SetupInOrder == NothingBeforeSetup /\ NothingStranded

\* A session that sent its SETUP gets the peer's or closes; then the requests
\* that waited for it are served, the buffered streams read.
SetupDecides == setupPromise = "open" ~> complete \/ closed

\* The same for a request stream that came first.
RequestsServed ==
  \A b \in RequestStreams :
    requestStream[b] = "waiting" /\ setupPromise # "none" ~> requestStream[b] # "waiting"
=============================================================================
