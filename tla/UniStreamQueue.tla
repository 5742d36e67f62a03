--------------------------- MODULE UniStreamQueue ---------------------------
(***************************************************************************)
(* UniStreamQueue (moxygen/UniStreamQueue.{h,cpp}): hands locally          *)
(* initiated uni streams to waiting requests as the peer's stream credit   *)
(* arrives.                                                                *)
(*                                                                         *)
(* The queue lives on one executor.  A grant is a callback that runs       *)
(* inside the queue's own loops, and may call request(), cancel(), close() *)
(* or destroy the owner from there; `frames' is the stack of loops in      *)
(* progress and `inGrant' says that the loop on top has called a grant     *)
(* which has not returned yet.                                             *)
(***************************************************************************)
EXTENDS Naturals, Sequences, FiniteSets

CONSTANTS Priorities,    \* priority values, 0 is the most urgent
          MaxRequests,   \* bound on the ids handed out
          MaxCredit      \* bound on the streams the peer allows

(* Priorities are compared as numbers.                                     *)
QueueAssumption == Priorities \subseteq Nat /\ MaxRequests \in Nat /\ MaxCredit \in Nat

VARIABLES
  open,        \* wt_ # nullptr
  alive,       \* the cancellation token has not been cancelled
  nextId,      \* nextId_
  requests,    \* keys of requests_, which are the ids in order_ too
  priority,    \* the priority each id was requested with
  waiting,     \* waiting_
  waits,       \* credit futures outstanding, oldest first
  frames,      \* loops in progress, innermost first
  inGrant,     \* the top loop is inside the grant it called
  calls,       \* id -> the handles its grant was called with
  credit       \* external: uni streams the transport can create now

queueVars == <<open, alive, nextId, requests, priority, waiting, waits, frames,
               inGrant, calls, credit>>

Ids == 0 .. MaxRequests - 1

(* "leaving" is onCredit's loop after its `break', with the grant still to return. *)
Frame == [loop : {"onCredit", "leaving", "failAll"}, wasReady : BOOLEAN]
Wait == [wasReady : BOOLEAN, resolved : BOOLEAN]

QueueTypeOK ==
  /\ open \in BOOLEAN /\ alive \in BOOLEAN
  /\ nextId \in 0 .. MaxRequests
  /\ requests \subseteq Ids
  /\ priority \in [Ids -> Priorities]
  /\ waiting \in BOOLEAN
  /\ waits \in Seq(Wait)
  /\ frames \in Seq(Frame)
  /\ inGrant \in BOOLEAN
  /\ calls \in [Ids -> Seq({"stream", "null"})]
  /\ credit \in 0 .. MaxCredit

QueueInit ==
  /\ open = TRUE /\ alive = TRUE
  /\ nextId = 0
  /\ requests = {}
  /\ priority \in [Ids -> Priorities]
  /\ waiting = FALSE
  /\ waits = <<>>
  /\ frames = <<>>
  /\ inGrant = FALSE
  /\ calls = [i \in Ids |-> <<>>]
  /\ credit \in 0 .. MaxCredit

-----------------------------------------------------------------------------
(* HTTPPriorityQueue: lower priority value first, ties to the lower id. *)
peekNextScheduledID ==
  CHOOSE i \in requests :
    \A j \in requests : \/ priority[i] < priority[j]
                        \/ priority[i] = priority[j] /\ i <= j

(* What waitForCredit() does when `pending' are the requests, with waiting_ *)
(* equal to `w' and wt_ set iff `o': it takes out at most one future.       *)
waitForCredit(w, pending, o) ==
  IF w \/ pending = {} \/ ~o
  THEN /\ waiting' = w
       /\ UNCHANGED waits
  ELSE /\ waiting' = TRUE
       /\ waits' = Append(waits, [wasReady |-> credit > 0, resolved |-> credit > 0])

(* Application calls come from outside the loops or from inside a grant. *)
AppMayCall == alive /\ (frames = <<>> \/ inGrant)

request ==
  /\ AppMayCall /\ open
  /\ nextId < MaxRequests
  /\ nextId' = nextId + 1
  /\ requests' = requests \cup {nextId}
  /\ waitForCredit(waiting, requests', open)
  /\ UNCHANGED <<open, alive, priority, frames, inGrant, calls, credit>>

cancel(id) ==
  /\ AppMayCall
  /\ id \in requests
  /\ requests' = requests \ {id}
  /\ UNCHANGED <<open, alive, nextId, priority, waiting, waits, frames, inGrant,
                 calls, credit>>

(* close() runs failAll() on the caller's stack. *)
close ==
  /\ AppMayCall /\ open
  /\ open' = FALSE
  /\ frames' = <<[loop |-> "failAll", wasReady |-> FALSE]>> \o frames
  /\ inGrant' = FALSE
  /\ UNCHANGED <<alive, nextId, requests, priority, waiting, waits, calls, credit>>

(* The owner cancels the token and drops the queue, possibly in a grant. *)
Destroy ==
  /\ AppMayCall
  /\ alive' = FALSE
  /\ UNCHANGED <<open, nextId, requests, priority, waiting, waits, frames,
                 inGrant, calls, credit>>

(* The executor runs the continuation of a credit future, which resolved   *)
(* (`ok') or failed with the transport.                                    *)
onCredit(ok) ==
  /\ alive /\ frames = <<>> /\ waits # <<>>
  /\ ok => waits[1].resolved
  /\ waits' = Tail(waits)
  /\ IF ~open
     THEN /\ waiting' = FALSE
          /\ UNCHANGED frames
     ELSE /\ waiting' = ok
          /\ frames' = <<[loop     |-> IF ok THEN "onCredit" ELSE "failAll",
                          wasReady |-> waits[1].wasReady]>>
  /\ UNCHANGED <<open, alive, nextId, requests, priority, inGrant, calls, credit>>

(* grantFirst: the request leaves requests_ and order_ before its grant runs. *)
grantFirst(handle) ==
  LET id == peekNextScheduledID
  IN  /\ requests' = requests \ {id}
      /\ calls' = [calls EXCEPT ![id] = Append(@, handle)]
      /\ inGrant' = TRUE

(* The innermost loop returns, to the grant that called close() if any. *)
PopFrame == /\ frames' = Tail(frames)
            /\ inGrant' = (Tail(frames) # <<>>)

InLoop(loop) == alive /\ frames # <<>> /\ frames[1].loop = loop

(* One turn of failAll's loop. *)
failAll ==
  /\ InLoop("failAll")
  /\ \/ /\ requests # {}
        /\ grantFirst("null")
        /\ UNCHANGED frames
     \/ /\ requests = {}
        /\ PopFrame
        /\ UNCHANGED <<requests, calls>>
  /\ UNCHANGED <<open, alive, nextId, priority, waiting, waits, credit>>

(* One turn of onCredit's loop in which the transport creates a stream. *)
onCreditGrant ==
  /\ InLoop("onCredit")
  /\ requests # {} /\ open
  /\ credit > 0
  /\ credit' = credit - 1
  /\ grantFirst("stream")
  /\ UNCHANGED <<open, alive, nextId, priority, waiting, waits, frames>>

(* createUniStream fails although credit was reported: the first request  *)
(* is failed and the loop left, once that grant returns.                   *)
onCreditUnusable ==
  /\ InLoop("onCredit")
  /\ requests # {} /\ open /\ frames[1].wasReady
  /\ grantFirst("null")
  /\ frames' = [frames EXCEPT ![1].loop = "leaving"]
  /\ UNCHANGED <<open, alive, nextId, priority, waiting, waits, credit>>

(* Mutant: the pass ends without waiting again. *)
onCreditEnd_NoWait ==
  /\ \/ InLoop("leaving")
     \/ /\ InLoop("onCredit")
        /\ requests = {} \/ ~open \/ ~frames[1].wasReady
  /\ PopFrame
  /\ waiting' = FALSE
  /\ UNCHANGED <<open, alive, nextId, requests, priority, waits, calls, credit>>

(* The loop is over: nothing to grant, closed, left, or no stream to be    *)
(* had.  The pass stops waiting, then waits again for what is left.        *)
onCreditEnd ==
  /\ \/ InLoop("leaving")
     \/ /\ InLoop("onCredit")
        /\ requests = {} \/ ~open \/ ~frames[1].wasReady
  /\ PopFrame
  /\ waitForCredit(FALSE, requests, open)
  /\ UNCHANGED <<open, alive, nextId, requests, priority, calls, credit>>

(* External: the peer raises MAX_STREAMS, which resolves the futures. *)
CreditArrives ==
  /\ alive /\ frames = <<>> /\ credit < MaxCredit
  /\ credit' = credit + 1
  /\ waits' = [i \in DOMAIN waits |-> [waits[i] EXCEPT !.resolved = TRUE]]
  /\ UNCHANGED <<open, alive, nextId, requests, priority, waiting, frames,
                 inGrant, calls>>

(* External: another user of the connection opens a uni stream. *)
CreditSpent ==
  /\ alive /\ AppMayCall /\ credit > 0
  /\ credit' = credit - 1
  /\ UNCHANGED <<open, alive, nextId, requests, priority, waiting, waits, frames,
                 inGrant, calls>>

Loop == failAll \/ onCreditGrant \/ onCreditUnusable \/ onCreditEnd

QueueNext ==
  \/ request \/ close \/ Destroy
  \/ \E id \in Ids : cancel(id)
  \/ \E ok \in BOOLEAN : onCredit(ok)
  \/ Loop
  \/ CreditArrives \/ CreditSpent

QueueSpec == QueueInit /\ [][QueueNext]_queueVars

(* A loop in progress runs to its end: it is straight-line code between    *)
(* two grants, and grants return.                                          *)
FairSpec == QueueSpec /\ WF_queueVars(Loop)

-----------------------------------------------------------------------------
(* "Transports allow one credit waiter" (UniStreamQueue.h): at most one    *)
(* future is outstanding, and one is exactly while waiting_ says so, apart *)
(* from the pass that consumes it.                                         *)
OneCreditWaiter ==
  /\ Len(waits) <= 1
  /\ waits # <<>> => waiting

(* No lost wakeup: outside the loops, an open queue with requests has a    *)
(* credit future outstanding, whatever the grants of the last pass did.    *)
NoLostWakeup ==
  alive /\ open /\ frames = <<>> /\ requests # {} => waits # <<>>

(* A grant is called at most once, and never for a request that is still   *)
(* pending, so a grant that re-enters the queue cannot be granted again.   *)
GrantedOnce ==
  \A id \in Ids : /\ Len(calls[id]) <= 1
                  /\ id \in requests => calls[id] = <<>>

(* FIFO within a priority: a request only overtakes an earlier one of its  *)
(* priority when that one was cancelled.                                   *)
FIFOWithinPriority ==
  \A i, j \in Ids :
    i < j /\ priority[i] = priority[j] /\ calls[j] # <<>> => i \notin requests

(* Every request pending at close(), or added by a grant while the queue   *)
(* is closing, has been failed when close() returns.                       *)
CloseFailsAll == alive /\ ~open /\ frames = <<>> => requests = {}

(* Requests for streams are served: one credit waiter and always one when  *)
(* it is needed, each request granted once and in turn, none left behind   *)
(* by close().                                                             *)
QueueServes ==
  OneCreditWaiter /\ NoLostWakeup /\ GrantedOnce /\ FIFOWithinPriority /\ CloseFailsAll

(* close() finishes: a closed queue ends up with no request and no loop,   *)
(* unless its owner destroys it first.                                     *)
CloseTerminates == (~open) ~> (~alive \/ (frames = <<>> /\ requests = {}))
=============================================================================
