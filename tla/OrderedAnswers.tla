--------------------------- MODULE OrderedAnswers ---------------------------
(***************************************************************************)
(* What REQUEST_UPDATE promises to the application that sends them: every  *)
(* update is answered at most once, answers come in the order the updates  *)
(* were sent where they carry no id, and REQUEST_OK means that the         *)
(* publisher accepted the update.  Instead of an answer an update may fail *)
(* with its stream or session, or its caller may stop waiting.             *)
(***************************************************************************)
EXTENDS Naturals

CONSTANT Updates   \* request ids of the updates, in the order they are sent

VARIABLES ordered,  \* answers carry no id
          answer,   \* what the caller of each update knows
          decided   \* what the publisher's handler decided

vars == <<ordered, answer, decided>>

Init == /\ ordered \in BOOLEAN
        /\ answer = [u \in Updates |-> "unsent"]
        /\ decided = [u \in Updates |-> "open"]

(* Updates are sent in order; one that cannot be sent fails at once. *)
Send(u) ==
  /\ answer[u] = "unsent"
  /\ \A v \in Updates : v < u => answer[v] # "unsent"
  /\ \E a \in {"pending", "failed"} : answer' = [answer EXCEPT ![u] = a]
  /\ UNCHANGED <<ordered, decided>>

(* The handler decides about several updates at once. *)
Decide(us, d) ==
  /\ \A u \in us : decided[u] = "open"
  /\ decided' = [u \in Updates |-> IF u \in us THEN d ELSE decided[u]]
  /\ UNCHANGED <<ordered, answer>>

(* An update that is waiting is answered: the oldest, when answers carry no id. *)
Answer(u) ==
  /\ answer[u] = "pending"
  /\ ordered => \A v \in Updates : v < u => answer[v] # "pending"
  /\ decided[u] # "open"
  /\ answer' = [answer EXCEPT ![u] = decided[u]]
  /\ UNCHANGED <<ordered, decided>>

(* The stream or the session ends, or callers stop waiting. *)
Fail(us) ==
  /\ \A u \in us : answer[u] = "pending"
  /\ answer' = [u \in Updates |-> IF u \in us THEN "failed" ELSE answer[u]]
  /\ UNCHANGED <<ordered, decided>>

Next ==
  \/ \E u \in Updates : Send(u) \/ Answer(u)
  \/ \E us \in SUBSET Updates : Fail(us) \/ \E d \in {"ok", "error"} : Decide(us, d)

Spec == Init /\ [][Next]_vars
=============================================================================
