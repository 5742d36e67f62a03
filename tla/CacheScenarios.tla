--------------------------- MODULE CacheScenarios ---------------------------
(***************************************************************************)
(* The scenarios MoQCache is checked in: what the track publishes, the     *)
(* limits of the cache, the FETCHes and what else may happen.              *)
(***************************************************************************)
EXTENDS Integers, Sequences

Published(g, o) == [loc |-> <<g, o>>, status |-> "N", pg |-> -1, po |-> -1]
GroupEnd(g, o) == [loc |-> <<g, o>>, status |-> "G", pg |-> -1, po |-> -1]
Fetch(n, s, e, order) == [n |-> n, start |-> s, end |-> e, order |-> order]
BaseScenario ==
    [script |-> <<>>, len |-> 0, tracks |-> 0, groups |-> 0, bytes |-> 0, low |-> 0, ttl |-> FALSE,
     subs |-> [s \in {"s1"} |-> "n1"], reqs |-> [f \in {"f1", "f2"} |-> {}], may |-> {}]

OneFetch(n, s, e, order) == [f \in {"f1", "f2"} |-> IF f = "f1" THEN {Fetch(n, s, e, order)} ELSE {}]

(* Two overlapping FETCHes of a track that is not cached; the upstream     *)
(* answer may be reset.                                                    *)
Two == <<Published(0, 0), GroupEnd(0, 1), Published(1, 0), Published(1, 1)>>
Asc == [BaseScenario EXCEPT !.script = Two, !.len = 3,
    !.reqs = [f \in {"f1", "f2"} |-> {Fetch("n1", <<0, 0>>, <<1, 2>>, "asc"),
                                 Fetch("n1", <<0, 1>>, <<1, 0>>, "asc")}],
    !.may = {"reset", "refuse", "begin"}]

(* A FETCH of a track a live subscription fills, with losses.              *)
Live == [BaseScenario EXCEPT !.script = Two, !.len = 2,
    !.reqs = OneFetch("n1", <<0, 0>>, <<1, 2>>, "asc"),
    !.may = {"subscribe", "publish", "unsubscribe", "lose", "begin"}]

(* Gap extensions and lost objects.                                        *)
GapScenario == [BaseScenario EXCEPT
    !.script = <<Published(0, 0), [Published(0, 2) EXCEPT !.po = 1], [Published(2, 0) EXCEPT !.pg = 1]>>, !.len = 1,
    !.reqs = OneFetch("n1", <<0, 0>>, <<2, 1>>, "asc"),
    !.may = {"subscribe", "publish", "lose", "datagram"}]

(* Newest group first.                                                     *)
Newest == <<Published(1, 0), Published(1, 1), Published(2, 0), Published(2, 1), Published(2, 2)>>
DescTwo == [BaseScenario EXCEPT !.script = Newest, !.len = 4,
    !.reqs = [f \in {"f1", "f2"} |-> {Fetch("n1", <<1, 1>>, <<2, 2>>, "desc"),
                                 Fetch("n1", <<1, 0>>, <<2, 0>>, "desc")}]]
DescMixed == [BaseScenario EXCEPT !.script = Newest, !.len = 4,
    !.reqs = [f \in {"f1", "f2"} |-> IF f = "f1" THEN {Fetch("n1", <<1, 0>>, <<2, 2>>, "desc")}
                                ELSE {Fetch("n1", <<1, 1>>, <<1, 2>>, "asc"),
                                      Fetch("n1", <<2, 1>>, <<2, 2>>, "asc")}]]

(* The downstream consumer blocks, fails or cancels.                       *)
Consumer == [BaseScenario EXCEPT !.script = Two, !.len = 4,
    !.reqs = [f \in {"f1", "f2"} |-> IF f = "f1" THEN {Fetch("n1", <<0, 0>>, <<1, 2>>, "asc")}
                                ELSE {Fetch("n1", <<0, 0>>, <<1, 0>>, "asc")}],
    !.may = {"blocked", "error", "cancel"}]

(* Objects expire, and upstream does not know of some.                     *)
Ttl == [BaseScenario EXCEPT !.script = <<Published(0, 0), Published(0, 1)>>, !.len = 2,
    !.reqs = [f \in {"f1", "f2"} |-> {Fetch("n1", <<0, 0>>, <<0, 2>>, "asc")}],
    !.may = {"age", "unknown"}]

(* The durations for which objects are kept change.                        *)
Durations == [Ttl EXCEPT !.reqs = OneFetch("n1", <<0, 0>>, <<0, 2>>, "asc"), !.may = {"age", "duration"}]

(* Limits on tracks, groups and bytes.                                     *)
Evict == [BaseScenario EXCEPT !.script = <<Published(0, 0), Published(1, 0), Published(2, 0)>>, !.len = 1,
    !.tracks = 2, !.groups = 1, !.bytes = 3, !.low = 2,
    !.reqs = [f \in {"f1", "f2"} |-> {Fetch(IF f = "f1" THEN "n2" ELSE "n3", <<0, 0>>, <<0, 1>>, "asc")}],
    !.may = {"subscribe", "publish", "datagram"}]

(* The cache is cleared while a subscription and a FETCH write into it.    *)
Clear == [BaseScenario EXCEPT !.script = Two, !.len = 2,
    !.reqs = OneFetch("n2", <<0, 0>>, <<1, 2>>, "asc"),
    !.may = {"subscribe", "publish", "clear"}]
CacheRuns == {Asc, Live, GapScenario, DescTwo, DescMixed, Consumer, Ttl, Durations, Evict, Clear}

(* Newest group first, with an object ID that does not exist.              *)
DescendingGap == {[DescTwo EXCEPT
    !.script = <<Published(1, 0), Published(1, 2), Published(2, 0), Published(2, 1), Published(2, 2)>>]}

(* A FETCH blocked on its consumer does not keep its track in the cache.   *)
Detached == {[BaseScenario EXCEPT
    !.script = <<Published(0, 0), Published(0, 1), Published(1, 0), Published(2, 0), Published(3, 0)>>,
    !.len = 2, !.tracks = 1, !.groups = 1, !.ttl = TRUE, !.subs = [s \in {"s1"} |-> "n2"],
    !.reqs = [f \in {"f1", "f2"} |-> {Fetch("n1", <<0, 0>>, <<0, 2>>, "asc")}],
    !.may = {"subscribe", "publish", "datagram", "blocked", "age"}]}
=============================================================================
