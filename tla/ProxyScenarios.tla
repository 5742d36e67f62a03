--------------------------- MODULE ProxyScenarios ---------------------------
(***************************************************************************)
(* The scenarios MoQProxyTrack is checked in, with two viewers, three      *)
(* upstream streams and two joining FETCHes: what the upstream publishes   *)
(* and sends, what is asked for, and what else may happen.                 *)
(***************************************************************************)
EXTENDS Integers, Sequences, TLC

NoLargest == <<-1, -1>>

E(op, id, len, fin) ==
    [op |-> op, id |-> id, status |-> "NORMAL", len |-> len, po |-> 0, pg |-> 0, fin |-> fin]
Obj(id, fin) == E("object", id, 1, fin)
Status(id, status) == [E("object", id, 0, TRUE) EXCEPT !.status = status]
Fin == E("end", 0, 0, TRUE)
Reset == E("reset", 0, 0, FALSE)
Stream(att, g, sg, last, ev) == [att |-> att, g |-> g, sg |-> sg, last |-> last, ev |-> ev]
Unused == Stream(4, 0, 0, FALSE, <<Fin>>)
NoJoin == [v |-> "", kind |-> "relative", start |-> 0, order |-> "OldestFirst"]
Relative(v, start, order) == [v |-> v, kind |-> "relative", start |-> start, order |-> order]
Absolute(v, start) == [v |-> v, kind |-> "absolute", start |-> start, order |-> "OldestFirst"]
T(g, ids) == {[g |-> g, id |-> i, status |-> "NORMAL"] : i \in ids}
Scenario(track, largest, x, y, z, j, k, may) ==
    [track |-> track, largest |-> largest, honest |-> TRUE, replaces |-> FALSE, may |-> may,
     streams |-> ("a" :> x @@ "b" :> y @@ "c" :> z), joins |-> ("j" :> j @@ "k" :> k)]

\* A second viewer joins while groups arrive, one of them piece by piece.
Shared ==
    Scenario(T(0, {0, 1}) \cup T(1, {0}), NoLargest,
             Stream(1, 0, 0, TRUE, <<Obj(0, FALSE), Obj(1, FALSE), Fin>>),
             Stream(1, 1, 0, FALSE, <<E("begin", 0, 2, FALSE), E("payload", 0, 0, TRUE)>>),
             Unused, Relative("v2", 1, "OldestFirst"), NoJoin, {"leave", "fail"})

\* The first provider's attempt delivers data and then fails.
Fallback ==
    Scenario(T(0, {0, 1}), NoLargest,
             Stream(1, 0, 0, FALSE, <<Obj(0, FALSE), Obj(1, TRUE)>>),
             Stream(2, 0, 0, FALSE, <<Obj(1, FALSE), Fin>>),
             Unused, Relative("v1", 0, "OldestFirst"), Relative("v2", 0, "OldestFirst"),
             {"throw", "refuse", "unavailable", "leave"})

\* Everyone leaves and the track is asked for again.
Again ==
    Scenario(T(0, {0, 1}), <<0, 0>>,
             Stream(1, 0, 0, FALSE, <<Obj(1, FALSE), Fin>>),
             Stream(3, 0, 0, FALSE, <<Obj(1, FALSE), Fin>>),
             Unused, Relative("v1", 0, "OldestFirst"), Relative("v2", 0, "OldestFirst"),
             {"leave", "fail"})

\* The upstream ends, or the proxy closes, with replays running or waiting.
Ending ==
    Scenario(T(0, {0, 1}), NoLargest,
             Stream(1, 0, 0, TRUE, <<Obj(0, FALSE), Obj(1, FALSE), Fin>>),
             Unused, Unused, Relative("v2", 0, "OldestFirst"), Absolute("v2", 1),
             {"done", "close", "cancel", "stall", "leave", "fail"})

\* Two groups fit, three are sent; replays hold what is evicted.
Evicting ==
    Scenario(T(0, {0, 1}) \cup T(1, {0}) \cup T(2, {0, 1}), NoLargest,
             Stream(1, 0, 0, TRUE, <<Obj(0, FALSE), Obj(1, TRUE)>>),
             Stream(1, 1, 0, TRUE, <<Obj(0, TRUE)>>),
             Stream(1, 2, 0, TRUE, <<E("object", 0, 4, FALSE), E("begin", 1, 2, FALSE), Reset>>),
             Relative("v2", 1, "OldestFirst"), NoJoin, {"stall"})

\* Two subgroups of one group out of order, gaps, the end of the track.
GapsAndEnd ==
    Scenario(T(0, {0, 2}) \cup {[g |-> 2, id |-> 0, status |-> "NORMAL"],
                                [g |-> 2, id |-> 1, status |-> "END_OF_TRACK"]}, NoLargest,
             Stream(1, 0, 0, FALSE, <<Obj(0, TRUE)>>),
             Stream(1, 0, 1, TRUE, <<[Obj(2, TRUE) EXCEPT !.po = 1]>>),
             Stream(1, 2, 0, FALSE, <<[Obj(0, FALSE) EXCEPT !.pg = 1], Status(1, "END_OF_TRACK")>>),
             Relative("v2", 2, "NewestFirst"), Relative("v2", 2, "OldestFirst"), {})

\* The end of a group is lost with its stream.
Lost ==
    Scenario(T(0, {0, 1}) \cup T(1, {0}), NoLargest,
             Stream(1, 0, 0, TRUE, <<Obj(0, FALSE), Reset>>),
             Stream(1, 1, 0, FALSE, <<Obj(0, FALSE), Fin>>),
             Unused, Relative("v2", 1, "OldestFirst"), NoJoin, {"cancel"})

\* A datagram beside a subgroup, and a stream that replaces another.
Replaced ==
    [Scenario(T(0, {0, 1, 2}), NoLargest,
             Stream(1, 0, 0, TRUE, <<Obj(0, FALSE), E("begin", 1, 2, FALSE), Reset>>),
             Stream(1, 0, 0, TRUE, <<E("object", 1, 2, FALSE), Obj(2, TRUE)>>),
             Stream(1, 0, 1, FALSE, <<E("datagram", 2, 1, FALSE)>>),
             Relative("v2", 0, "OldestFirst"), NoJoin, {"leave"}) EXCEPT !.replaces = TRUE]

\* A subgroup passes over an id that another one already went beyond.
PassedOver ==
    Scenario(T(0, {0, 2, 3}), NoLargest,
             Stream(1, 0, 0, FALSE, <<Obj(0, FALSE), E("begin", 3, 2, FALSE), E("payload", 3, 0, TRUE)>>),
             Stream(1, 0, 1, FALSE, <<Obj(2, FALSE), Fin>>),
             Unused, Relative("v2", 0, "OldestFirst"), NoJoin, {})

\* A publisher that contradicts itself.
Lying ==
    [Scenario({}, NoLargest,
              Stream(1, 0, 0, TRUE, <<Obj(0, FALSE), Obj(1, TRUE)>>),
              Stream(1, 0, 1, FALSE, <<Obj(2, FALSE), Status(1, "END_OF_GROUP")>>),
              Stream(1, 1, 0, FALSE, <<[Obj(0, FALSE) EXCEPT !.pg = 1], Fin>>),
              Relative("v2", 1, "OldestFirst"), NoJoin, {"leave"}) EXCEPT !.honest = FALSE]

ProxyRuns == {Shared, Fallback, Again, Ending, Evicting, GapsAndEnd, Lost, Replaced, PassedOver, Lying}
=============================================================================
