-------------------------- MODULE AbsoluteLocation --------------------------
(***************************************************************************)
(* AbsoluteLocation of MoQTypes.h: a group ID and an object ID, ordered    *)
(* lexicographically. MaxGroup and MaxObject stand for kEightByteLimit,    *)
(* the largest ID the wire can carry: the successor of the last object of  *)
(* a group is the first object of the next group. None is std::nullopt.    *)
(*                                                                         *)
(* The second part reads a plain SET of locations as the list of its       *)
(* maximal runs of adjacent members. It is what LocationIntervalSet        *)
(* promises to its users; module LocationIntervalSet shows that the sorted *)
(* map of intervals keeps that promise, and the cache modules use it.      *)
(***************************************************************************)
EXTENDS Integers, FiniteSets

CONSTANTS MaxGroup, MaxObject

None == <<-1, -1>>
Loc == (0..MaxGroup) \X (0..MaxObject)
kLocationMin == <<0, 0>>
kLocationMax == <<MaxGroup, MaxObject>>

Lt(a, b) == a[1] < b[1] \/ (a[1] = b[1] /\ a[2] < b[2])
Le(a, b) == Lt(a, b) \/ a = b
MinLoc(a, b) == IF Lt(b, a) THEN b ELSE a
MaxLoc(a, b) == IF Lt(a, b) THEN b ELSE a

next(a) ==
    IF a = kLocationMax THEN None
    ELSE IF a[2] = MaxObject THEN <<a[1] + 1, 0>>
    ELSE <<a[1], a[2] + 1>>

prev(a) ==
    IF a = kLocationMin THEN None
    ELSE IF a[2] = 0 THEN <<a[1] - 1, MaxObject>>
    ELSE <<a[1], a[2] - 1>>

nextInGroup(a) == IF a[2] = MaxObject THEN None ELSE <<a[1], a[2] + 1>>
nextGroup(a) == IF a[1] = MaxGroup THEN None ELSE <<a[1] + 1, 0>>
prevGroup(a) == IF a[1] = 0 THEN None ELSE <<a[1] - 1, 0>>
prevGroupEnd(a) == IF a[1] = 0 THEN None ELSE <<a[1] - 1, MaxObject>>
prevInGroup(a) == IF a[2] = 0 THEN None ELSE <<a[1], a[2] - 1>>

OrElse(a, b) == IF a = None THEN b ELSE a                        \* value_or

-----------------------------------------------------------------------------
(* A set of locations as its maximal runs.                                 *)

Between(a, b) == {l \in Loc : Le(a, l) /\ Le(l, b)}
InGroup(g) == {l \in Loc : l[1] = g}

Runs(S) ==
    {r \in S \X S :
        /\ Between(r[1], r[2]) \subseteq S
        /\ Le(r[1], r[2])
        /\ prev(r[1]) \notin S
        /\ next(r[2]) \notin S}

NoRun == <<None, None>>
RunOf(S, l) ==
    IF l \in S THEN CHOOSE r \in Runs(S) : l \in Between(r[1], r[2]) ELSE NoRun

(* The run after the one l lies in, or the first that starts at or after l *)
RunAfter(S, l) ==
    LET later == {r \in Runs(S) : Lt(l, r[1])}
    IN  IF later = {} THEN NoRun
        ELSE CHOOSE r \in later : \A q \in later : Le(r[1], q[1])

(* The run before the one l lies in, or the last that starts at or before l *)
RunBefore(S, l) ==
    LET earlier == {r \in Runs(S) : Lt(r[2], l)}
    IN  IF earlier = {} THEN NoRun
        ELSE CHOOSE r \in earlier : \A q \in earlier : Le(q[1], r[1])
=============================================================================
