--------------------------- MODULE NamespaceTree ---------------------------
(***************************************************************************)
(* The relay's prefix tree of NamespaceNodes (moxygen/relay/MoQRelay.h and *)
(* MoQRelay.cpp).  A tree is a function from the namespaces that have a    *)
(* node to their nodes; the root, <<>>, is always there.  The relay keeps  *)
(* two: publishNamespaceRoot_ and tracksSubscriberRoot_.  The operators    *)
(* take a tree and return the tree the code leaves behind; the walks along *)
(* parent_ are sets of prefixes.  A map of the code is the set of its      *)
(* <<key, value>> entries.                                                 *)
(***************************************************************************)
EXTENDS Integers, Sequences, FiniteSets

CONSTANTS
  Namespaces,  \* the namespaces in use: tuples of names, closed under prefix
  Tracks,      \* full track names: <<namespace, name>>
  Sessions,    \* MoQSessions
  None         \* the null session pointer

(* The names that namespaces are made of.                                  *)
Names == UNION {{ns[i] : i \in DOMAIN ns} : ns \in Namespaces}

(* NamespaceSubscriberInfo: the forward state and what a prefix asks for.  *)
Info == [forward : BOOLEAN, options : {"NAMESPACE", "PUBLISH", "BOTH"}]

NamespaceAssumption ==
  /\ Namespaces \subseteq Seq(Names)
  /\ <<>> \in Namespaces
  /\ \A ns \in Namespaces : \A i \in 0 .. Len(ns) : SubSeq(ns, 1, i) \in Namespaces
  /\ None \notin Sessions

(* TrackNamespace::startsWith, and the nodes on the way to ns.             *)
startsWith(ns, prefix) == Len(prefix) <= Len(ns) /\ SubSeq(ns, 1, Len(prefix)) = prefix
Prefixes(ns) == {SubSeq(ns, 1, i) : i \in 0 .. Len(ns)}
Ancestors(ns) == Prefixes(ns) \ {ns}
parent(ns) == SubSeq(ns, 1, Len(ns) - 1)

Keys(map) == {entry[1] : entry \in map}

EmptyNode ==
  [sourceSession |-> None, sessions |-> {}, publishes |-> {}, activeChildCount |-> 0]

EmptyTree == [ns \in {<<>>} |-> EmptyNode]

hasLocalSessions(node) ==
  node.publishes # {} \/ node.sessions # {} \/ node.sourceSession # None

shouldKeep(node) == hasLocalSessions(node) \/ node.activeChildCount > 0

(* findInTree with createMissingNodes, and the subscribers it collects on  *)
(* the way together with those of the node itself.                         *)
findInTree(t, ns) ==
  [p \in DOMAIN t \cup Prefixes(ns) |-> IF p \in DOMAIN t THEN t[p] ELSE EmptyNode]

SessionsAlong(t, ns) == UNION {t[p].sessions : p \in Prefixes(ns) \cap DOMAIN t}

(* Mutant: the first active child is not reported further up.              *)
incrementActiveChildren_OneLevel(t, ns) == [t EXCEPT ![ns].activeChildCount = @ + 1]

(* incrementActiveChildren, from ns upwards while the count was 0 and the  *)
(* node had no content of its own.                                         *)
incrementActiveChildren(t, ns) ==
  LET quiet(p) == t[p].activeChildCount = 0 /\ ~hasLocalSessions(t[p])
      raised == {p \in Prefixes(ns) :
                   \A q \in Prefixes(ns) : Len(p) < Len(q) => quiet(q)}
  IN [p \in DOMAIN t |->
        IF p \in raised THEN [t[p] EXCEPT !.activeChildCount = @ + 1] ELSE t[p]]

(* The first content of a node is reported to its parent.                  *)
addContent(t, ns, node, wasEmpty) ==
  IF wasEmpty /\ ns # <<>>
  THEN incrementActiveChildren([t EXCEPT ![ns] = node], parent(ns))
  ELSE [t EXCEPT ![ns] = node]

(* Mutant: the walk up does not stop at a node with content of its own.    *)
tryPruneChild_IgnoresContent(t, ns) ==
  LET empties(p) == t[p].activeChildCount = 1
      walked == {p \in Ancestors(ns) :
                   \A q \in Ancestors(ns) : Len(p) < Len(q) => empties(q)}
      emptied == {ns} \cup {p \in walked : p # <<>> /\ empties(p)}
      highest == CHOOSE p \in emptied : \A q \in emptied : Len(p) <= Len(q)
  IN IF ns \notin DOMAIN t \/ shouldKeep(t[ns]) THEN t
     ELSE [p \in {p \in DOMAIN t : ~startsWith(p, highest)} |->
             IF p \in walked THEN [t[p] EXCEPT !.activeChildCount = @ - 1] ELSE t[p]]

(* parent_->tryPruneChild(ns.back()): the walk takes one child from every  *)
(* ancestor up to the first that keeps something, and the highest node it  *)
(* emptied goes, with everything below it.                                 *)
tryPruneChild(t, ns) ==
  LET empties(p) == t[p].activeChildCount = 1 /\ ~hasLocalSessions(t[p])
      walked == {p \in Ancestors(ns) :
                   \A q \in Ancestors(ns) : Len(p) < Len(q) => empties(q)}
      emptied == {ns} \cup {p \in walked : p # <<>> /\ empties(p)}
      highest == CHOOSE p \in emptied : \A q \in emptied : Len(p) <= Len(q)
  IN IF ns \notin DOMAIN t \/ shouldKeep(t[ns]) THEN t
     ELSE [p \in {p \in DOMAIN t : ~startsWith(p, highest)} |->
             IF p \in walked THEN [t[p] EXCEPT !.activeChildCount = @ - 1] ELSE t[p]]

(* Removing content from a node prunes it if nothing else keeps it.        *)
removeContent(t, ns, node) ==
  IF hasLocalSessions(t[ns]) /\ ~shouldKeep(node) /\ ns # <<>>
  THEN tryPruneChild([t EXCEPT ![ns] = node], ns)
  ELSE [t EXCEPT ![ns] = node]

hasOverlappingSubscription(t, prefix, s) ==
  \E p \in DOMAIN t : /\ s \in Keys(t[p].sessions)
                      /\ startsWith(p, prefix) \/ startsWith(prefix, p)

addSession(t, prefix, s, info) ==
  LET t1 == findInTree(t, prefix)
  IN addContent(t1, prefix, [t1[prefix] EXCEPT !.sessions = @ \cup {<<s, info>>}],
                ~hasLocalSessions(t1[prefix]))

removeSession(t, prefix, s) ==
  removeContent(t, prefix, [t[prefix] EXCEPT !.sessions = {e \in @ : e[1] # s}])

InfoOf(t, prefix, s) == (CHOOSE e \in t[prefix].sessions : e[1] = s)[2]

(* updateSubscriptionPrefix: take the registration out, and put it back    *)
(* under the new prefix, or under the old one if the new one overlaps.     *)
updateSubscriptionPrefix(t, oldPrefix, newPrefix, s) ==
  LET info == InfoOf(t, oldPrefix, s)
      detached == removeSession(t, oldPrefix, s)
  IN IF hasOverlappingSubscription(detached, newPrefix, s)
     THEN [ok |-> FALSE, tree |-> addSession(detached, oldPrefix, s, info)]
     ELSE [ok |-> TRUE, tree |-> addSession(detached, newPrefix, s, info)]

(* The forward state of a registration is updated in place.                *)
SetForward(t, prefix, s, forward) ==
  [t EXCEPT ![prefix].sessions =
     {IF e[1] = s THEN <<s, [e[2] EXCEPT !.forward = forward]>> ELSE e : e \in @}]

(* The PUBLISH of a track ends.                                            *)
removePublish(t, track) ==
  IF track[1] \notin DOMAIN t THEN t
  ELSE removeContent(t, track[1],
         [t[track[1]] EXCEPT !.publishes = {e \in @ : e[1] # track[2]}])

(* The publisher of the closest namespace above a track.                   *)
findPublishNamespaceSession(t, ns) ==
  LET sources == {p \in Prefixes(ns) \cap DOMAIN t : t[p].sourceSession # None}
  IN IF sources = {} THEN None
     ELSE t[CHOOSE p \in sources : \A q \in sources : Len(q) <= Len(p)].sourceSession

-----------------------------------------------------------------------------
(* What a tree must look like, whatever calls built it.                    *)

(* A node that keeps content is reachable and counted: its parent is there *)
(* and counts at least its children with content, so no pruning can take   *)
(* a live registration away, and the XCHECK on the counter holds.  "At     *)
(* least": a node with active children that gains content counts again.    *)
ContentIsCounted(t) ==
  /\ <<>> \in DOMAIN t
  /\ \A p \in DOMAIN t : Prefixes(p) \subseteq DOMAIN t
  /\ \A p \in DOMAIN t :
       t[p].activeChildCount >=
         Cardinality({q \in DOMAIN t : q # <<>> /\ parent(q) = p /\ shouldKeep(t[q])})

(* The prefixes of one session do not overlap.                             *)
PrefixesDisjoint(t) ==
  \A p, q \in DOMAIN t :
    p # q /\ startsWith(q, p) => Keys(t[p].sessions) \cap Keys(t[q].sessions) = {}
=============================================================================
