------------------------- MODULE NamespaceTreeProofs -------------------------
(***************************************************************************)
(* Proofs about the relay's prefix trees, for any namespaces, sessions and *)
(* tracks.                                                                 *)
(***************************************************************************)
EXTENDS NamespaceTree, SequenceTheorems, FiniteSetTheorems, NaturalsInduction,
        WellFoundedInduction, TLAPS

-----------------------------------------------------------------------------
(* Prefixes.                                                               *)

(* p is a prefix of q, element by element.                                 *)
Begins(p, q) == p \in Seq(Names) /\ Len(p) <= Len(q) /\ \A i \in 1 .. Len(p) : p[i] = q[i]

LEMMA Cut ==
  ASSUME NEW q \in Seq(Names), NEW n \in 0 .. Len(q)
  PROVE  /\ SubSeq(q, 1, n) \in Seq(Names) /\ Len(SubSeq(q, 1, n)) = n
         /\ \A i \in 1 .. n : SubSeq(q, 1, n)[i] = q[i]
<1>1. Len(q) \in Nat /\ n \in Int /\ 1 \in Int /\ \A i \in 1 .. n : q[i] \in Names
  BY LenProperties, ElementOfSeq
<1>2. /\ SubSeq(q, 1, n) \in Seq(Names)
      /\ Len(SubSeq(q, 1, n)) = IF 1 <= n THEN n - 1 + 1 ELSE 0
      /\ \A i \in 1 .. n - 1 + 1 : SubSeq(q, 1, n)[i] = q[1 + i - 1]
  BY <1>1, SubSeqProperties
<1> QED
  BY <1>1, <1>2

LEMMA PrefixesBegin ==
  ASSUME NEW q \in Seq(Names), NEW p PROVE p \in Prefixes(q) <=> Begins(p, q)
<1>1. ASSUME p \in Prefixes(q) PROVE Begins(p, q)
  <2>1. PICK n \in 0 .. Len(q) : p = SubSeq(q, 1, n)
    BY <1>1, Zenon DEF Prefixes
  <2>2. Len(q) \in Nat
    BY LenProperties, Zenon
  <2> QED
    BY <2>1, <2>2, Cut DEF Begins
<1>2. ASSUME Begins(p, q) PROVE p \in Prefixes(q)
  <2> DEFINE n == Len(p)
             c == SubSeq(q, 1, n)
  <2>1. p \in Seq(Names) /\ Len(q) \in Nat /\ n \in Nat /\ n <= Len(q) /\ \A i \in 1 .. n : p[i] = q[i]
    BY <1>2, LenProperties, Zenon DEF Begins
  <2>2. n \in 0 .. Len(q)
    BY <2>1
  <2>3. c \in Seq(Names) /\ Len(c) = n /\ \A i \in 1 .. n : c[i] = q[i]
    BY <2>2, Cut, Zenon
  <2>4. c = p
    <3> HIDE DEF c
    <3> QED
      BY <2>1, <2>3, SeqEqual, Zenon
  <2> QED
    BY <2>2, <2>4, Zenon DEF Prefixes
<1> QED
  BY <1>1, <1>2, Zenon

(* The order of prefixes.                                                  *)
LEMMA PrefixOrder ==
  ASSUME NEW q \in Seq(Names)
  PROVE  /\ q \in Prefixes(q) /\ <<>> \in Prefixes(q)
         /\ \A p \in Prefixes(q) : /\ p \in Seq(Names) /\ Len(p) \in Nat /\ Len(p) <= Len(q)
                                   /\ Prefixes(p) \subseteq Prefixes(q)
         /\ \A p, r \in Prefixes(q) : Len(p) <= Len(r) => p \in Prefixes(r)
         /\ \A p \in Prefixes(q) : Len(p) = Len(q) => p = q
<1>1. Len(q) \in Nat
  BY LenProperties, Zenon
<1>2. q \in Prefixes(q)
  BY <1>1, PrefixesBegin DEF Begins
<1>3. <<>> \in Prefixes(q)
  <2>1. <<>> \in Seq(Names) /\ Len(<<>>) = 0
    BY EmptySeq, Zenon
  <2>2. Begins(<<>>, q)
    BY <1>1, <2>1 DEF Begins
  <2> QED
    BY <2>2, PrefixesBegin, Zenon
<1>4. ASSUME NEW p \in Prefixes(q)
      PROVE  p \in Seq(Names) /\ Len(p) \in Nat /\ Len(p) <= Len(q) /\ \A i \in 1 .. Len(p) : p[i] = q[i]
  BY PrefixesBegin, LenProperties, Zenon DEF Begins
<1>5. ASSUME NEW p \in Prefixes(q), NEW x \in Prefixes(p) PROVE x \in Prefixes(q)
  <2>1. /\ p \in Seq(Names) /\ Len(p) \in Nat /\ Len(p) <= Len(q)
        /\ \A i \in 1 .. Len(p) : p[i] = q[i]
    BY <1>4, Zenon
  <2>2. x \in Seq(Names) /\ Len(x) <= Len(p) /\ \A i \in 1 .. Len(x) : x[i] = p[i]
    BY <2>1, PrefixesBegin, Zenon DEF Begins
  <2>3. Len(x) \in Nat
    BY <2>2, LenProperties, Zenon
  <2>4. Begins(x, q)
    BY <1>1, <2>1, <2>2, <2>3 DEF Begins
  <2> QED
    BY <2>4, PrefixesBegin, Zenon
<1>6. ASSUME NEW p \in Prefixes(q), NEW r \in Prefixes(q), Len(p) <= Len(r) PROVE p \in Prefixes(r)
  <2>1. Begins(p, r)
    BY <1>4, <1>6 DEF Begins
  <2> QED
    BY <1>4, <2>1, PrefixesBegin, Zenon
<1>7. ASSUME NEW p \in Prefixes(q), Len(p) = Len(q) PROVE p = q
  BY <1>4, <1>7, SeqEqual, Zenon
<1> QED
  BY <1>2, <1>3, <1>4, <1>5, <1>6, <1>7, Zenon

(* The parent of a namespace is the longest prefix but itself.             *)
LEMMA ParentOrder ==
  ASSUME NEW q \in Seq(Names), q # <<>>
  PROVE  /\ parent(q) \in Prefixes(q) /\ Len(parent(q)) + 1 = Len(q) /\ parent(q) # q
         /\ \A p \in Prefixes(q) : p # q => p \in Prefixes(parent(q))
<1>1. Len(q) \in Nat /\ Len(q) # 0
  BY EmptySeq, Zenon
<1>2. Len(q) - 1 \in 0 .. Len(q)
  BY <1>1
<1>3. parent(q) \in Prefixes(q) /\ Len(parent(q)) = Len(q) - 1
  BY <1>2, Cut, Zenon DEF parent, Prefixes
<1>4. ASSUME NEW p \in Prefixes(q), p # q PROVE p \in Prefixes(parent(q))
  <2>1. Len(p) \in Nat /\ Len(p) <= Len(q) /\ Len(p) # Len(q)
    BY <1>4, PrefixOrder, Zenon
  <2>2. Len(p) <= Len(parent(q))
    BY <1>1, <1>3, <2>1
  <2> QED
    BY <1>3, <2>2, PrefixOrder, Zenon
<1>5. Len(parent(q)) + 1 = Len(q) /\ parent(q) # q
  BY <1>1, <1>3
<1> QED
  BY <1>3, <1>4, <1>5, Zenon

LEMMA PrefixesFinite ==
  ASSUME NEW q \in Seq(Names) PROVE IsFiniteSet(Prefixes(q))
<1> DEFINE f == [i \in 0 .. Len(q) |-> SubSeq(q, 1, i)]
<1>1. Len(q) \in Nat
  BY LenProperties, Zenon
<1>2. IsFiniteSet(0 .. Len(q))
  BY <1>1, FS_Interval
<1>3. f \in Surjection(0 .. Len(q), Prefixes(q))
  BY Zenon DEF Surjection, Prefixes
<1> QED
  BY <1>2, <1>3, FS_Surjection, Zenon

LEMMA StartsPrefixes ==
  ASSUME NEW p \in Seq(Names), NEW q \in Seq(Names) PROVE startsWith(q, p) <=> p \in Prefixes(q)
<1>1. Len(p) \in Nat /\ Len(q) \in Nat
  BY LenProperties, Zenon
<1>2. ASSUME startsWith(q, p) PROVE p \in Prefixes(q)
  <2>1. Len(p) \in 0 .. Len(q) /\ p = SubSeq(q, 1, Len(p))
    BY <1>1, <1>2 DEF startsWith
  <2> QED
    BY <2>1, Zenon DEF Prefixes
<1>3. ASSUME p \in Prefixes(q) PROVE startsWith(q, p)
  <2>1. PICK n \in 0 .. Len(q) : p = SubSeq(q, 1, n)
    BY <1>3, Zenon DEF Prefixes
  <2>2. Len(p) = n
    BY <2>1, Cut, Zenon
  <2> QED
    BY <1>1, <2>1, <2>2 DEF startsWith
<1> QED
  BY <1>2, <1>3, Zenon
-----------------------------------------------------------------------------
(* Trees.                                                                  *)

TrackNames == {track[2] : track \in Tracks}
Node == [sourceSession : Sessions \cup {None}, sessions : SUBSET (Sessions \X Info),
         publishes : SUBSET (TrackNames \X Sessions), activeChildCount : Nat]

Shaped(t) ==
  DOMAIN t \subseteq Namespaces /\ IsFiniteSet(DOMAIN t) /\ t \in [DOMAIN t -> Node]
Closed(t) == <<>> \in DOMAIN t /\ \A p \in DOMAIN t : Prefixes(p) \subseteq DOMAIN t

(* The children of p that keep something.                                  *)
Kept(t, p) == {q \in DOMAIN t : q # <<>> /\ parent(q) = p /\ shouldKeep(t[q])}


SetNode(t, ns, node) == [t EXCEPT ![ns] = node]
Bump(node, k) == [node EXCEPT !.activeChildCount = @ + k]

LEMMA Counted ==
  ASSUME NEW t
  PROVE  ContentIsCounted(t) <=>
           Closed(t) /\ \A p \in DOMAIN t : t[p].activeChildCount >= Cardinality(Kept(t, p))
BY Zenon DEF ContentIsCounted, Closed, Kept

LEMMA KeepMeans ==
  ASSUME NEW node \in Node
  PROVE  shouldKeep(node) <=> hasLocalSessions(node) \/ node.activeChildCount # 0
<1>1. node.activeChildCount \in Nat
  BY Zenon DEF Node
<1> QED
  BY <1>1 DEF shouldKeep

LEMMA EmptyNodeShape ==
  EmptyNode \in Node /\ ~shouldKeep(EmptyNode) /\ ~hasLocalSessions(EmptyNode)
    /\ Keys(EmptyNode.sessions) = {} /\ EmptyNode.activeChildCount = 0
BY DEF EmptyNode, Node, shouldKeep, hasLocalSessions, Keys

LEMMA BumpShape ==
  ASSUME NEW node \in Node, NEW k \in Int, node.activeChildCount + k \in Nat
  PROVE  /\ Bump(node, k) \in Node
         /\ Bump(node, k).activeChildCount = node.activeChildCount + k
         /\ Bump(node, k).sessions = node.sessions
         /\ Bump(node, k).publishes = node.publishes
         /\ Bump(node, k).sourceSession = node.sourceSession
         /\ hasLocalSessions(Bump(node, k)) <=> hasLocalSessions(node)
BY Zenon DEF Bump, Node, hasLocalSessions

LEMMA SetNodeShape ==
  ASSUME NEW t, Shaped(t), NEW ns \in DOMAIN t, NEW node \in Node
  PROVE  LET u == SetNode(t, ns, node)
         IN  /\ Shaped(u) /\ DOMAIN u = DOMAIN t
             /\ \A p \in DOMAIN t : u[p] = IF p = ns THEN node ELSE t[p]
BY Zenon DEF Shaped, SetNode

LEMMA NamespacesAreSeqs ==
  ASSUME NamespaceAssumption, NEW t, Shaped(t), NEW p \in DOMAIN t
  PROVE  p \in Seq(Names) /\ t[p] \in Node /\ t[p].activeChildCount \in Nat
BY Zenon DEF NamespaceAssumption, Shaped, Node

LEMMA KeptFinite ==
  ASSUME NEW t, Shaped(t), NEW p
  PROVE  IsFiniteSet(Kept(t, p)) /\ Cardinality(Kept(t, p)) \in Nat
<1>1. Kept(t, p) \in SUBSET DOMAIN t
  BY Zenon DEF Kept
<1>2. IsFiniteSet(Kept(t, p))
  BY <1>1, FS_Subset, Zenon DEF Shaped
<1> QED
  BY <1>2, FS_CardinalityType, Zenon

(* The three ways a count and the children it counts change together.      *)
LEMMA CountKept ==
  ASSUME NEW t, Shaped(t), NEW p \in DOMAIN t, t[p].activeChildCount >= Cardinality(Kept(t, p)),
         NEW u, Shaped(u), p \in DOMAIN u, u[p].activeChildCount = t[p].activeChildCount,
         Kept(u, p) \subseteq Kept(t, p)
  PROVE  u[p].activeChildCount >= Cardinality(Kept(u, p))
<1>1. Cardinality(Kept(u, p)) <= Cardinality(Kept(t, p))
  BY KeptFinite, FS_Subset, Zenon
<1>2. Cardinality(Kept(u, p)) \in Nat /\ Cardinality(Kept(t, p)) \in Nat
  BY KeptFinite, Zenon
<1>3. t[p].activeChildCount \in Nat
  BY Zenon DEF Shaped, Node
<1> QED
  BY <1>1, <1>2, <1>3

LEMMA CountRaised ==
  ASSUME NEW t, Shaped(t), NEW p \in DOMAIN t, t[p].activeChildCount >= Cardinality(Kept(t, p)),
         NEW u, Shaped(u), p \in DOMAIN u, u[p].activeChildCount = t[p].activeChildCount + 1,
         NEW c, Kept(u, p) \subseteq Kept(t, p) \cup {c}
  PROVE  u[p].activeChildCount >= Cardinality(Kept(u, p))
<1>1. IsFiniteSet(Kept(t, p)) /\ Cardinality(Kept(t, p)) \in Nat /\ Cardinality(Kept(u, p)) \in Nat
  BY KeptFinite, Zenon
<1>2. /\ IsFiniteSet(Kept(t, p) \cup {c})
      /\ Cardinality(Kept(t, p) \cup {c}) =
           IF c \in Kept(t, p) THEN Cardinality(Kept(t, p)) ELSE Cardinality(Kept(t, p)) + 1
  BY <1>1, FS_AddElement, Zenon
<1>3. Cardinality(Kept(u, p)) <= Cardinality(Kept(t, p) \cup {c})
  BY <1>2, FS_Subset, Zenon
<1>4. t[p].activeChildCount \in Nat
  BY Zenon DEF Shaped, Node
<1> QED
  BY <1>1, <1>2, <1>3, <1>4

LEMMA CountLowered ==
  ASSUME NEW t, Shaped(t), NEW p \in DOMAIN t, t[p].activeChildCount >= Cardinality(Kept(t, p)),
         NEW u, Shaped(u), p \in DOMAIN u, u[p].activeChildCount = t[p].activeChildCount - 1,
         NEW c \in Kept(t, p), Kept(u, p) \subseteq Kept(t, p) \ {c}
  PROVE  u[p].activeChildCount >= Cardinality(Kept(u, p))
<1>1. IsFiniteSet(Kept(t, p)) /\ Cardinality(Kept(t, p)) \in Nat /\ Cardinality(Kept(u, p)) \in Nat
  BY KeptFinite, Zenon
<1>2. /\ IsFiniteSet(Kept(t, p) \ {c})
      /\ Cardinality(Kept(t, p) \ {c}) = Cardinality(Kept(t, p)) - 1
  BY <1>1, FS_RemoveElement, Zenon
<1>3. Cardinality(Kept(u, p)) <= Cardinality(Kept(t, p) \ {c})
  BY <1>2, FS_Subset, Zenon
<1>4. t[p].activeChildCount \in Nat
  BY Zenon DEF Shaped, Node
<1> QED
  BY <1>1, <1>2, <1>3, <1>4

(* A node with a child that keeps something has it counted.                *)
LEMMA CountPositive ==
  ASSUME NEW t, Shaped(t), NEW p \in DOMAIN t, t[p].activeChildCount >= Cardinality(Kept(t, p)),
         NEW c \in Kept(t, p)
  PROVE  /\ t[p].activeChildCount \in Nat /\ t[p].activeChildCount >= 1
         /\ t[p].activeChildCount = 1 => Kept(t, p) = {c}
<1>1. IsFiniteSet(Kept(t, p)) /\ Cardinality(Kept(t, p)) \in Nat
  BY KeptFinite, Zenon
<1>2. Cardinality(Kept(t, p)) # 0
  BY <1>1, FS_EmptySet, Zenon
<1>3. t[p].activeChildCount \in Nat
  BY Zenon DEF Shaped, Node
<1>4. ASSUME t[p].activeChildCount = 1 PROVE Kept(t, p) = {c}
  <2>1. Cardinality(Kept(t, p)) = 1
    BY <1>1, <1>2, <1>4
  <2> QED
    BY <1>1, <2>1, FS_Singleton
<1> QED
  BY <1>1, <1>2, <1>3, <1>4

-----------------------------------------------------------------------------
(* What a tree holds, whatever its counters and its empty nodes: the       *)
(* publisher, the registrations and the publishes of every namespace.      *)
Content(node) == <<node.sourceSession, node.sessions, node.publishes>>
Local(t, ns) == IF ns \in DOMAIN t THEN Content(t[ns]) ELSE <<None, {}, {}>>

Sound(t) == Shaped(t) /\ ContentIsCounted(t)

LEMMA ContentIsLocal ==
  ASSUME NEW x \in Node, NEW y \in Node, Content(x) = Content(y)
  PROVE  /\ hasLocalSessions(x) <=> hasLocalSessions(y)
         /\ x.sourceSession = y.sourceSession /\ x.sessions = y.sessions
         /\ x.publishes = y.publishes
BY Zenon DEF Content, hasLocalSessions

LEMMA NothingLocal ==
  ASSUME NEW x \in Node, ~hasLocalSessions(x) PROVE Content(x) = <<None, {}, {}>>
BY Zenon DEF Content, hasLocalSessions

(* findInTree makes empty nodes, and nothing else.                         *)
LEMMA FoundInTree ==
  ASSUME NamespaceAssumption, NEW t, Sound(t), NEW ns \in Namespaces
  PROVE  LET u == findInTree(t, ns)
         IN  /\ Sound(u) /\ ns \in DOMAIN u /\ DOMAIN t \subseteq DOMAIN u
             /\ \A p \in Namespaces : Local(u, p) = Local(t, p)
             /\ DOMAIN u = DOMAIN t \cup Prefixes(ns)
             /\ \A p \in DOMAIN u : u[p] = IF p \in DOMAIN t THEN t[p] ELSE EmptyNode
<1> DEFINE u == findInTree(t, ns)
<1>1. ns \in Seq(Names) /\ ns \in Prefixes(ns) /\ IsFiniteSet(Prefixes(ns))
  BY PrefixOrder, PrefixesFinite, Zenon DEF NamespaceAssumption
<1>2. Prefixes(ns) \subseteq Namespaces
  BY Zenon DEF Prefixes, NamespaceAssumption
<1>3. /\ DOMAIN u = DOMAIN t \cup Prefixes(ns)
      /\ \A p \in DOMAIN u : u[p] = IF p \in DOMAIN t THEN t[p] ELSE EmptyNode
      /\ u = [p \in DOMAIN u |-> u[p]]
  BY Zenon DEF findInTree
<1> HIDE DEF u
<1>4. Shaped(t) /\ Closed(t) /\ \A p \in DOMAIN t : t[p].activeChildCount >= Cardinality(Kept(t, p))
  BY Counted, Zenon DEF Sound
<1>5. Shaped(u)
  <2>1. IsFiniteSet(DOMAIN u)
    <3>1. IsFiniteSet(DOMAIN t)
      BY <1>4, Zenon DEF Shaped
    <3>2. IsFiniteSet(DOMAIN t \cup Prefixes(ns))
      BY <1>1, <3>1, FS_Union, Zenon
    <3> QED
      BY <1>3, <3>2, Zenon
  <2>2. \A p \in DOMAIN u : u[p] \in Node
    BY <1>3, <1>4, EmptyNodeShape, Zenon DEF Shaped
  <2> QED
    BY <1>2, <1>3, <1>4, <2>1, <2>2, Zenon DEF Shaped
<1>6. Closed(u)
  <2>1. \A p \in Prefixes(ns) : Prefixes(p) \subseteq Prefixes(ns)
    BY <1>1, PrefixOrder, Zenon
  <2> QED
    BY <1>3, <1>4, <2>1, Zenon DEF Closed
<1>7. ASSUME NEW p \in DOMAIN u PROVE u[p].activeChildCount >= Cardinality(Kept(u, p))
  <2>1. Kept(u, p) \subseteq Kept(t, p)
    BY <1>3, EmptyNodeShape, Zenon DEF Kept
  <2>2. CASE p \in DOMAIN t
    BY <1>3, <1>4, <1>5, <2>1, <2>2, CountKept, Zenon
  <2>3. CASE p \notin DOMAIN t
    <3>1. Kept(t, p) = {}
      <4> SUFFICES ASSUME NEW q \in DOMAIN t, q # <<>>, parent(q) = p PROVE FALSE
        BY Zenon DEF Kept
      <4>1. parent(q) \in Prefixes(q)
        BY <1>4, NamespacesAreSeqs, ParentOrder, Zenon
      <4> QED
        BY <1>4, <2>3, <4>1, Zenon DEF Closed
    <3>2. Kept(u, p) = {}
      BY <2>1, <3>1, Zenon
    <3>3. u[p].activeChildCount = 0
      BY <1>3, <2>3, EmptyNodeShape, Zenon
    <3> QED
      BY <3>2, <3>3, FS_EmptySet
  <2> QED
    BY <2>2, <2>3, Zenon
<1>8. Sound(u)
  BY <1>5, <1>6, <1>7, Counted, Zenon DEF Sound
<1>9. \A p \in Namespaces : Local(u, p) = Local(t, p)
  <2>1. Content(EmptyNode) = <<None, {}, {}>>
    BY Zenon DEF Content, EmptyNode
  <2> QED
    BY <1>3, <2>1, Zenon DEF Local
<1> QED
  BY <1>1, <1>3, <1>8, <1>9, Zenon DEF u

(* A set of naturals has a least element.                                  *)
LEMMA LeastNatural ==
  ASSUME NEW S \in SUBSET Nat, S # {} PROVE \E n \in S : \A m \in S : n <= m
<1>1. \E n \in S : \A m \in S : ~(m < n)
  <2>1. IsWellFoundedOn(OpToRel(<, Nat), Nat)
    BY NatLessThanWellFounded, Zenon
  <2>2. PICK n \in S : \A m \in S : ~ (<<m, n>> \in OpToRel(<, Nat))
    BY <2>1, WFMin, Zenon
  <2> QED
    BY <2>2, Zenon DEF OpToRel
<1> QED
  BY <1>1

(* A child that keeps something makes its parent keep it ...               *)
LEMMA ParentKeeps ==
  ASSUME NamespaceAssumption, NEW t, Sound(t), NEW q \in DOMAIN t, q # <<>>, shouldKeep(t[q])
  PROVE  /\ parent(q) \in DOMAIN t /\ q \in Kept(t, parent(q)) /\ shouldKeep(t[parent(q)])
         /\ t[parent(q)].activeChildCount \in Nat /\ t[parent(q)].activeChildCount >= 1
         /\ t[parent(q)].activeChildCount = 1 => Kept(t, parent(q)) = {q}
<1>1. Shaped(t) /\ Closed(t) /\ \A p \in DOMAIN t : t[p].activeChildCount >= Cardinality(Kept(t, p))
  BY Counted, Zenon DEF Sound
<1>2. parent(q) \in Prefixes(q)
  BY <1>1, NamespacesAreSeqs, ParentOrder, Zenon
<1>3. parent(q) \in DOMAIN t
  BY <1>1, <1>2, Zenon DEF Closed
<1>4. q \in Kept(t, parent(q))
  BY Zenon DEF Kept
<1>5. /\ t[parent(q)].activeChildCount \in Nat /\ t[parent(q)].activeChildCount >= 1
      /\ t[parent(q)].activeChildCount = 1 => Kept(t, parent(q)) = {q}
  BY <1>1, <1>3, <1>4, CountPositive, Zenon
<1> QED
  BY <1>3, <1>4, <1>5 DEF shouldKeep

(* ... and so does every node above it.                                    *)
LEMMA AncestorsKeep ==
  ASSUME NamespaceAssumption, NEW t, Sound(t), NEW q \in DOMAIN t, shouldKeep(t[q]),
         NEW p \in Prefixes(q)
  PROVE  p \in DOMAIN t /\ shouldKeep(t[p])
<1>1. Shaped(t) /\ Closed(t)
  BY Counted, Zenon DEF Sound
<1>2. q \in Seq(Names) /\ Len(q) \in Nat
  BY <1>1, NamespacesAreSeqs, LenProperties, Zenon
<1> DEFINE up(k) == SubSeq(q, 1, Len(q) - k)
           S == {k \in 0 .. Len(q) : ~shouldKeep(t[up(k)])}
<1>3. \A k \in 0 .. Len(q) : up(k) \in Prefixes(q) /\ Len(up(k)) = Len(q) - k
  <2> SUFFICES ASSUME NEW k \in 0 .. Len(q) PROVE up(k) \in Prefixes(q) /\ Len(up(k)) = Len(q) - k
    BY Zenon
  <2>1. Len(q) - k \in 0 .. Len(q)
    BY <1>2
  <2> QED
    BY <1>2, <2>1, Cut, Zenon DEF Prefixes
<1>4. up(0) = q
  BY <1>2, <1>3, PrefixOrder
<1>5. \A k \in 0 .. Len(q) : k # 0 => up(k - 1) # <<>> /\ parent(up(k - 1)) = up(k)
  <2> SUFFICES ASSUME NEW k \in 0 .. Len(q), k # 0
               PROVE  up(k - 1) # <<>> /\ parent(up(k - 1)) = up(k)
    BY Zenon
  <2>1. k - 1 \in 0 .. Len(q) /\ Len(q) - (k - 1) # 0
    BY <1>2
  <2>2. up(k - 1) \in Prefixes(q) /\ Len(up(k - 1)) = Len(q) - (k - 1)
    BY <1>3, <2>1, Zenon
  <2>3. up(k - 1) # <<>> /\ up(k - 1) \in Seq(Names)
    BY <1>2, <2>1, <2>2, EmptySeq, PrefixOrder, Zenon
  <2>4. /\ parent(up(k - 1)) \in Prefixes(up(k - 1))
        /\ Len(parent(up(k - 1))) + 1 = Len(up(k - 1))
    BY <2>3, ParentOrder, Zenon
  <2>5. parent(up(k - 1)) \in Prefixes(q)
    BY <1>2, <2>2, <2>4, PrefixOrder
  <2>6. Len(parent(up(k - 1))) = Len(up(k)) /\ up(k) \in Prefixes(q)
    <3>1. Len(parent(up(k - 1))) \in Nat
      BY <1>2, <2>5, PrefixOrder, Zenon
    <3> QED
      BY <1>2, <1>3, <2>2, <2>4, <3>1
  <2>7. up(k) \in Seq(Names) /\ Len(up(k)) \in Nat
    BY <1>2, <2>6, PrefixOrder, Zenon
  <2>8. parent(up(k - 1)) \in Prefixes(up(k))
    <3> HIDE DEF up
    <3>1. Len(parent(up(k - 1))) <= Len(up(k))
      BY <2>6, <2>7
    <3> QED
      BY <1>2, <2>5, <2>6, <3>1, PrefixOrder
  <2> HIDE DEF up
  <2> QED
    BY <2>3, <2>6, <2>7, <2>8, PrefixOrder
<1> HIDE DEF up
<1>6. S = {}
  <2> SUFFICES ASSUME S # {} PROVE FALSE
    BY Zenon
  <2>1. S \in SUBSET Nat
    BY <1>2
  <2>2. PICK k \in S : \A m \in S : k <= m
    BY <2>1, LeastNatural, Zenon
  <2>3. k \in 0 .. Len(q) /\ k # 0
    BY <1>4, <2>2, Zenon
  <2>4. k - 1 \in 0 .. Len(q) /\ k - 1 \notin S
    BY <1>2, <2>2, <2>3
  <2>5. up(k - 1) \in DOMAIN t /\ shouldKeep(t[up(k - 1)])
    BY <1>1, <1>3, <2>4, Zenon DEF Closed
  <2>6. shouldKeep(t[up(k)])
    BY <1>5, <2>3, <2>5, ParentKeeps, Zenon
  <2> QED
    BY <2>2, <2>6, Zenon
<1>7. PICK n \in 0 .. Len(q) : p = SubSeq(q, 1, n)
  BY Zenon DEF Prefixes
<1>8. Len(q) - n \in 0 .. Len(q) /\ Len(q) - (Len(q) - n) = n
  BY <1>2
<1>9. p = up(Len(q) - n)
  BY <1>7, <1>8, Zenon DEF up
<1> QED
  BY <1>1, <1>6, <1>8, <1>9, Zenon DEF Closed

-----------------------------------------------------------------------------
(* Content comes.                                                          *)

(* What incrementActiveChildren(t, ns) raises, ns and upwards.             *)
Quiet(t, p) == t[p].activeChildCount = 0 /\ ~hasLocalSessions(t[p])
Raised(t, ns) ==
  {p \in Prefixes(ns) : \A q \in Prefixes(ns) : Len(p) < Len(q) => Quiet(t, q)}

LEMMA RaisedShape ==
  ASSUME NamespaceAssumption, NEW t, Shaped(t), NEW ns \in DOMAIN t
  PROVE  LET u == incrementActiveChildren(t, ns)
         IN  /\ DOMAIN u = DOMAIN t /\ Shaped(u)
             /\ \A p \in DOMAIN t :
                  u[p] = IF p \in Raised(t, ns) THEN Bump(t[p], 1) ELSE t[p]
<1> DEFINE u == incrementActiveChildren(t, ns)
<1>1. /\ DOMAIN u = DOMAIN t /\ u = [p \in DOMAIN u |-> u[p]]
      /\ \A p \in DOMAIN t : u[p] = IF p \in Raised(t, ns) THEN Bump(t[p], 1) ELSE t[p]
  BY Zenon DEF incrementActiveChildren, Raised, Quiet, Bump
<1> HIDE DEF u
<1>2. ASSUME NEW p \in DOMAIN t PROVE u[p] \in Node
  <2>1. t[p] \in Node /\ t[p].activeChildCount \in Nat
    BY NamespacesAreSeqs, Zenon
  <2>2. t[p].activeChildCount + 1 \in Nat
    BY <2>1
  <2> QED
    BY <1>1, <2>1, <2>2, BumpShape
<1>3. Shaped(u)
  BY <1>1, <1>2, Zenon DEF Shaped
<1> QED
  BY <1>1, <1>3, Zenon DEF u

(* The first content of ns is counted by its parent, and by those above it *)
(* that kept nothing before.                                               *)
LEMMA RaisedCounts ==
  ASSUME NamespaceAssumption, NEW t, Sound(t), NEW ns \in DOMAIN t, ns # <<>>,
         NEW node \in Node, node.activeChildCount = t[ns].activeChildCount
  PROVE  LET u == incrementActiveChildren(SetNode(t, ns, node), parent(ns))
         IN  /\ Sound(u) /\ DOMAIN u = DOMAIN t
             /\ \A p \in Namespaces :
                  Local(u, p) = IF p = ns THEN Content(node) ELSE Local(t, p)
<1> DEFINE t1 == SetNode(t, ns, node)
           P == parent(ns)
           R == Raised(t1, P)
           u == incrementActiveChildren(t1, P)
<1>1. Shaped(t) /\ Closed(t) /\ \A p \in DOMAIN t : t[p].activeChildCount >= Cardinality(Kept(t, p))
  BY Counted, Zenon DEF Sound
<1>2. ns \in Seq(Names) /\ Len(ns) \in Nat
  BY <1>1, NamespacesAreSeqs, LenProperties, Zenon
<1>3. /\ P \in Prefixes(ns) /\ Len(P) + 1 = Len(ns) /\ P # ns /\ P \in DOMAIN t
      /\ P \in Seq(Names) /\ Len(P) \in Nat /\ Prefixes(P) \subseteq Prefixes(ns)
  BY <1>1, <1>2, ParentOrder, PrefixOrder, Zenon DEF Closed
<1>4. /\ Shaped(t1) /\ DOMAIN t1 = DOMAIN t
      /\ \A p \in DOMAIN t : t1[p] = IF p = ns THEN node ELSE t[p]
  BY <1>1, SetNodeShape
<1> HIDE DEF t1, P
<1>5. /\ DOMAIN u = DOMAIN t /\ Shaped(u)
      /\ \A p \in DOMAIN t : u[p] = IF p \in R THEN Bump(t1[p], 1) ELSE t1[p]
  BY <1>3, <1>4, RaisedShape
<1>6. R \subseteq Prefixes(P) /\ ns \notin R /\ P \in R /\ R \subseteq DOMAIN t
  <2>1. \A q \in Prefixes(P) : Len(q) \in Nat /\ Len(q) <= Len(P)
    BY <1>3, PrefixOrder, Zenon
  <2>2. P \in Prefixes(P)
    BY <1>3, PrefixOrder, Zenon
  <2>3. ns \notin Prefixes(P)
    BY <1>2, <1>3, <2>1
  <2>4. P \in R
    <3>1. \A q \in Prefixes(P) : ~(Len(P) < Len(q))
      BY <1>3, <2>1
    <3> QED
      BY <2>2, <3>1, Zenon DEF Raised
  <2>5. R \subseteq Prefixes(P)
    BY Zenon DEF Raised
  <2> QED
    BY <1>1, <1>3, <2>3, <2>4, <2>5, Zenon DEF Closed
<1> HIDE DEF u, R
<1>7. \A p \in DOMAIN t :
        /\ u[p].activeChildCount = t[p].activeChildCount + (IF p \in R THEN 1 ELSE 0)
        /\ p # ns => (hasLocalSessions(u[p]) <=> hasLocalSessions(t[p])) /\ Content(u[p]) = Content(t[p])
        /\ u[ns] = node
  <2> SUFFICES ASSUME NEW p \in DOMAIN t
               PROVE  /\ u[p].activeChildCount = t[p].activeChildCount + (IF p \in R THEN 1 ELSE 0)
                      /\ p # ns => /\ hasLocalSessions(u[p]) <=> hasLocalSessions(t[p])
                                   /\ Content(u[p]) = Content(t[p])
                      /\ u[ns] = node
    BY Zenon
  <2>1. t[p] \in Node /\ t[p].activeChildCount \in Nat /\ t[p].activeChildCount + 1 \in Nat
    BY <1>1, NamespacesAreSeqs
  <2>2. u[ns] = node
    BY <1>4, <1>5, <1>6, Zenon
  <2>3. CASE p \in R
    <3>1. p # ns /\ u[p] = Bump(t[p], 1)
      BY <1>4, <1>5, <1>6, <2>3, Zenon
    <3> QED
      BY <2>1, <2>2, <2>3, <3>1, BumpShape DEF Content
  <2>4. CASE p \notin R
    <3>1. u[p] = IF p = ns THEN node ELSE t[p]
      BY <1>4, <1>5, <2>4, Zenon
    <3> QED
      BY <2>1, <2>2, <2>4, <3>1
  <2> QED
    BY <2>3, <2>4, Zenon
<1>8. ASSUME NEW p \in DOMAIN t, NEW q \in Kept(u, p), q \notin Kept(t, p)
      PROVE  p \in R /\ q \in Prefixes(ns) /\ Len(q) = Len(p) + 1
  <2>1. /\ q \in DOMAIN t /\ q # <<>> /\ parent(q) = p /\ shouldKeep(u[q]) /\ ~shouldKeep(t[q])
        /\ q \in Seq(Names) /\ t[q] \in Node /\ u[q] \in Node /\ t[q].activeChildCount \in Nat
    BY <1>1, <1>5, <1>8, NamespacesAreSeqs, Zenon DEF Kept
  <2>2. p \in Prefixes(q) /\ Len(q) = Len(p) + 1 /\ Len(p) \in Nat /\ Len(q) \in Nat
    BY <2>1, ParentOrder, PrefixOrder, Zenon
  <2>3. CASE q = ns
    BY <1>2, <1>6, <2>1, <2>2, <2>3, PrefixOrder, Zenon DEF P
  <2>4. CASE q # ns
    <3>1. t[q].activeChildCount = 0 /\ ~hasLocalSessions(t[q])
      BY <2>1, KeepMeans, Zenon
    <3>2. q \in R
      BY <1>7, <2>1, <2>4, <3>1, KeepMeans
    <3>3. q \in Prefixes(P) /\ \A r \in Prefixes(P) : Len(q) < Len(r) => Quiet(t1, r)
      BY <1>6, <3>2, Zenon DEF R, Raised
    <3>4. Quiet(t1, q)
      BY <1>4, <2>1, <2>4, <3>1, Zenon DEF Quiet
    <3>5. p \in Prefixes(P)
      BY <1>3, <2>2, <3>3, PrefixOrder, Zenon
    <3>6. ASSUME NEW r \in Prefixes(P), Len(p) < Len(r) PROVE Quiet(t1, r)
      <4>1. Len(r) \in Nat /\ r \in Seq(Names)
        BY <1>3, PrefixOrder, Zenon
      <4>2. CASE Len(q) < Len(r)
        BY <3>3, <4>2, Zenon
      <4>3. CASE Len(q) = Len(r)
        <5>1. q \in Prefixes(r)
          BY <1>3, <2>2, <3>3, <4>1, <4>3, PrefixOrder, Zenon
        <5> QED
          BY <3>4, <4>1, <4>3, <5>1, PrefixOrder, Zenon
      <4> QED
        BY <2>2, <3>6, <4>1, <4>2, <4>3
    <3>7. p \in R
      BY <3>5, <3>6, Zenon DEF R, Raised
    <3> QED
      BY <1>3, <2>2, <3>3, <3>7, Zenon
  <2> QED
    BY <2>3, <2>4, Zenon
<1>9. ASSUME NEW p \in DOMAIN u PROVE u[p].activeChildCount >= Cardinality(Kept(u, p))
  <2>1. /\ p \in DOMAIN t /\ t[p].activeChildCount >= Cardinality(Kept(t, p))
        /\ t[p].activeChildCount \in Nat
    BY <1>1, <1>5, NamespacesAreSeqs, Zenon
  <2>2. CASE p \in R
    <3> DEFINE c == SubSeq(ns, 1, Len(p) + 1)
    <3>1. Kept(u, p) \subseteq Kept(t, p) \cup {c}
      <4> SUFFICES ASSUME NEW q \in Kept(u, p), q \notin Kept(t, p) PROVE q = c
        BY Zenon DEF c
      <4>1. q \in Prefixes(ns) /\ Len(q) = Len(p) + 1
        BY <1>8, <2>1, Zenon
      <4>2. PICK n \in 0 .. Len(ns) : q = SubSeq(ns, 1, n)
        BY <4>1, Zenon DEF Prefixes
      <4>3. Len(q) = n
        BY <1>2, <4>2, Cut, Zenon
      <4> QED
        BY <4>1, <4>2, <4>3, Zenon
    <3> HIDE DEF c
    <3>2. u[p].activeChildCount = t[p].activeChildCount + 1
      BY <1>7, <2>1, <2>2, Zenon
    <3> QED
      BY <1>1, <1>5, <2>1, <3>1, <3>2, CountRaised, Zenon
  <2>3. CASE p \notin R
    <3>1. Kept(u, p) \subseteq Kept(t, p)
      BY <1>8, <2>1, <2>3, Zenon
    <3>2. u[p].activeChildCount = t[p].activeChildCount
      BY <1>7, <2>1, <2>3
    <3> QED
      BY <1>1, <1>5, <2>1, <3>1, <3>2, CountKept, Zenon
  <2> QED
    BY <2>2, <2>3, Zenon
<1>10. Sound(u)
  BY <1>1, <1>5, <1>9, Counted, Zenon DEF Sound, Closed
<1>11. \A p \in Namespaces : Local(u, p) = IF p = ns THEN Content(node) ELSE Local(t, p)
  BY <1>5, <1>7, Zenon DEF Local
<1> QED
  BY <1>5, <1>10, <1>11, Zenon DEF u, t1, P

(* A node is replaced: the counts stay right if it keeps something only    *)
(* when the old one did.                                                   *)
LEMMA ReplacedCounts ==
  ASSUME NamespaceAssumption, NEW t, Sound(t), NEW ns \in DOMAIN t,
         NEW node \in Node, node.activeChildCount = t[ns].activeChildCount,
         ns = <<>> \/ (shouldKeep(node) => shouldKeep(t[ns]))
  PROVE  LET u == SetNode(t, ns, node)
         IN  /\ Sound(u) /\ DOMAIN u = DOMAIN t
             /\ \A p \in Namespaces :
                  Local(u, p) = IF p = ns THEN Content(node) ELSE Local(t, p)
<1> DEFINE u == SetNode(t, ns, node)
<1>1. Shaped(t) /\ Closed(t) /\ \A p \in DOMAIN t : t[p].activeChildCount >= Cardinality(Kept(t, p))
  BY Counted, Zenon DEF Sound
<1>2. /\ Shaped(u) /\ DOMAIN u = DOMAIN t
      /\ \A p \in DOMAIN t : u[p] = IF p = ns THEN node ELSE t[p]
  BY <1>1, SetNodeShape
<1> HIDE DEF u
<1>3. ASSUME NEW p \in DOMAIN u PROVE u[p].activeChildCount >= Cardinality(Kept(u, p))
  <2>1. Kept(u, p) \subseteq Kept(t, p)
    BY <1>2, Zenon DEF Kept
  <2>2. u[p].activeChildCount = t[p].activeChildCount
    BY <1>2, Zenon
  <2> QED
    BY <1>1, <1>2, <2>1, <2>2, CountKept, Zenon
<1>4. Sound(u)
  BY <1>1, <1>2, <1>3, Counted, Zenon DEF Sound, Closed
<1>5. \A p \in Namespaces : Local(u, p) = IF p = ns THEN Content(node) ELSE Local(t, p)
  BY <1>2, Zenon DEF Local
<1> QED
  BY <1>2, <1>4, <1>5, Zenon DEF u

LEMMA ContentAdded ==
  ASSUME NamespaceAssumption, NEW t, Sound(t), NEW ns \in DOMAIN t,
         NEW node \in Node, node.activeChildCount = t[ns].activeChildCount,
         NEW wasEmpty, ~wasEmpty => hasLocalSessions(t[ns])
  PROVE  LET u == addContent(t, ns, node, wasEmpty)
         IN  /\ Sound(u) /\ DOMAIN u = DOMAIN t
             /\ \A p \in Namespaces :
                  Local(u, p) = IF p = ns THEN Content(node) ELSE Local(t, p)
<1> DEFINE u == addContent(t, ns, node, wasEmpty)
<1>1. CASE wasEmpty /\ ns # <<>>
  <2>1. u = incrementActiveChildren(SetNode(t, ns, node), parent(ns))
    BY <1>1, Zenon DEF addContent, SetNode
  <2> HIDE DEF u
  <2>2. /\ Sound(u) /\ DOMAIN u = DOMAIN t
        /\ \A p \in Namespaces : Local(u, p) = IF p = ns THEN Content(node) ELSE Local(t, p)
    BY <1>1, <2>1, RaisedCounts
  <2> QED
    BY <2>2, Zenon DEF u
<1>2. CASE ~(wasEmpty /\ ns # <<>>)
  <2>1. u = SetNode(t, ns, node)
    BY <1>2, Zenon DEF addContent, SetNode
  <2>2. ns = <<>> \/ shouldKeep(t[ns])
    BY <1>2, Zenon DEF shouldKeep
  <2> HIDE DEF u
  <2>3. /\ Sound(u) /\ DOMAIN u = DOMAIN t
        /\ \A p \in Namespaces : Local(u, p) = IF p = ns THEN Content(node) ELSE Local(t, p)
    BY <2>1, <2>2, ReplacedCounts
  <2> QED
    BY <2>3, Zenon DEF u
<1> QED
  BY <1>1, <1>2, Zenon

-----------------------------------------------------------------------------
(* Content goes.                                                           *)

(* The walk of tryPruneChild(t, ns).                                       *)
Empties(t, p) == t[p].activeChildCount = 1 /\ ~hasLocalSessions(t[p])
Walked(t, ns) ==
  {p \in Ancestors(ns) : \A q \in Ancestors(ns) : Len(p) < Len(q) => Empties(t, q)}
Emptied(t, ns) == {ns} \cup {p \in Walked(t, ns) : p # <<>> /\ Empties(t, p)}
Highest(t, ns) ==
  CHOOSE p \in Emptied(t, ns) : \A q \in Emptied(t, ns) : Len(p) <= Len(q)

(* It walks through every node it empties, and to the parent of the last.  *)
LEMMA WalkEnds ==
  ASSUME NEW t, NEW ns \in Seq(Names), ns # <<>>
  PROVE  LET h == Highest(t, ns)
         IN  /\ h \in Prefixes(ns) /\ h # <<>> /\ h \in Seq(Names)
             /\ \A p \in Prefixes(ns) : p # ns /\ Len(h) <= Len(p) => Empties(t, p)
             /\ parent(h) \in Walked(t, ns)
             /\ \A p \in Walked(t, ns) : Len(p) < Len(h) => p = parent(h)
<1> DEFINE h == Highest(t, ns)
           A == Ancestors(ns)
           W == Walked(t, ns)
           E == Emptied(t, ns)
<1>1. /\ Len(ns) \in Nat /\ ns \in Prefixes(ns)
      /\ \A p \in Prefixes(ns) : p \in Seq(Names) /\ Len(p) \in Nat /\ Len(p) <= Len(ns)
      /\ \A p, q \in Prefixes(ns) : Len(p) = Len(q) => p = q
  <2>1. /\ Len(ns) \in Nat /\ ns \in Prefixes(ns)
        /\ \A p \in Prefixes(ns) : p \in Seq(Names) /\ Len(p) \in Nat /\ Len(p) <= Len(ns)
    BY LenProperties, PrefixOrder, Zenon
  <2>2. ASSUME NEW p \in Prefixes(ns), NEW q \in Prefixes(ns), Len(p) = Len(q) PROVE p = q
    <3>1. Len(p) <= Len(q)
      BY <2>1, <2>2
    <3>2. p \in Prefixes(q) /\ q \in Seq(Names)
      BY <2>1, <3>1, PrefixOrder, Zenon
    <3> QED
      BY <2>2, <3>2, PrefixOrder, Zenon
  <2> QED
    BY <2>1, <2>2, Zenon
<1>2. A \subseteq Prefixes(ns) /\ \A p \in Prefixes(ns) : p # ns => p \in A
  BY Zenon DEF Ancestors
<1>3. W \subseteq A /\ E \subseteq Prefixes(ns) /\ ns \in E /\ <<>> \notin E
  BY <1>1, <1>2, Zenon DEF Walked, Emptied
<1>4. h \in E /\ \A q \in E : Len(h) <= Len(q)
  <2> DEFINE L == {Len(p) : p \in E}
  <2>1. L \in SUBSET Nat /\ L # {}
    BY <1>1, <1>3
  <2>2. PICK n \in L : \A m \in L : n <= m
    BY <2>1, LeastNatural, Zenon
  <2>3. \E p \in E : \A q \in E : Len(p) <= Len(q)
    BY <2>2, Zenon
  <2> QED
    BY <2>3, Zenon DEF Highest
<1>5. h \in Prefixes(ns) /\ h # <<>> /\ h \in Seq(Names) /\ Len(h) \in Nat /\ Len(h) <= Len(ns)
  BY <1>1, <1>3, <1>4, Zenon
<1> HIDE DEF h, A, W, E
<1>6. ASSUME NEW p \in Prefixes(ns), p # ns, Len(h) <= Len(p) PROVE Empties(t, p)
  <2>1. p \in A
    BY <1>2, <1>6, Zenon
  <2>2. CASE h = ns
    BY <1>1, <1>6, <2>2
  <2>3. CASE h # ns
    <3>1. h \in W /\ Empties(t, h)
      BY <1>4, <2>3, Zenon DEF E, W, Emptied
    <3>2. \A q \in A : Len(h) < Len(q) => Empties(t, q)
      BY <3>1, Zenon DEF W, A, Walked
    <3>3. CASE Len(h) = Len(p)
      BY <1>1, <1>5, <3>1, <3>3, Zenon
    <3> QED
      BY <1>1, <1>5, <1>6, <2>1, <3>2, <3>3
  <2> QED
    BY <2>2, <2>3, Zenon
<1>7. /\ parent(h) \in Prefixes(ns) /\ Len(parent(h)) + 1 = Len(h) /\ parent(h) # ns
      /\ Len(parent(h)) \in Nat
  <2>1. parent(h) \in Prefixes(h) /\ Len(parent(h)) + 1 = Len(h)
    BY <1>5, ParentOrder, Zenon
  <2>2. parent(h) \in Prefixes(ns)
    BY <1>5, <2>1, PrefixOrder, Zenon
  <2>3. Len(parent(h)) \in Nat
    BY <1>1, <2>2, Zenon
  <2> QED
    BY <1>1, <1>5, <2>1, <2>2, <2>3
<1>8. parent(h) \in W
  <2>1. parent(h) \in A
    BY <1>2, <1>7, Zenon
  <2>2. ASSUME NEW q \in A, Len(parent(h)) < Len(q) PROVE Empties(t, q)
    <3>1. q \in Prefixes(ns) /\ q # ns
      BY Zenon DEF A, Ancestors
    <3>2. Len(q) \in Nat
      BY <1>1, <3>1, Zenon
    <3>3. Len(h) <= Len(q)
      BY <1>5, <1>7, <2>2, <3>2
    <3> QED
      BY <1>6, <3>1, <3>3, Zenon
  <2> QED
    BY <2>1, <2>2, Zenon DEF W, A, Walked
<1>9. ASSUME NEW p \in W, Len(p) < Len(h) PROVE p = parent(h)
  <2>1. p \in Prefixes(ns) /\ Len(p) \in Nat
    BY <1>1, <1>2, <1>3, Zenon
  <2>2. CASE Len(p) = Len(parent(h))
    BY <1>1, <1>7, <2>1, <2>2, Zenon
  <2>3. CASE Len(p) < Len(parent(h))
    <3>1. Empties(t, parent(h))
      <4>1. parent(h) \in A
        BY <1>2, <1>7, Zenon
      <4> QED
        BY <2>3, <4>1, Zenon DEF W, A, Walked
    <3>2. parent(h) # <<>>
      BY <1>7, <2>1, <2>3, EmptySeq
    <3>3. parent(h) \in E
      BY <1>8, <3>1, <3>2, Zenon DEF E, W, Emptied
    <3> QED
      BY <1>4, <1>5, <1>7, <3>3
  <2> QED
    BY <1>5, <1>7, <1>9, <2>1, <2>2, <2>3
<1> QED
  BY <1>5, <1>6, <1>8, <1>9, Zenon DEF h, W

(* What goes holds nothing but what ns held: whatever is kept below the    *)
(* highest node emptied would have to be counted on the way to ns.         *)
LEMMA NothingElseBelow ==
  ASSUME NamespaceAssumption, NEW t, Sound(t), NEW ns \in DOMAIN t,
         hasLocalSessions(t[ns]), t[ns].activeChildCount = 0, NEW h \in Prefixes(ns),
         \A p \in Prefixes(ns) : p # ns /\ Len(h) <= Len(p) => Empties(t, p),
         NEW x \in DOMAIN t, h \in Prefixes(x), x # ns
  PROVE  ~hasLocalSessions(t[x])
<1> SUFFICES ASSUME hasLocalSessions(t[x]) PROVE FALSE
  BY Zenon
<1>1. Shaped(t) /\ Closed(t)
  BY Counted, Zenon DEF Sound
<1>2. ns \in Seq(Names) /\ Len(ns) \in Nat /\ x \in Seq(Names) /\ Len(x) \in Nat
  BY <1>1, NamespacesAreSeqs, LenProperties, Zenon
<1>3. /\ Len(h) \in Nat /\ Len(h) <= Len(ns) /\ Len(h) <= Len(x) /\ h \in Seq(Names)
      /\ ns \in Prefixes(ns) /\ x \in Prefixes(x)
  BY <1>2, PrefixOrder, Zenon
<1>4. shouldKeep(t[x])
  BY Zenon DEF shouldKeep
<1> DEFINE at(n) == SubSeq(x, 1, n)
           S == {n \in Len(h) .. Len(x) : at(n) \notin Prefixes(ns)}
<1>5. \A n \in 0 .. Len(x) : at(n) \in Prefixes(x) /\ Len(at(n)) = n /\ at(n) \in Seq(Names)
  BY <1>2, Cut, Zenon DEF Prefixes
<1>6. \A p \in Prefixes(x) : \E n \in 0 .. Len(x) : p = at(n) /\ n = Len(p)
  BY <1>2, Cut DEF Prefixes
<1> HIDE DEF at
<1>7. at(Len(h)) = h /\ at(Len(x)) = x
  BY <1>3, <1>6, Zenon
<1>8. CASE S = {}
  <2>1. Len(x) \in Len(h) .. Len(x)
    BY <1>2, <1>3
  <2>2. x \in Prefixes(ns)
    BY <1>7, <1>8, <2>1, Zenon
  <2>3. Empties(t, x)
    BY <1>3, <2>2, Zenon
  <2> QED
    BY <2>3, Zenon DEF Empties
<1>9. CASE S # {}
  <2>1. S \in SUBSET Nat
    BY <1>2, <1>3
  <2>2. PICK n \in S : \A m \in S : n <= m
    BY <1>9, <2>1, LeastNatural, Zenon
  <2>3. n \in Len(h) .. Len(x) /\ at(n) \notin Prefixes(ns)
    BY <2>2, Zenon
  <2>4. n # Len(h)
    BY <1>7, <2>3, Zenon
  <2>5. n \in 0 .. Len(x) /\ n - 1 \in 0 .. Len(x) /\ n # 0 /\ n - 1 \in Len(h) .. Len(x)
    BY <1>2, <1>3, <2>3, <2>4
  <2>6. at(n - 1) \in Prefixes(ns)
    <3>1. n - 1 \notin S
      BY <2>2, <2>5
    <3> QED
      BY <2>5, <3>1, Zenon
  <2> DEFINE d == at(n)
             c == at(n - 1)
  <2>7. /\ d \in Prefixes(x) /\ Len(d) = n /\ d \in Seq(Names) /\ d # <<>>
        /\ c \in Prefixes(x) /\ Len(c) = n - 1 /\ c \in Seq(Names) /\ d \notin Prefixes(ns)
        /\ c \in Prefixes(ns)
    BY <1>5, <2>3, <2>5, <2>6, EmptySeq, Zenon
  <2> HIDE DEF d, c
  <2>8. parent(d) = c
    <3>1. parent(d) \in Prefixes(d) /\ Len(parent(d)) + 1 = Len(d)
      BY <2>7, ParentOrder, Zenon
    <3>2. parent(d) \in Prefixes(x)
      BY <1>2, <2>7, <3>1, PrefixOrder, Zenon
    <3>3. Len(parent(d)) \in Nat
      BY <1>2, <3>2, PrefixOrder, Zenon
    <3>4. Len(parent(d)) = Len(c)
      BY <2>5, <2>7, <3>1, <3>3
    <3> QED
      BY <1>6, <2>7, <3>2, <3>4
  <2>9. d \in DOMAIN t /\ shouldKeep(t[d])
    BY <1>4, <2>7, AncestorsKeep, Zenon
  <2>10. /\ d \in Kept(t, c) /\ t[c].activeChildCount >= 1 /\ t[c].activeChildCount \in Nat
         /\ t[c].activeChildCount = 1 => Kept(t, c) = {d}
    BY <2>7, <2>8, <2>9, ParentKeeps, Zenon
  <2>11. c # ns
    BY <2>10
  <2>12. Empties(t, c)
    BY <1>3, <2>5, <2>7, <2>11
  <2>13. Kept(t, c) = {d}
    BY <2>10, <2>12, Zenon DEF Empties
  <2>14. PICK e \in Prefixes(ns) : /\ e # <<>> /\ parent(e) = c /\ e \in DOMAIN t
                                   /\ e # ns => Empties(t, e)
    <3>1. Len(c) + 1 \in 0 .. Len(ns) /\ Len(c) \in Nat
      <4>1. Len(c) \in Nat /\ Len(c) <= Len(ns) /\ Len(c) # Len(ns)
        BY <1>2, <2>7, <2>11, PrefixOrder, Zenon
      <4> QED
        BY <1>2, <4>1
    <3> DEFINE e == SubSeq(ns, 1, Len(c) + 1)
    <3>2. e \in Prefixes(ns) /\ Len(e) = Len(c) + 1 /\ e \in Seq(Names)
      BY <1>2, <3>1, Cut, Zenon DEF Prefixes
    <3> HIDE DEF e
    <3>3. e # <<>>
      BY <3>1, <3>2, EmptySeq
    <3>4. parent(e) \in Prefixes(e) /\ Len(parent(e)) + 1 = Len(e)
      BY <3>2, <3>3, ParentOrder, Zenon
    <3>5. parent(e) \in Prefixes(ns) /\ Len(parent(e)) \in Nat
      BY <1>2, <3>2, <3>4, PrefixOrder, Zenon
    <3>6. Len(parent(e)) = Len(c)
      BY <3>1, <3>2, <3>4, <3>5
    <3>7. Len(parent(e)) <= Len(c)
      BY <3>1, <3>6
    <3>8. parent(e) = c
      <4>1. parent(e) \in Prefixes(c)
        BY <1>2, <2>7, <3>5, <3>7, PrefixOrder, Zenon
      <4> QED
        BY <2>7, <3>6, <4>1, PrefixOrder, Zenon
    <3>9. e \in DOMAIN t
      BY <1>1, <3>2, Zenon DEF Closed
    <3>10. Len(h) <= Len(e)
      BY <1>3, <2>5, <2>7, <3>2
    <3> QED
      BY <3>2, <3>3, <3>8, <3>9, <3>10, Zenon
  <2>15. shouldKeep(t[e])
    BY <2>14 DEF Empties, shouldKeep
  <2>16. e \in Kept(t, c)
    BY <2>14, <2>15, Zenon DEF Kept
  <2> QED
    BY <2>7, <2>13, <2>14, <2>16, Zenon
<1> QED
  BY <1>8, <1>9, Zenon

LEMMA PrunedShape ==
  ASSUME NEW t, NEW ns \in DOMAIN t, ~shouldKeep(t[ns])
  PROVE  LET u == tryPruneChild(t, ns)
             h == Highest(t, ns)
         IN  /\ DOMAIN u = {p \in DOMAIN t : ~startsWith(p, h)}
             /\ u = [p \in DOMAIN u |-> u[p]]
             /\ \A p \in DOMAIN u :
                  u[p] = IF p \in Walked(t, ns) THEN Bump(t[p], -1) ELSE t[p]
<1>1. tryPruneChild(t, ns) =
        [p \in {p \in DOMAIN t : ~startsWith(p, Highest(t, ns))} |->
           IF p \in Walked(t, ns) THEN [t[p] EXCEPT !.activeChildCount = @ - 1] ELSE t[p]]
  BY Zenon DEF tryPruneChild, Highest, Emptied, Walked, Empties
<1>2. ASSUME NEW p PROVE [t[p] EXCEPT !.activeChildCount = @ - 1] = Bump(t[p], -1)
  <2>1. t[p].activeChildCount - 1 = t[p].activeChildCount + (-1)
    BY Zenon
  <2> QED
    BY <2>1, Zenon DEF Bump
<1> QED
  BY <1>1, <1>2, Zenon

(* Pruning takes away what ns held, and lowers the one count that counted  *)
(* the highest node that goes.                                             *)
LEMMA PrunedSound ==
  ASSUME NamespaceAssumption, NEW t, Sound(t), NEW ns \in DOMAIN t, ns # <<>>,
         hasLocalSessions(t[ns]), NEW node \in Node,
         node.activeChildCount = t[ns].activeChildCount, ~shouldKeep(node)
  PROVE  LET u == tryPruneChild(SetNode(t, ns, node), ns)
         IN  /\ Sound(u) /\ DOMAIN u \subseteq DOMAIN t
             /\ \A p \in Namespaces :
                  Local(u, p) = IF p = ns THEN Content(node) ELSE Local(t, p)
<1> DEFINE t1 == SetNode(t, ns, node)
           h == Highest(t1, ns)
           W == Walked(t1, ns)
           u == tryPruneChild(t1, ns)
<1>1. Shaped(t) /\ Closed(t) /\ \A p \in DOMAIN t : t[p].activeChildCount >= Cardinality(Kept(t, p))
  BY Counted, Zenon DEF Sound
<1>2. ns \in Seq(Names) /\ Len(ns) \in Nat /\ ns \in Prefixes(ns)
  BY <1>1, NamespacesAreSeqs, LenProperties, PrefixOrder, Zenon
<1>3. /\ Shaped(t1) /\ DOMAIN t1 = DOMAIN t
      /\ \A p \in DOMAIN t : t1[p] = IF p = ns THEN node ELSE t[p]
  BY <1>1, SetNodeShape
<1> HIDE DEF t1
<1>4. node.activeChildCount = 0 /\ ~hasLocalSessions(node)
  BY KeepMeans, Zenon
<1>5. /\ h \in Prefixes(ns) /\ h # <<>> /\ h \in Seq(Names)
      /\ \A p \in Prefixes(ns) : p # ns /\ Len(h) <= Len(p) => Empties(t1, p)
      /\ parent(h) \in W
      /\ \A p \in W : Len(p) < Len(h) => p = parent(h)
  BY <1>2, WalkEnds, Zenon
<1>6. /\ DOMAIN u = {p \in DOMAIN t : ~startsWith(p, h)}
      /\ u = [p \in DOMAIN u |-> u[p]]
      /\ \A p \in DOMAIN u : u[p] = IF p \in W THEN Bump(t1[p], -1) ELSE t1[p]
  <2>1. ns \in DOMAIN t1 /\ ~shouldKeep(t1[ns])
    BY <1>3, Zenon
  <2>2. /\ DOMAIN u = {p \in DOMAIN t1 : ~startsWith(p, h)}
        /\ u = [p \in DOMAIN u |-> u[p]]
        /\ \A p \in DOMAIN u : u[p] = IF p \in W THEN Bump(t1[p], -1) ELSE t1[p]
    BY <2>1, PrunedShape, Zenon
  <2> HIDE DEF u, h, W
  <2> QED
    BY <1>3, <2>2, Zenon
<1>7. W \subseteq Prefixes(ns) /\ ns \notin W
  BY Zenon DEF Walked, Ancestors
<1> HIDE DEF h, W, u
<1>8. DOMAIN u = {p \in DOMAIN t : h \notin Prefixes(p)}
  <2>1. \A p \in DOMAIN t : p \in Seq(Names)
    BY <1>1, NamespacesAreSeqs, Zenon
  <2> QED
    BY <1>5, <1>6, <2>1, StartsPrefixes, Zenon
<1>9. \A p \in Prefixes(ns) : p # ns /\ Len(h) <= Len(p) => Empties(t, p)
  BY <1>1, <1>3, <1>5, Zenon DEF Empties, Closed
<1>10. /\ parent(h) \in Prefixes(h) /\ Len(parent(h)) + 1 = Len(h) /\ parent(h) # h
       /\ Len(h) \in Nat /\ Len(parent(h)) \in Nat /\ h \in Prefixes(h)
  BY <1>5, ParentOrder, PrefixOrder, Zenon
<1>11. h \in DOMAIN t /\ parent(h) \in DOMAIN t /\ shouldKeep(t[h])
  <2>1. h \in DOMAIN t
    BY <1>1, <1>5, Zenon DEF Closed
  <2>2. shouldKeep(t[h])
    <3>1. CASE h = ns
      BY <3>1, Zenon DEF shouldKeep
    <3>2. CASE h # ns
      BY <1>5, <1>9, <1>10, <3>2 DEF Empties, shouldKeep
    <3> QED
      BY <3>1, <3>2, Zenon
  <2> QED
    BY <1>1, <1>10, <2>1, <2>2, Zenon DEF Closed
<1>12. ns \notin DOMAIN u /\ h \notin DOMAIN u
  BY <1>5, <1>8, <1>10, Zenon
<1>13. parent(h) \in DOMAIN u
  <2>1. h \notin Prefixes(parent(h))
    <3>1. parent(h) \in Seq(Names)
      BY <1>5, <1>10, PrefixOrder, Zenon
    <3> QED
      BY <1>10, <3>1, PrefixOrder
  <2> QED
    BY <1>8, <1>11, <2>1, Zenon
<1>14. \A p \in DOMAIN u : u[p] = IF p = parent(h) THEN Bump(t[p], -1) ELSE t[p]
  <2> SUFFICES ASSUME NEW p \in DOMAIN u
               PROVE  u[p] = IF p = parent(h) THEN Bump(t[p], -1) ELSE t[p]
    BY Zenon
  <2>1. p # ns /\ p \in DOMAIN t /\ t1[p] = t[p]
    BY <1>3, <1>8, <1>12, Zenon
  <2>2. p \in W <=> p = parent(h)
    <3>1. ASSUME p \in W PROVE p = parent(h)
      <4>1. p \in Prefixes(ns) /\ Len(p) \in Nat
        BY <1>2, <1>7, <3>1, PrefixOrder, Zenon
      <4>2. ~(Len(h) <= Len(p))
        <5>1. h \notin Prefixes(p)
          BY <1>8, Zenon
        <5> QED
          BY <1>2, <1>5, <4>1, <5>1, PrefixOrder, Zenon
      <4>3. Len(p) < Len(h)
        BY <1>10, <4>1, <4>2
      <4> QED
        BY <1>5, <3>1, <4>3, Zenon
    <3> QED
      BY <1>5, <3>1, Zenon
  <2> QED
    BY <1>6, <2>1, <2>2, Zenon
<1>15. /\ h \in Kept(t, parent(h)) /\ t[parent(h)].activeChildCount - 1 \in Nat
       /\ t[parent(h)].activeChildCount + (-1) \in Nat
  <2>1. /\ h \in Kept(t, parent(h)) /\ t[parent(h)].activeChildCount >= 1
        /\ t[parent(h)].activeChildCount \in Nat
    BY <1>5, <1>11, ParentKeeps, Zenon
  <2> QED
    BY <2>1
<1>16. \A p \in DOMAIN u :
         /\ p \in DOMAIN t /\ t[p] \in Node /\ u[p] \in Node /\ Content(u[p]) = Content(t[p])
         /\ u[p].activeChildCount = t[p].activeChildCount - (IF p = parent(h) THEN 1 ELSE 0)
         /\ shouldKeep(u[p]) => shouldKeep(t[p])
  <2> SUFFICES ASSUME NEW p \in DOMAIN u
               PROVE  /\ p \in DOMAIN t /\ t[p] \in Node /\ u[p] \in Node /\ Content(u[p]) = Content(t[p])
                      /\ u[p].activeChildCount = t[p].activeChildCount - (IF p = parent(h) THEN 1 ELSE 0)
                      /\ shouldKeep(u[p]) => shouldKeep(t[p])
    BY Zenon
  <2>1. p \in DOMAIN t /\ t[p] \in Node /\ t[p].activeChildCount \in Nat
    BY <1>1, <1>8, NamespacesAreSeqs, Zenon
  <2>2. CASE p = parent(h)
    <3>1. /\ u[p] \in Node /\ u[p].activeChildCount = t[p].activeChildCount + (-1)
          /\ Content(u[p]) = Content(t[p])
      BY <1>14, <1>15, <2>1, <2>2, BumpShape DEF Content
    <3>2. shouldKeep(t[p])
      BY <1>5, <1>11, <2>2, ParentKeeps, Zenon
    <3> QED
      BY <2>1, <2>2, <3>1, <3>2, Zenon
  <2>3. CASE p # parent(h)
    BY <1>14, <2>1, <2>3
  <2> QED
    BY <2>2, <2>3, Zenon
<1>17. Shaped(u)
  <2>1. DOMAIN u \in SUBSET DOMAIN t
    BY <1>8, Zenon
  <2>2. IsFiniteSet(DOMAIN u)
    BY <1>1, <2>1, FS_Subset, Zenon DEF Shaped
  <2> QED
    BY <1>1, <1>6, <1>16, <2>1, <2>2, Zenon DEF Shaped
<1>18. Closed(u)
  <2>1. <<>> \in DOMAIN u
    <3>1. <<>> \in DOMAIN t /\ <<>> \in Seq(Names) /\ Len(<<>>) = 0
      BY <1>1, EmptySeq, Zenon DEF Closed
    <3>2. Len(h) # 0
      BY <1>5, EmptySeq, Zenon
    <3>3. h \notin Prefixes(<<>>)
      <4>1. PICK root \in Seq(Names) : root = <<>> /\ Len(root) = 0
        BY <3>1, Zenon
      <4>2. h \in Prefixes(root) => Len(h) <= Len(root)
        BY PrefixOrder, Zenon
      <4> QED
        BY <1>10, <3>2, <4>1, <4>2
    <3> QED
      BY <1>8, <3>1, <3>3, Zenon
  <2>2. ASSUME NEW p \in DOMAIN u, NEW q \in Prefixes(p) PROVE q \in DOMAIN u
    <3>1. p \in DOMAIN t /\ p \in Seq(Names) /\ h \notin Prefixes(p) /\ q \in DOMAIN t
      BY <1>1, <1>8, NamespacesAreSeqs, Zenon DEF Closed
    <3>2. Prefixes(q) \subseteq Prefixes(p)
      BY <3>1, PrefixOrder, Zenon
    <3> QED
      BY <1>8, <3>1, <3>2, Zenon
  <2> QED
    BY <2>1, <2>2, Zenon DEF Closed
<1>19. ASSUME NEW p \in DOMAIN u PROVE u[p].activeChildCount >= Cardinality(Kept(u, p))
  <2>1. Kept(u, p) \subseteq Kept(t, p) \ {h}
    BY <1>12, <1>16, Zenon DEF Kept
  <2>2. /\ p \in DOMAIN t /\ t[p].activeChildCount >= Cardinality(Kept(t, p))
        /\ t[p].activeChildCount \in Nat
    BY <1>1, <1>16, NamespacesAreSeqs, Zenon
  <2>3. CASE p = parent(h)
    <3>1. u[p].activeChildCount = t[p].activeChildCount - 1
      BY <1>16, <2>3, Zenon
    <3> QED
      BY <1>1, <1>15, <1>17, <2>1, <2>2, <2>3, <3>1, CountLowered, Zenon
  <2>4. CASE p # parent(h)
    <3>1. u[p].activeChildCount = t[p].activeChildCount
      BY <1>14, <2>4, Zenon
    <3>2. Kept(u, p) \subseteq Kept(t, p)
      BY <2>1, Zenon
    <3> QED
      BY <1>1, <1>17, <2>2, <3>1, <3>2, CountKept, Zenon
  <2> QED
    BY <2>3, <2>4, Zenon
<1>20. Sound(u)
  BY <1>17, <1>18, <1>19, Counted, Zenon DEF Sound
<1>21. ASSUME NEW p \in Namespaces
       PROVE  Local(u, p) = IF p = ns THEN Content(node) ELSE Local(t, p)
  <2>1. CASE p \in DOMAIN u
    BY <1>12, <1>16, <2>1, Zenon DEF Local
  <2>2. CASE p = ns
    <3>1. Content(node) = <<None, {}, {}>>
      BY <1>4, NothingLocal, Zenon
    <3> QED
      BY <1>12, <2>2, <3>1, Zenon DEF Local
  <2>3. CASE p \notin DOMAIN u /\ p # ns
    <3>1. CASE p \in DOMAIN t
      <4>1. h \in Prefixes(p)
        BY <1>8, <2>3, <3>1, Zenon
      <4>2. ~hasLocalSessions(t[p])
        BY <1>4, <1>5, <1>9, <2>3, <3>1, <4>1, NothingElseBelow, Zenon
      <4>3. t[p] \in Node
        BY <1>1, <3>1, NamespacesAreSeqs, Zenon
      <4> QED
        BY <2>3, <3>1, <4>2, <4>3, NothingLocal, Zenon DEF Local
    <3> QED
      BY <2>3, <3>1, Zenon DEF Local
  <2> QED
    BY <2>1, <2>2, <2>3, Zenon
<1> QED
  BY <1>8, <1>20, <1>21, Zenon DEF u, t1

LEMMA ContentRemoved ==
  ASSUME NamespaceAssumption, NEW t, Sound(t), NEW ns \in DOMAIN t,
         NEW node \in Node, node.activeChildCount = t[ns].activeChildCount,
         hasLocalSessions(node) => hasLocalSessions(t[ns])
  PROVE  LET u == removeContent(t, ns, node)
         IN  /\ Sound(u) /\ DOMAIN u \subseteq DOMAIN t
             /\ \A p \in Namespaces :
                  Local(u, p) = IF p = ns THEN Content(node) ELSE Local(t, p)
<1> DEFINE u == removeContent(t, ns, node)
           pruned == hasLocalSessions(t[ns]) /\ ~shouldKeep(node) /\ ns # <<>>
<1>1. CASE pruned
  <2>1. u = tryPruneChild(SetNode(t, ns, node), ns)
    BY <1>1, Zenon DEF removeContent, SetNode
  <2> HIDE DEF u
  <2>2. /\ Sound(u) /\ DOMAIN u \subseteq DOMAIN t
        /\ \A p \in Namespaces : Local(u, p) = IF p = ns THEN Content(node) ELSE Local(t, p)
    BY <1>1, <2>1, PrunedSound, Zenon
  <2> QED
    BY <2>2, Zenon DEF u
<1>2. CASE ~pruned
  <2>1. u = SetNode(t, ns, node)
    BY <1>2, Zenon DEF removeContent, SetNode
  <2>2. shouldKeep(node) => shouldKeep(t[ns])
    BY Zenon DEF shouldKeep
  <2> HIDE DEF u
  <2>3. /\ Sound(u) /\ DOMAIN u = DOMAIN t
        /\ \A p \in Namespaces : Local(u, p) = IF p = ns THEN Content(node) ELSE Local(t, p)
    BY <2>1, <2>2, ReplacedCounts, Zenon
  <2> QED
    BY <2>3, Zenon DEF u
<1> QED
  BY <1>1, <1>2, Zenon

-----------------------------------------------------------------------------
(* The registrations.                                                      *)

Source(t, ns) == IF ns \in DOMAIN t THEN t[ns].sourceSession ELSE None
Regs(t, ns) == IF ns \in DOMAIN t THEN t[ns].sessions ELSE {}
Pubs(t, ns) == IF ns \in DOMAIN t THEN t[ns].publishes ELSE {}

(* u holds what t holds, but what node holds in ns.                        *)
Becomes(t, u, ns, node) ==
  \A p \in Namespaces :
    /\ Source(u, p) = IF p = ns THEN node.sourceSession ELSE Source(t, p)
    /\ Regs(u, p) = IF p = ns THEN node.sessions ELSE Regs(t, p)
    /\ Pubs(u, p) = IF p = ns THEN node.publishes ELSE Pubs(t, p)
Same(t, u) ==
  \A p \in Namespaces :
    Source(u, p) = Source(t, p) /\ Regs(u, p) = Regs(t, p) /\ Pubs(u, p) = Pubs(t, p)

LEMMA LocalParts ==
  ASSUME NEW t, NEW p PROVE Local(t, p) = <<Source(t, p), Regs(t, p), Pubs(t, p)>>
BY Zenon DEF Local, Content, Source, Regs, Pubs

LEMMA LocalBecomes ==
  ASSUME NEW t, NEW u, NEW ns, NEW node,
         \A p \in Namespaces : Local(u, p) = IF p = ns THEN Content(node) ELSE Local(t, p)
  PROVE  Becomes(t, u, ns, node)
<1> SUFFICES ASSUME NEW p \in Namespaces
             PROVE  /\ Source(u, p) = IF p = ns THEN node.sourceSession ELSE Source(t, p)
                    /\ Regs(u, p) = IF p = ns THEN node.sessions ELSE Regs(t, p)
                    /\ Pubs(u, p) = IF p = ns THEN node.publishes ELSE Pubs(t, p)
  BY Zenon DEF Becomes
<1>1. <<Source(u, p), Regs(u, p), Pubs(u, p)>> =
        IF p = ns THEN <<node.sourceSession, node.sessions, node.publishes>>
        ELSE <<Source(t, p), Regs(t, p), Pubs(t, p)>>
  BY LocalParts, Zenon DEF Content
<1> QED
  BY <1>1, Zenon

LEMMA LocalSame ==
  ASSUME NEW t, NEW u, \A p \in Namespaces : Local(u, p) = Local(t, p) PROVE Same(t, u)
<1> SUFFICES ASSUME NEW p \in Namespaces
             PROVE  /\ Source(u, p) = Source(t, p) /\ Regs(u, p) = Regs(t, p)
                    /\ Pubs(u, p) = Pubs(t, p)
  BY Zenon DEF Same
<1>1. <<Source(u, p), Regs(u, p), Pubs(u, p)>> = <<Source(t, p), Regs(t, p), Pubs(t, p)>>
  BY LocalParts, Zenon
<1> QED
  BY <1>1, Zenon

(* The prefixes of a session are disjoint, and registered once.            *)
Disjoint(t) ==
  \A p, q \in Namespaces :
    p # q /\ p \in Prefixes(q) => Keys(Regs(t, p)) \cap Keys(Regs(t, q)) = {}
Once(t) == \A p \in Namespaces : \A e, f \in Regs(t, p) : e[1] = f[1] => e = f

(* The inductive invariant of a tree.                                      *)
TreeInv(t) == Sound(t) /\ Disjoint(t) /\ Once(t)

Overlaps(t, ns, s) ==
  \E p \in Namespaces : s \in Keys(Regs(t, p)) /\ (ns \in Prefixes(p) \/ p \in Prefixes(ns))

LEMMA OverlapMeans ==
  ASSUME NamespaceAssumption, NEW t, Sound(t), NEW ns \in Namespaces, NEW s
  PROVE  hasOverlappingSubscription(t, ns, s) <=> Overlaps(t, ns, s)
<1>1. DOMAIN t \subseteq Namespaces /\ Namespaces \subseteq Seq(Names)
  BY Zenon DEF Sound, Shaped, NamespaceAssumption
<1>2. \A p \in DOMAIN t : /\ startsWith(p, ns) <=> ns \in Prefixes(p)
                          /\ startsWith(ns, p) <=> p \in Prefixes(ns)
  BY <1>1, StartsPrefixes, Zenon
<1>3. \A p \in Namespaces : s \in Keys(Regs(t, p)) => p \in DOMAIN t /\ Regs(t, p) = t[p].sessions
  BY Zenon DEF Regs, Keys
<1>4. \A p \in DOMAIN t : Regs(t, p) = t[p].sessions
  BY Zenon DEF Regs
<1> QED
  BY <1>1, <1>2, <1>3, <1>4, Zenon DEF hasOverlappingSubscription, Overlaps

LEMMA DisjointMeans ==
  ASSUME NamespaceAssumption, NEW t, Sound(t), Disjoint(t)
  PROVE  PrefixesDisjoint(t)
<1>1. DOMAIN t \subseteq Namespaces /\ Namespaces \subseteq Seq(Names)
  BY Zenon DEF Sound, Shaped, NamespaceAssumption
<1>2. \A p, q \in DOMAIN t : startsWith(q, p) <=> p \in Prefixes(q)
  BY <1>1, StartsPrefixes, Zenon
<1>3. \A p \in DOMAIN t : Regs(t, p) = t[p].sessions
  BY Zenon DEF Regs
<1> QED
  BY <1>1, <1>2, <1>3, Zenon DEF PrefixesDisjoint, Disjoint

(* Registrations that go, stay, or change but for their keys.              *)
LEMMA RegsShrink ==
  ASSUME NEW t, TreeInv(t), NEW u, Sound(u),
         \A p \in Namespaces : Regs(u, p) \subseteq Regs(t, p)
  PROVE  TreeInv(u)
<1>1. \A p \in Namespaces : Keys(Regs(u, p)) \subseteq Keys(Regs(t, p))
  BY Zenon DEF Keys
<1>2. Disjoint(u)
  BY <1>1, Zenon DEF TreeInv, Disjoint
<1>3. Once(u)
  BY Zenon DEF TreeInv, Once
<1> QED
  BY <1>2, <1>3, Zenon DEF TreeInv

(* A registration that comes.                                              *)
LEMMA RegsGrow ==
  ASSUME NamespaceAssumption, NEW t, TreeInv(t), NEW u, Sound(u), NEW ns \in Namespaces, NEW s, NEW info,
         \A p \in Namespaces : Regs(u, p) = IF p = ns THEN Regs(t, p) \cup {<<s, info>>} ELSE Regs(t, p),
         ~Overlaps(t, ns, s)
  PROVE  TreeInv(u)
<1>1. ns \in Prefixes(ns)
  BY PrefixOrder, Zenon DEF NamespaceAssumption
<1>2. s \notin Keys(Regs(t, ns))
  BY <1>1, Zenon DEF Overlaps
<1>3. \A p \in Namespaces :
        Keys(Regs(u, p)) = IF p = ns THEN Keys(Regs(t, p)) \cup {s} ELSE Keys(Regs(t, p))
  <2>1. ASSUME NEW A PROVE Keys(A \cup {<<s, info>>}) = Keys(A) \cup {s}
    <3>1. <<s, info>>[1] = s
      BY Zenon
    <3> QED
      BY <3>1, Zenon DEF Keys
  <2> QED
    BY <2>1, Zenon
<1>4. Disjoint(u)
  <2> SUFFICES ASSUME NEW p \in Namespaces, NEW q \in Namespaces, p # q, p \in Prefixes(q)
               PROVE  Keys(Regs(u, p)) \cap Keys(Regs(u, q)) = {}
    BY Zenon DEF Disjoint
  <2>1. Keys(Regs(t, p)) \cap Keys(Regs(t, q)) = {}
    BY Zenon DEF TreeInv, Disjoint
  <2>2. CASE p = ns
    BY <1>3, <2>1, <2>2, Zenon DEF Overlaps
  <2>3. CASE q = ns
    BY <1>3, <2>1, <2>3, Zenon DEF Overlaps
  <2> QED
    BY <1>3, <2>1, <2>2, <2>3, Zenon
<1>5. Once(u)
  <2> SUFFICES ASSUME NEW p \in Namespaces, NEW e \in Regs(u, p), NEW f \in Regs(u, p), e[1] = f[1]
               PROVE  e = f
    BY Zenon DEF Once
  <2>1. \A x \in Regs(t, ns) : x[1] # s
    BY <1>2, Zenon DEF Keys
  <2>2. \A x, y \in Regs(t, p) : x[1] = y[1] => x = y
    BY Zenon DEF TreeInv, Once
  <2>3. <<s, info>>[1] = s
    BY Zenon
  <2>4. /\ e \in Regs(t, p) \/ (p = ns /\ e = <<s, info>>)
        /\ f \in Regs(t, p) \/ (p = ns /\ f = <<s, info>>)
    BY Zenon
  <2> QED
    BY <2>1, <2>2, <2>3, <2>4, Zenon
<1> QED
  BY <1>4, <1>5, Zenon DEF TreeInv

-----------------------------------------------------------------------------
(* The operations of a tree.                                               *)

WithSessions(node, regs) == [node EXCEPT !.sessions = regs]
WithPublishes(node, pubs) == [node EXCEPT !.publishes = pubs]
WithSource(node, s) == [node EXCEPT !.sourceSession = s]

LEMMA WithShapes ==
  ASSUME NEW node \in Node
  PROVE  /\ \A regs \in SUBSET (Sessions \X Info) :
              /\ WithSessions(node, regs) \in Node
              /\ WithSessions(node, regs).sessions = regs
              /\ WithSessions(node, regs).publishes = node.publishes
              /\ WithSessions(node, regs).sourceSession = node.sourceSession
              /\ WithSessions(node, regs).activeChildCount = node.activeChildCount
         /\ \A pubs \in SUBSET (TrackNames \X Sessions) :
              /\ WithPublishes(node, pubs) \in Node
              /\ WithPublishes(node, pubs).sessions = node.sessions
              /\ WithPublishes(node, pubs).publishes = pubs
              /\ WithPublishes(node, pubs).sourceSession = node.sourceSession
              /\ WithPublishes(node, pubs).activeChildCount = node.activeChildCount
         /\ \A s \in Sessions \cup {None} :
              /\ WithSource(node, s) \in Node
              /\ WithSource(node, s).sessions = node.sessions
              /\ WithSource(node, s).publishes = node.publishes
              /\ WithSource(node, s).sourceSession = s
              /\ WithSource(node, s).activeChildCount = node.activeChildCount
<1>1. ASSUME NEW regs \in SUBSET (Sessions \X Info)
      PROVE  /\ WithSessions(node, regs) \in Node
             /\ WithSessions(node, regs).sessions = regs
             /\ WithSessions(node, regs).publishes = node.publishes
             /\ WithSessions(node, regs).sourceSession = node.sourceSession
             /\ WithSessions(node, regs).activeChildCount = node.activeChildCount
  BY Zenon DEF WithSessions, Node
<1>2. ASSUME NEW pubs \in SUBSET (TrackNames \X Sessions)
      PROVE  /\ WithPublishes(node, pubs) \in Node
             /\ WithPublishes(node, pubs).sessions = node.sessions
             /\ WithPublishes(node, pubs).publishes = pubs
             /\ WithPublishes(node, pubs).sourceSession = node.sourceSession
             /\ WithPublishes(node, pubs).activeChildCount = node.activeChildCount
  BY Zenon DEF WithPublishes, Node
<1>3. ASSUME NEW s \in Sessions \cup {None}
      PROVE  /\ WithSource(node, s) \in Node
             /\ WithSource(node, s).sessions = node.sessions
             /\ WithSource(node, s).publishes = node.publishes
             /\ WithSource(node, s).sourceSession = s
             /\ WithSource(node, s).activeChildCount = node.activeChildCount
  BY Zenon DEF WithSource, Node
<1> QED
  BY <1>1, <1>2, <1>3, Zenon

(* What a node of a tree is.                                               *)
LEMMA NodeOf ==
  ASSUME NEW t, Sound(t), NEW ns \in DOMAIN t
  PROVE  /\ t[ns] \in Node /\ ns \in Namespaces
         /\ t[ns].sessions = Regs(t, ns) /\ Regs(t, ns) \in SUBSET (Sessions \X Info)
         /\ t[ns].publishes = Pubs(t, ns) /\ Pubs(t, ns) \in SUBSET (TrackNames \X Sessions)
         /\ t[ns].sourceSession = Source(t, ns) /\ Source(t, ns) \in Sessions \cup {None}
<1>1. t[ns] \in Node /\ ns \in Namespaces
  BY Zenon DEF Sound, Shaped
<1> QED
  BY <1>1, Zenon DEF Regs, Pubs, Source, Node

(* addSession registers, removeSession unregisters, and nothing else.      *)
LEMMA SessionAdded ==
  ASSUME NamespaceAssumption, NEW t, Sound(t), NEW ns \in Namespaces, NEW s \in Sessions, NEW info \in Info
  PROVE  LET u == addSession(t, ns, s, info)
         IN  /\ Sound(u) /\ ns \in DOMAIN u
             /\ \A p \in Namespaces :
                  /\ Source(u, p) = Source(t, p) /\ Pubs(u, p) = Pubs(t, p)
                  /\ Regs(u, p) = IF p = ns THEN Regs(t, p) \cup {<<s, info>>} ELSE Regs(t, p)
<1> DEFINE t1 == findInTree(t, ns)
           node == WithSessions(t1[ns], t1[ns].sessions \cup {<<s, info>>})
           u == addSession(t, ns, s, info)
<1>1. Sound(t1) /\ ns \in DOMAIN t1 /\ Same(t, t1)
  <2>1. Sound(t1) /\ ns \in DOMAIN t1 /\ \A p \in Namespaces : Local(t1, p) = Local(t, p)
    BY FoundInTree, Zenon
  <2> QED
    BY <2>1, LocalSame, Zenon
<1>2. u = addContent(t1, ns, node, ~hasLocalSessions(t1[ns]))
  BY Zenon DEF addSession, WithSessions
<1> HIDE DEF t1, u
<1>3. /\ t1[ns] \in Node /\ t1[ns].sessions = Regs(t, ns) /\ t1[ns].publishes = Pubs(t, ns)
      /\ t1[ns].sourceSession = Source(t, ns)
      /\ Regs(t, ns) \cup {<<s, info>>} \in SUBSET (Sessions \X Info)
  BY <1>1, NodeOf, SMTT(30) DEF Same
<1>4. /\ node \in Node /\ node.activeChildCount = t1[ns].activeChildCount
      /\ node.sessions = Regs(t, ns) \cup {<<s, info>>} /\ node.publishes = Pubs(t, ns)
      /\ node.sourceSession = Source(t, ns)
  BY <1>3, WithShapes
<1> HIDE DEF node
<1>5. Sound(u) /\ DOMAIN u = DOMAIN t1 /\ Becomes(t1, u, ns, node)
  <2>1. /\ Sound(u) /\ DOMAIN u = DOMAIN t1
        /\ \A p \in Namespaces : Local(u, p) = IF p = ns THEN Content(node) ELSE Local(t1, p)
    <3> DEFINE wasEmpty == ~hasLocalSessions(t1[ns])
    <3>1. (~wasEmpty => hasLocalSessions(t1[ns])) /\ u = addContent(t1, ns, node, wasEmpty)
      BY <1>2, Zenon
    <3> HIDE DEF wasEmpty
    <3> QED
      BY <1>1, <1>4, <3>1, ContentAdded
  <2> QED
    BY <2>1, LocalBecomes, Zenon
<1>6. \A p \in Namespaces :
        /\ Source(u, p) = Source(t, p) /\ Pubs(u, p) = Pubs(t, p)
        /\ Regs(u, p) = IF p = ns THEN Regs(t, p) \cup {<<s, info>>} ELSE Regs(t, p)
  BY <1>1, <1>4, <1>5, Zenon DEF Becomes, Same
<1> QED
  BY <1>1, <1>5, <1>6, Zenon DEF u

LEMMA SessionRemoved ==
  ASSUME NamespaceAssumption, NEW t, Sound(t), NEW ns \in DOMAIN t, NEW s
  PROVE  LET u == removeSession(t, ns, s)
         IN  /\ Sound(u)
             /\ \A p \in Namespaces :
                  /\ Source(u, p) = Source(t, p) /\ Pubs(u, p) = Pubs(t, p)
                  /\ Regs(u, p) = IF p = ns THEN {e \in Regs(t, p) : e[1] # s} ELSE Regs(t, p)
<1> DEFINE regs == {e \in t[ns].sessions : e[1] # s}
           node == WithSessions(t[ns], regs)
           u == removeSession(t, ns, s)
<1>1. u = removeContent(t, ns, node)
  BY Zenon DEF removeSession, WithSessions
<1> HIDE DEF u
<1>2. /\ t[ns] \in Node /\ ns \in Namespaces /\ t[ns].sessions = Regs(t, ns)
      /\ t[ns].publishes = Pubs(t, ns) /\ t[ns].sourceSession = Source(t, ns)
      /\ regs \in SUBSET (Sessions \X Info)
  BY NodeOf
<1>3. /\ node \in Node /\ node.activeChildCount = t[ns].activeChildCount
      /\ node.sessions = regs /\ node.publishes = t[ns].publishes
      /\ node.sourceSession = t[ns].sourceSession
  BY <1>2, WithShapes, SMTT(30)
<1> HIDE DEF node
<1>4. hasLocalSessions(node) => hasLocalSessions(t[ns])
  BY <1>3, Zenon DEF hasLocalSessions
<1>5. Sound(u) /\ Becomes(t, u, ns, node)
  BY <1>1, <1>3, <1>4, ContentRemoved, LocalBecomes, Zenon
<1>6. \A p \in Namespaces :
        /\ Source(u, p) = Source(t, p) /\ Pubs(u, p) = Pubs(t, p)
        /\ Regs(u, p) = IF p = ns THEN {e \in Regs(t, p) : e[1] # s} ELSE Regs(t, p)
  BY <1>2, <1>3, <1>5, Zenon DEF Becomes
<1> QED
  BY <1>5, <1>6, Zenon DEF u

(* updateSubscriptionPrefix moves the registration, or leaves the tree as  *)
(* it was: the old prefix is still free when the new one overlaps.         *)
LEMMA PrefixUpdated ==
  ASSUME NamespaceAssumption, NEW t, TreeInv(t), NEW old \in DOMAIN t, NEW new \in Namespaces,
         NEW s \in Sessions, s \in Keys(Regs(t, old))
  PROVE  LET m == updateSubscriptionPrefix(t, old, new, s)
             info == InfoOf(t, old, s)
         IN  /\ TreeInv(m.tree) /\ m.ok \in BOOLEAN
             /\ <<s, info>> \in Regs(t, old) /\ info \in Info
             /\ \A p \in Namespaces :
                  Source(m.tree, p) = Source(t, p) /\ Pubs(m.tree, p) = Pubs(t, p)
             /\ m.ok => /\ new \in DOMAIN m.tree
                        /\ \A p \in Namespaces :
                             Regs(m.tree, p) =
                               (IF p = old THEN {e \in Regs(t, p) : e[1] # s} ELSE Regs(t, p))
                                 \cup (IF p = new THEN {<<s, info>>} ELSE {})
             /\ ~m.ok => \A p \in Namespaces : Regs(m.tree, p) = Regs(t, p)
<1> DEFINE info == InfoOf(t, old, s)
           d == removeSession(t, old, s)
           back == addSession(d, old, s, info)
           there == addSession(d, new, s, info)
           m == updateSubscriptionPrefix(t, old, new, s)
<1>1. Sound(t) /\ Disjoint(t) /\ Once(t)
  BY Zenon DEF TreeInv
<1>2. /\ old \in Namespaces /\ t[old].sessions = Regs(t, old)
      /\ Regs(t, old) \in SUBSET (Sessions \X Info)
  BY <1>1, NodeOf, Zenon
<1>3. <<s, info>> \in Regs(t, old) /\ info \in Info
  <2>1. \E e \in Regs(t, old) : e[1] = s
    BY Zenon DEF Keys
  <2> DEFINE e == CHOOSE e \in t[old].sessions : e[1] = s
  <2>2. e \in Regs(t, old) /\ e[1] = s
    BY <1>2, <2>1, Zenon
  <2>3. info = e[2]
    BY Zenon DEF InfoOf
  <2> HIDE DEF e, info
  <2>4. e \in Sessions \X Info
    BY <1>2, <2>2, Zenon
  <2>5. e = <<e[1], e[2]>> /\ e[2] \in Info
    BY <2>4, SMTT(30)
  <2> QED
    BY <2>2, <2>3, <2>5, Zenon
<1>4. /\ m.ok <=> ~hasOverlappingSubscription(d, new, s)
      /\ m.ok \in BOOLEAN
      /\ m.tree = IF m.ok THEN there ELSE back
  BY DEF updateSubscriptionPrefix, InfoOf
<1> HIDE DEF info, m
<1>5. /\ Sound(d)
      /\ \A p \in Namespaces :
           /\ Source(d, p) = Source(t, p) /\ Pubs(d, p) = Pubs(t, p)
           /\ Regs(d, p) = IF p = old THEN {e \in Regs(t, p) : e[1] # s} ELSE Regs(t, p)
  BY <1>1, SessionRemoved
<1> HIDE DEF d
<1>6. TreeInv(d)
  BY <1>5, RegsShrink, Zenon
<1>7. /\ Sound(back)
      /\ \A p \in Namespaces :
           /\ Source(back, p) = Source(d, p) /\ Pubs(back, p) = Pubs(d, p)
           /\ Regs(back, p) = IF p = old THEN Regs(d, p) \cup {<<s, info>>} ELSE Regs(d, p)
  BY <1>2, <1>3, <1>5, SessionAdded, SMTT(30)
<1>8. /\ Sound(there) /\ new \in DOMAIN there
      /\ \A p \in Namespaces :
           /\ Source(there, p) = Source(d, p) /\ Pubs(there, p) = Pubs(d, p)
           /\ Regs(there, p) = IF p = new THEN Regs(d, p) \cup {<<s, info>>} ELSE Regs(d, p)
  BY <1>3, <1>5, SessionAdded
<1> HIDE DEF back, there
<1>9. \A p \in Namespaces : Regs(back, p) = Regs(t, p)
  <2> SUFFICES ASSUME NEW p \in Namespaces PROVE Regs(back, p) = Regs(t, p)
    BY Zenon
  <2>1. CASE p = old
    <3>1. \A e \in Regs(t, old) : e[1] = s => e = <<s, info>>
      <4>1. <<s, info>>[1] = s
        BY Zenon
      <4> QED
        BY <1>1, <1>2, <1>3, <4>1, Zenon DEF Once
    <3>2. Regs(back, p) = {e \in Regs(t, old) : e[1] # s} \cup {<<s, info>>}
      BY <1>2, <1>5, <1>7, <2>1, Zenon
    <3> QED
      BY <1>3, <2>1, <3>1, <3>2, Zenon
  <2>2. CASE p # old
    BY <1>5, <1>7, <2>2, Zenon
  <2> QED
    BY <2>1, <2>2, Zenon
<1>10. CASE m.ok
  <2>1. ~Overlaps(d, new, s)
    BY <1>4, <1>5, <1>10, OverlapMeans, Zenon
  <2>2. TreeInv(there)
    BY <1>6, <1>8, <2>1, RegsGrow, Zenon
  <2>3. m.tree = there
    BY <1>4, <1>10, Zenon
  <2>4. \A p \in Namespaces :
          Regs(there, p) = (IF p = old THEN {e \in Regs(t, p) : e[1] # s} ELSE Regs(t, p))
                             \cup (IF p = new THEN {<<s, info>>} ELSE {})
    BY <1>5, <1>8, Zenon
  <2> QED
    BY <1>3, <1>4, <1>5, <1>8, <1>10, <2>2, <2>3, <2>4, Zenon DEF m, info
<1>11. CASE ~m.ok
  <2>1. TreeInv(back)
    BY <1>7, <1>9, RegsShrink, Zenon
  <2>2. m.tree = back
    BY <1>4, <1>11, Zenon
  <2> QED
    BY <1>3, <1>4, <1>5, <1>7, <1>9, <1>11, <2>1, <2>2, Zenon DEF m, info
<1> QED
  BY <1>10, <1>11, Zenon

(* A forward state changes, and no registration.                           *)
LEMMA ForwardSet ==
  ASSUME NamespaceAssumption, NEW t, TreeInv(t), NEW ns \in DOMAIN t, NEW s \in Sessions,
         NEW forward \in BOOLEAN
  PROVE  TreeInv(SetForward(t, ns, s, forward))
<1> DEFINE new(e) == IF e[1] = s THEN <<s, [e[2] EXCEPT !.forward = forward]>> ELSE e
           regs == {new(e) : e \in t[ns].sessions}
           node == WithSessions(t[ns], regs)
           u == SetForward(t, ns, s, forward)
<1>1. Sound(t) /\ Disjoint(t) /\ Once(t)
  BY Zenon DEF TreeInv
<1>2. /\ t[ns] \in Node /\ ns \in Namespaces /\ t[ns].sessions = Regs(t, ns)
      /\ Regs(t, ns) \in SUBSET (Sessions \X Info)
  BY <1>1, NodeOf, Zenon
<1>3. u = SetNode(t, ns, node)
  BY Zenon DEF SetForward, SetNode, WithSessions
<1>4. \A e \in Regs(t, ns) : new(e) \in Sessions \X Info /\ new(e)[1] = e[1]
  BY <1>2, Zenon DEF Info
<1> HIDE DEF new, u
<1>5. regs \in SUBSET (Sessions \X Info)
  BY <1>2, <1>4, Zenon
<1>6. /\ node \in Node /\ node.activeChildCount = t[ns].activeChildCount
      /\ node.sessions = regs /\ node.publishes = t[ns].publishes
      /\ node.sourceSession = t[ns].sourceSession
  BY <1>2, <1>5, WithShapes, SMTT(30)
<1> HIDE DEF node
<1>7. shouldKeep(node) => shouldKeep(t[ns])
  BY <1>6, Zenon DEF shouldKeep, hasLocalSessions
<1>8. Sound(u) /\ Becomes(t, u, ns, node)
  BY <1>1, <1>3, <1>6, <1>7, ReplacedCounts, LocalBecomes, Zenon
<1>9. \A p \in Namespaces : Regs(u, p) = IF p = ns THEN regs ELSE Regs(t, p)
  BY <1>6, <1>8, Zenon DEF Becomes
<1>10. Keys(regs) = Keys(Regs(t, ns))
  BY <1>2, <1>4 DEF Keys
<1>11. Disjoint(u)
  <2>1. \A p \in Namespaces : Keys(Regs(u, p)) = Keys(Regs(t, p))
    BY <1>9, <1>10, Zenon
  <2> QED
    BY <1>1, <2>1, Zenon DEF Disjoint
<1>12. Once(u)
  <2>1. ASSUME NEW a \in regs, NEW b \in regs, a[1] = b[1] PROVE a = b
    <3>1. PICK x \in Regs(t, ns), y \in Regs(t, ns) : a = new(x) /\ b = new(y)
      BY <1>2, Zenon
    <3>2. x[1] = y[1]
      BY <1>4, <2>1, <3>1, Zenon
    <3>3. x = y
      BY <1>1, <1>2, <3>2, Zenon DEF Once
    <3> QED
      BY <3>1, <3>3, Zenon
  <2> HIDE DEF regs
  <2> QED
    BY <1>1, <1>9, <2>1, Zenon DEF Once
<1> QED
  BY <1>8, <1>11, <1>12, Zenon DEF TreeInv, u

(* A publisher of a namespace comes ...                                    *)
LEMMA SourceSet ==
  ASSUME NamespaceAssumption, NEW t, TreeInv(t), NEW ns \in Namespaces, NEW s \in Sessions
  PROVE  LET t1 == findInTree(t, ns)
             cleared == [t1[ns] EXCEPT !.sourceSession = None]
             u == addContent(t1, ns, [cleared EXCEPT !.sourceSession = s],
                             ~hasLocalSessions(cleared))
         IN  /\ TreeInv(u) /\ Same(t, t1) /\ Sound(t1) /\ ns \in DOMAIN t1
             /\ \A p \in Namespaces :
                  /\ Source(u, p) = IF p = ns THEN s ELSE Source(t, p)
                  /\ Regs(u, p) = Regs(t, p) /\ Pubs(u, p) = Pubs(t, p)
<1> DEFINE t1 == findInTree(t, ns)
           cleared == WithSource(t1[ns], None)
           node == WithSource(cleared, s)
           wasEmpty == ~hasLocalSessions(cleared)
           u == addContent(t1, ns, node, wasEmpty)
<1>1. Sound(t1) /\ ns \in DOMAIN t1 /\ Same(t, t1)
  <2>1. Sound(t1) /\ ns \in DOMAIN t1 /\ \A p \in Namespaces : Local(t1, p) = Local(t, p)
    BY FoundInTree, Zenon DEF TreeInv
  <2> QED
    BY <2>1, LocalSame, Zenon
<1>2. u = addContent(t1, ns, [[t1[ns] EXCEPT !.sourceSession = None] EXCEPT !.sourceSession = s],
                     ~hasLocalSessions([t1[ns] EXCEPT !.sourceSession = None]))
  BY Zenon DEF WithSource
<1> HIDE DEF t1, u
<1>3. t1[ns] \in Node
  BY <1>1, NodeOf, Zenon
<1>4. /\ cleared \in Node /\ cleared.activeChildCount = t1[ns].activeChildCount
      /\ cleared.sessions = t1[ns].sessions /\ cleared.publishes = t1[ns].publishes
      /\ cleared.sourceSession = None
  BY <1>3, WithShapes
<1> HIDE DEF cleared
<1>5. /\ node \in Node /\ node.activeChildCount = t1[ns].activeChildCount
      /\ node.sessions = t1[ns].sessions /\ node.publishes = t1[ns].publishes
      /\ node.sourceSession = s
  BY <1>4, WithShapes
<1>6. ~wasEmpty => hasLocalSessions(t1[ns])
  BY <1>4, Zenon DEF hasLocalSessions
<1> HIDE DEF node, wasEmpty
<1>7. Sound(u) /\ Becomes(t1, u, ns, node)
  <2>1. /\ Sound(u)
        /\ \A p \in Namespaces : Local(u, p) = IF p = ns THEN Content(node) ELSE Local(t1, p)
    BY <1>1, <1>5, <1>6, ContentAdded, SMTT(30) DEF u
  <2> QED
    BY <2>1, LocalBecomes, Zenon
<1>8. t1[ns].sessions = Regs(t, ns) /\ t1[ns].publishes = Pubs(t, ns)
  BY <1>1, NodeOf, Zenon DEF Same
<1>9. \A p \in Namespaces : /\ Source(u, p) = IF p = ns THEN s ELSE Source(t, p)
                            /\ Regs(u, p) = Regs(t, p) /\ Pubs(u, p) = Pubs(t, p)
  BY <1>1, <1>5, <1>7, <1>8, Zenon DEF Becomes, Same
<1>10. TreeInv(u)
  BY <1>7, <1>9, RegsShrink, Zenon
<1> QED
  BY <1>1, <1>2, <1>9, <1>10, Zenon DEF t1

(* ... and goes.                                                           *)
LEMMA SourceCleared ==
  ASSUME NamespaceAssumption, NEW t, TreeInv(t), NEW ns \in DOMAIN t
  PROVE  LET u == removeContent(t, ns, [t[ns] EXCEPT !.sourceSession = None])
         IN  /\ TreeInv(u)
             /\ \A p \in Namespaces :
                  /\ Source(u, p) = IF p = ns THEN None ELSE Source(t, p)
                  /\ Regs(u, p) = Regs(t, p) /\ Pubs(u, p) = Pubs(t, p)
<1> DEFINE node == WithSource(t[ns], None)
           u == removeContent(t, ns, node)
<1>1. u = removeContent(t, ns, [t[ns] EXCEPT !.sourceSession = None])
  BY Zenon DEF WithSource
<1>2. /\ t[ns] \in Node /\ t[ns].sessions = Regs(t, ns) /\ Sound(t)
      /\ t[ns].publishes = Pubs(t, ns)
  BY NodeOf, Zenon DEF TreeInv
<1>3. /\ node \in Node /\ node.activeChildCount = t[ns].activeChildCount
      /\ node.sessions = t[ns].sessions /\ node.publishes = t[ns].publishes
      /\ node.sourceSession = None
  BY <1>2, WithShapes, SMTT(30)
<1> HIDE DEF node, u
<1>4. hasLocalSessions(node) => hasLocalSessions(t[ns])
  BY <1>3, Zenon DEF hasLocalSessions
<1>5. Sound(u) /\ Becomes(t, u, ns, node)
  BY <1>2, <1>3, <1>4, ContentRemoved, LocalBecomes, Zenon DEF u
<1>6. \A p \in Namespaces : /\ Source(u, p) = IF p = ns THEN None ELSE Source(t, p)
                            /\ Regs(u, p) = Regs(t, p) /\ Pubs(u, p) = Pubs(t, p)
  BY <1>2, <1>3, <1>5, Zenon DEF Becomes
<1>7. TreeInv(u)
  BY <1>5, <1>6, RegsShrink, Zenon
<1> QED
  BY <1>1, <1>6, <1>7, Zenon

(* The publishes of a node change, and nothing else.                       *)
(* publish adds to the publishes that are left.                            *)
PublishInto(t, track, s, kept) ==
  LET node == findInTree(t, track[1])[track[1]]
  IN addContent(findInTree(t, track[1]), track[1],
                [node EXCEPT !.publishes = kept \cup {<<track[2], s>>}], ~hasLocalSessions(node))

LEMMA PublishAdded ==
  ASSUME NamespaceAssumption, NEW t, TreeInv(t), NEW track \in Tracks, track[1] \in Namespaces,
         NEW s \in Sessions, NEW kept, kept \subseteq findInTree(t, track[1])[track[1]].publishes
  PROVE  LET u == PublishInto(t, track, s, kept)
         IN  /\ TreeInv(u)
             /\ findInTree(t, track[1])[track[1]].publishes = Pubs(t, track[1])
             /\ \A p \in Namespaces :
                  /\ Source(u, p) = Source(t, p) /\ Regs(u, p) = Regs(t, p)
                  /\ Pubs(u, p) = IF p = track[1] THEN kept \cup {<<track[2], s>>} ELSE Pubs(t, p)
<1> DEFINE ns == track[1]
           t1 == findInTree(t, ns)
           pubs == kept \cup {<<track[2], s>>}
           node == WithPublishes(t1[ns], pubs)
           wasEmpty == ~hasLocalSessions(t1[ns])
           u == addContent(t1, ns, node, wasEmpty)
<1>1. Sound(t1) /\ ns \in DOMAIN t1 /\ Same(t, t1)
  <2>1. Sound(t1) /\ ns \in DOMAIN t1 /\ \A p \in Namespaces : Local(t1, p) = Local(t, p)
    BY FoundInTree, Zenon DEF TreeInv
  <2> QED
    BY <2>1, LocalSame, Zenon
<1>2. u = PublishInto(t, track, s, kept)
  BY Zenon DEF WithPublishes, PublishInto
<1>3. kept \subseteq t1[ns].publishes
  BY Zenon
<1> HIDE DEF ns, t1, u
<1>4. /\ t1[ns] \in Node /\ t1[ns].sessions = Regs(t1, ns)
      /\ t1[ns].publishes \in SUBSET (TrackNames \X Sessions)
      /\ t1[ns].sourceSession = Source(t1, ns) /\ t1[ns].publishes = Pubs(t1, ns)
  BY <1>1, NodeOf
<1>5. pubs \in SUBSET (TrackNames \X Sessions)
  BY <1>3, <1>4, SMTT(30) DEF TrackNames
<1> HIDE DEF pubs
<1>6. /\ node \in Node /\ node.activeChildCount = t1[ns].activeChildCount
      /\ node.sessions = Regs(t1, ns) /\ node.sourceSession = Source(t1, ns)
      /\ node.publishes = pubs
  BY <1>4, <1>5, WithShapes, SMTT(30)
<1>7. ~wasEmpty => hasLocalSessions(t1[ns])
  BY Zenon
<1> HIDE DEF node, wasEmpty
<1>8. Sound(u) /\ Becomes(t1, u, ns, node)
  <2>1. /\ Sound(u)
        /\ \A p \in Namespaces : Local(u, p) = IF p = ns THEN Content(node) ELSE Local(t1, p)
    BY <1>1, <1>6, <1>7, ContentAdded, SMTT(30) DEF u
  <2> QED
    BY <2>1, LocalBecomes, Zenon
<1>9. \A p \in Namespaces : Source(u, p) = Source(t, p) /\ Regs(u, p) = Regs(t, p)
  BY <1>1, <1>6, <1>8, Zenon DEF Becomes, Same
<1>10. TreeInv(u)
  BY <1>8, <1>9, RegsShrink, Zenon
<1>11. \A p \in Namespaces : Pubs(u, p) = IF p = ns THEN pubs ELSE Pubs(t, p)
  BY <1>1, <1>6, <1>8, Zenon DEF Becomes, Same
<1>12. t1[ns].publishes = Pubs(t, ns)
  BY <1>1, <1>4, Zenon DEF Same, ns
<1> QED
  BY <1>2, <1>9, <1>10, <1>11, <1>12, Zenon DEF ns, t1, pubs

LEMMA PublishRemoved ==
  ASSUME NamespaceAssumption, NEW t, TreeInv(t), NEW track
  PROVE  LET u == removePublish(t, track)
         IN  /\ TreeInv(u)
             /\ \A p \in Namespaces :
                  /\ Source(u, p) = Source(t, p) /\ Regs(u, p) = Regs(t, p)
                  /\ Pubs(u, p) = IF p = track[1] THEN {e \in Pubs(t, p) : e[1] # track[2]}
                                  ELSE Pubs(t, p)
<1> DEFINE ns == track[1]
           pubs == {e \in t[ns].publishes : e[1] # track[2]}
           node == WithPublishes(t[ns], pubs)
           u == removePublish(t, track)
<1>1. CASE ns \notin DOMAIN t
  BY <1>1, Zenon DEF removePublish, Pubs
<1>2. CASE ns \in DOMAIN t
  <2>1. u = removeContent(t, ns, node)
    BY <1>2, Zenon DEF removePublish, WithPublishes
  <2> HIDE DEF ns, u
  <2>2. /\ t[ns] \in Node /\ t[ns].sessions = Regs(t, ns) /\ Sound(t)
        /\ pubs \in SUBSET (TrackNames \X Sessions) /\ t[ns].sourceSession = Source(t, ns)
        /\ t[ns].publishes = Pubs(t, ns)
    BY <1>2, NodeOf, SMTT(30) DEF TreeInv
  <2>3. /\ node \in Node /\ node.activeChildCount = t[ns].activeChildCount
        /\ node.sessions = t[ns].sessions /\ node.publishes = pubs
        /\ node.sourceSession = t[ns].sourceSession
    BY <2>2, WithShapes
  <2> HIDE DEF node
  <2>4. hasLocalSessions(node) => hasLocalSessions(t[ns])
    BY <2>3, Zenon DEF hasLocalSessions
  <2>5. Sound(u) /\ Becomes(t, u, ns, node)
    BY <1>2, <2>1, <2>2, <2>3, <2>4, ContentRemoved, LocalBecomes, Zenon
  <2>6. \A p \in Namespaces : Source(u, p) = Source(t, p) /\ Regs(u, p) = Regs(t, p)
    BY <2>2, <2>3, <2>5, Zenon DEF Becomes
  <2>7. TreeInv(u)
    BY <2>5, <2>6, RegsShrink, Zenon
  <2>8. \A p \in Namespaces :
          Pubs(u, p) = IF p = ns THEN {e \in Pubs(t, p) : e[1] # track[2]} ELSE Pubs(t, p)
    BY <2>2, <2>3, <2>5, Zenon DEF Becomes
  <2> QED
    BY <2>6, <2>7, <2>8, Zenon DEF u, ns
<1> QED
  BY <1>1, <1>2, Zenon

-----------------------------------------------------------------------------
(* What is read off a tree.                                                *)

LEMMA PrefixesAreNamespaces ==
  ASSUME NamespaceAssumption, NEW ns \in Namespaces
  PROVE  ns \in Seq(Names) /\ Prefixes(ns) \subseteq Namespaces /\ ns \in Prefixes(ns)
<1>1. ns \in Seq(Names) /\ Prefixes(ns) \subseteq Namespaces
  BY Zenon DEF NamespaceAssumption, Prefixes
<1> QED
  BY <1>1, PrefixOrder, Zenon

LEMMA SourceFound ==
  ASSUME NamespaceAssumption, NEW t, Sound(t), NEW ns \in Namespaces
  PROVE  /\ findPublishNamespaceSession(t, ns) \in Sessions \cup {None}
         /\ findPublishNamespaceSession(t, ns) = None <=>
              \A p \in Prefixes(ns) : Source(t, p) = None
<1> DEFINE sources == {p \in Prefixes(ns) \cap DOMAIN t : t[p].sourceSession # None}
           closest == CHOOSE p \in sources : \A q \in sources : Len(q) <= Len(p)
<1>1. sources = {} <=> \A p \in Prefixes(ns) : Source(t, p) = None
  BY Zenon DEF Source
<1>2. ns \in Seq(Names) /\ \A p \in Prefixes(ns) : Len(p) \in Nat /\ Len(p) <= Len(ns)
  BY PrefixesAreNamespaces, PrefixOrder, Zenon
<1>3. CASE sources = {}
  BY <1>1, <1>3, Zenon DEF findPublishNamespaceSession
<1>4. CASE sources # {}
  <2>1. findPublishNamespaceSession(t, ns) = t[closest].sourceSession
    BY <1>4, Zenon DEF findPublishNamespaceSession
  <2>2. closest \in sources
    <3> DEFINE far == {Len(ns) - Len(p) : p \in sources}
    <3>1. Len(ns) \in Nat
      BY <1>2, LenProperties, Zenon
    <3>2. far \in SUBSET Nat /\ far # {}
      BY <1>2, <1>4, <3>1
    <3>3. PICK d \in far : \A e \in far : d <= e
      BY <3>2, LeastNatural, Zenon
    <3>4. PICK p \in sources : d = Len(ns) - Len(p)
      BY <3>3, Zenon
    <3>5. \A q \in sources : Len(q) <= Len(p)
      <4> SUFFICES ASSUME NEW q \in sources PROVE Len(q) <= Len(p)
        BY Zenon
      <4>1. Len(ns) - Len(p) <= Len(ns) - Len(q)
        BY <3>3, <3>4, Zenon
      <4>2. Len(p) \in Nat /\ Len(q) \in Nat
        BY <1>2, Zenon
      <4> QED
        BY <3>1, <4>1, <4>2
    <3>6. \E y \in sources : \A q \in sources : Len(q) <= Len(y)
      BY <3>5, Zenon
    <3> HIDE DEF sources
    <3> QED
      BY <3>6, Zenon
  <2> HIDE DEF closest
  <2>3. closest \in DOMAIN t /\ t[closest].sourceSession # None
    BY <2>2, Zenon
  <2>4. t[closest].sourceSession \in Sessions \cup {None}
    BY <2>3, Zenon DEF Sound, Shaped, Node
  <2> QED
    BY <1>1, <1>4, <2>1, <2>3, <2>4, Zenon
<1> QED
  BY <1>3, <1>4, Zenon

LEMMA AlongShape ==
  ASSUME NEW t, Sound(t), NEW ns PROVE SessionsAlong(t, ns) \subseteq Sessions \X Info
<1>1. \A p \in DOMAIN t : t[p].sessions \in SUBSET (Sessions \X Info)
  BY Zenon DEF Sound, Shaped, Node
<1> QED
  BY <1>1, Zenon DEF SessionsAlong

LEMMA EmptyTreeSound ==
  ASSUME NamespaceAssumption
  PROVE  /\ TreeInv(EmptyTree)
         /\ \A p \in Namespaces :
              Source(EmptyTree, p) = None /\ Regs(EmptyTree, p) = {} /\ Pubs(EmptyTree, p) = {}
<1>1. /\ DOMAIN EmptyTree = {<<>>} /\ EmptyTree = [p \in DOMAIN EmptyTree |-> EmptyTree[p]]
      /\ EmptyTree[<<>>] = EmptyNode
  BY Zenon DEF EmptyTree
<1>2. <<>> \in Namespaces /\ <<>> \in Seq(Names)
  BY Zenon DEF NamespaceAssumption
<1>3. Shaped(EmptyTree)
  <2>1. IsFiniteSet({<<>>})
    BY FS_Singleton, Zenon
  <2> QED
    BY <1>1, <1>2, <2>1, EmptyNodeShape, Zenon DEF Shaped
<1>4. Closed(EmptyTree)
  <2>1. PICK root \in Seq(Names) : root = <<>> /\ Len(root) = 0
    BY <1>2, EmptySeq, Zenon
  <2>2. ASSUME NEW p \in Prefixes(root) PROVE p = root
    <3>1. Len(p) \in Nat /\ Len(p) <= Len(root)
      BY PrefixOrder, Zenon
    <3>2. Len(p) = Len(root)
      BY <2>1, <3>1
    <3> QED
      BY <3>2, PrefixOrder, Zenon
  <2> QED
    BY <1>1, <2>1, <2>2, Zenon DEF Closed
<1>5. Kept(EmptyTree, <<>>) = {}
  BY <1>1, Zenon DEF Kept
<1>6. \A p \in DOMAIN EmptyTree : EmptyTree[p].activeChildCount >= Cardinality(Kept(EmptyTree, p))
  <2>1. EmptyTree[<<>>].activeChildCount = 0 /\ Cardinality(Kept(EmptyTree, <<>>)) = 0
    BY <1>1, <1>5, FS_EmptySet, EmptyNodeShape, Zenon
  <2> QED
    BY <1>1, <2>1
<1>7. Sound(EmptyTree)
  BY <1>3, <1>4, <1>6, Counted, Zenon DEF Sound
<1>8. \A p \in Namespaces : Source(EmptyTree, p) = None /\ Regs(EmptyTree, p) = {} /\ Pubs(EmptyTree, p) = {}
  BY <1>1 DEF Source, Regs, Pubs, EmptyNode
<1>9. Disjoint(EmptyTree) /\ Once(EmptyTree)
  BY <1>8, Zenon DEF Disjoint, Once, Keys
<1> QED
  BY <1>7, <1>8, <1>9, Zenon DEF TreeInv
=============================================================================
