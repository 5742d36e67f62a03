------------------------------ MODULE MCRelays ------------------------------
(* Three small instances of MoQRelay; a behaviour is one of one of them.   *)
(* "tracks": two subscribers and a publisher of one track and of its       *)
(* namespace, with no prefix subscriptions.  "publish": a PUBLISH meets    *)
(* SUBSCRIBE_NAMESPACE, SUBSCRIBE_TRACKS and SUBSCRIBE.  "tree": two       *)
(* sessions publish namespaces two levels deep and subscribe to the        *)
(* prefixes of one branch.  The constants of MoQRelay itself are large     *)
(* enough for all three.                                                   *)
EXTENDS MoQRelay

CONSTANTS s1, s2, p, f1, f2

VARIABLE part

Flat == {<<>>, <<"a">>}
Deep == {<<>>, <<"a">>, <<"a", "b">>, <<"a", "c">>}
Upper == {<<>>, <<"a">>, <<"a", "b">>}
OneTrack == {<< <<"a">>, "t" >>}
Both == [forward : {TRUE}, options : {"BOTH"}]
AllInfos == [forward : {TRUE}, options : {"NAMESPACE", "BOTH"}]
Everyone == {s1, s2, p}
TwoForwarders == {f1, f2}

T == INSTANCE MoQRelay WITH
       Namespaces <- Flat, Forwarders <- {f1, f2}, Infos <- Both, Forwards <- {TRUE},
       NamespacePrefixes <- {}, TracksPrefixes <- {},
       Publishers <- {p}, Subscribers <- {s1, s2}, Registrants <- {}, MaxCount <- 1
P == INSTANCE MoQRelay WITH
       Namespaces <- Flat, Forwarders <- {f1}, Infos <- Both,
       NamespacePrefixes <- {<<"a">>}, TracksPrefixes <- {<<"a">>},
       Publishers <- {p}, Subscribers <- {s2}, Registrants <- {s1}, MaxCount <- 1
N == INSTANCE MoQRelay WITH
       Tracks <- {}, Forwarders <- {}, Forwards <- {TRUE},
       NamespacePrefixes <- Upper, TracksPrefixes <- {},
       Publishers <- {s1, s2}, Subscribers <- {}, Registrants <- {s1, s2}

ASSUME /\ RelayAssumption /\ NamespaceAssumption
       /\ T!RelayAssumption /\ T!NamespaceAssumption
       /\ P!RelayAssumption /\ P!NamespaceAssumption
       /\ N!RelayAssumption /\ N!NamespaceAssumption

PartsInit ==
  \/ part = "tracks" /\ T!Init
  \/ part = "publish" /\ P!Init
  \/ part = "tree" /\ N!Init

PartsNext ==
  /\ UNCHANGED part
  /\ \/ part = "tracks" /\ T!Next
     \/ part = "publish" /\ P!Next
     \/ part = "tree" /\ N!Next

(* Fairness of the first instance: see FairSpec of MoQRelay.               *)
PartsFairness ==
  /\ \A f \in {f1, f2} :
       /\ WF_<<part, vars>>(/\ part = "tracks" /\ UNCHANGED part
                            /\ \E answer \in {"live", "rejected"} : T!upstreamAnswers(f, answer))
       /\ WF_<<part, vars>>(part = "tracks" /\ UNCHANGED part /\ T!resumeFirst(f))
  /\ \A r \in T!Request :
       WF_<<part, vars>>(/\ part = "tracks" /\ UNCHANGED part
                         /\ \E c \in coalescing : c.request = r /\ T!resumeCoalesced(c))

PartsSpec == PartsInit /\ [][PartsNext]_<<part, vars>> /\ PartsFairness

-----------------------------------------------------------------------------
(* Where no forwarder outlives its entry beside a successor: nobody loses  *)
(* its forwarder untold, and in "publish" the publisher is asked for       *)
(* objects while somebody wants them.                                      *)
NobodyLosesOut == NoneDetached /\ (part = "publish" => PublisherForwards)

(* A subscribe that coalesced is answered, however the first one ends.     *)
CoalescedAnswered ==
  \A r \in T!Request :
    (part = "tracks" /\ \E c \in coalescing : c.request = r)
      ~> ~ \E c \in coalescing : c.request = r
=============================================================================
