------------------------------ MODULE MCRelay ------------------------------
(* Small instances of MoQRelay.                                            *)
EXTENDS MoQRelay, TLC

(* Two levels below the root, so that a node can have content, active      *)
(* children, both or neither.                                              *)
Deep == {<<>>, <<"a">>, <<"a", "b">>, <<"a", "c">>}
Flat == {<<>>, <<"a">>}

NoPrefixes == {}
OnePrefix == {<<"a">>}
NoTracks == {}
OneTrack == {<< <<"a">>, "t" >>}

AllInfos == [forward : {TRUE}, options : {"NAMESPACE", "BOTH"}]
Both == [forward : {TRUE}, options : {"BOTH"}]

(* The subscribers are alike.                                              *)
SubscriberSymmetry == Permutations(Subscribers)
=============================================================================
