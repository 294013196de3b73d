----------------------------- MODULE MCStreams -----------------------------
(* Small instances of Streams for TLC.                                     *)
EXTENDS Streams, TLC

CONSTANTS c1, c2, c3, i1, video, talk

\* Two viewers, two sources: the first offers video, the second also talks back.
TwoByTwoMedias == c1 :> <<video>> @@ c2 :> <<talk, video>>
TwoByTwoOffers == 1 :> {video} @@ 2 :> {video, talk}

\* Three viewers of one source, which is how the bridge reads ezviz_raw.
ThreeMedias == c1 :> <<video>> @@ c2 :> <<video>> @@ c3 :> <<video>>
TwoMedias == c1 :> <<video>> @@ c2 :> <<video>>
OneOffer == 1 :> {video}
NoLoops == {}
SecondLoops == {<<c1, 2>>}
=============================================================================
