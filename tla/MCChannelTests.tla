--------------------------- MODULE MCChannelTests ---------------------------
(* Two channels that share a model, two-model batches in slices of one. *)
EXTENDS ChannelTests

MCModels == [ch \in Channels |-> IF ch = "c1" THEN <<"m", "k">> ELSE <<"m">>]
=============================================================================
