--------------------------- MODULE MCFeedHandler ----------------------------
(* The threads of FeedHandler for TLC. *)
EXTENDS FeedHandler

RecvOnly   == {recv}
AllThreads == {recv, consumer, main}
=============================================================================
