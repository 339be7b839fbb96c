--------------------------- MODULE MCFeedHandlers ---------------------------
(* The exchange of the TLC run of FeedHandlers: the best level changes its size, *)
(* then a level appears behind it and pushes another one out of the depth that   *)
(* Kraken sends.                                                                 *)
EXTENDS FeedHandlers

MCTouched == <<1, 2>>
=============================================================================
