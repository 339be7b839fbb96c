-------------------------- MODULE MCLiveConnector --------------------------
(* Small instances of LiveConnector for TLC. *)
EXTENDS LiveConnector

\* Two client ids, so that a replace has another id to move to.
MCIds == {1, 2}
=============================================================================
