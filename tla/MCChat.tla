------------------------------- MODULE MCChat -------------------------------
(* An instance of Chat for TLC: a few turns on a few sessions.              *)
EXTENDS Chat
=============================================================================
