--------------------------- MODULE MCStoryBroker ---------------------------
(* Two instances, of which the cap allows one. *)
EXTENDS StoryBroker
=============================================================================
