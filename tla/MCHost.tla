-------------------------------- MODULE MCHost --------------------------------
(* A host under systemd or under launchd. *)
EXTENDS Host

MCBackends == {"systemd", "launchd"}
=============================================================================
