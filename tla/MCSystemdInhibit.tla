-------------------------- MODULE MCSystemdInhibit --------------------------
(***************************************************************************)
(* Two locks of applications, two requests of the hub.                     *)
(***************************************************************************)
EXTENDS SystemdInhibit

AppLocks == {"l1", "l2"}
DelayLocks == {"l2"}
NoDelay == {}
HubForwards == {"f1", "f2"}

=============================================================================
