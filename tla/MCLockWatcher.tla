--------------------------- MODULE MCLockWatcher ----------------------------
(***************************************************************************)
(* One name that applications use and one that the hub uses.               *)
(***************************************************************************)
EXTENDS LockWatcher

Apart == {"app", "hub"}
Takes == [n \in Names |-> IF n = "app" THEN 2 ELSE 0]
Asks == [n \in Names |-> IF n = "hub" THEN 1 ELSE 0]

Both == {KERNEL, SXMO}

=============================================================================
