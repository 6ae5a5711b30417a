----------------------------- MODULE MCForkPipe -----------------------------
(***************************************************************************)
(* Each helper, and a buffer that takes any line but a long one.           *)
(***************************************************************************)
EXTENDS ForkPipe

Both == {SYSTEMD, KERNEL}

=============================================================================
