---------------------------- MODULE LineChannel -----------------------------
(***************************************************************************)
(* What NewlineMessageFork promises of the lines sent to a helper process: *)
(* each is handled once, whole, and in the order they were sent.           *)
(***************************************************************************)
EXTENDS SequencesExt

VARIABLES
    posted,     \* the lines that were sent
    handled     \* the lines that were handled

channelVars == <<posted, handled>>

Post ==
    /\ Len(posted') = Len(posted) + 1 /\ IsPrefix(posted, posted')
    /\ UNCHANGED handled

Handle ==
    /\ Len(handled) < Len(posted)
    /\ handled' = Append(handled, posted[Len(handled) + 1])
    /\ UNCHANGED posted

Channel == posted = <<>> /\ handled = <<>> /\ [][Post \/ Handle]_channelVars

=============================================================================
