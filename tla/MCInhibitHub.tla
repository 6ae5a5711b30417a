---------------------------- MODULE MCInhibitHub ----------------------------
(***************************************************************************)
(* Two D-Bus interfaces and a lock program, in the order of main().        *)
(***************************************************************************)
EXTENDS InhibitHub

SinkOrder == <<"fdoSS", "gnomeSM", "xautolock">>

MCKind == [fdoSS |-> "simple_ss", gnomeSM |-> "gnomesm", xautolock |-> "sink"]

None == {}

=============================================================================
