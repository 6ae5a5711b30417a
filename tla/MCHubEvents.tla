---------------------------- MODULE MCHubEvents -----------------------------
(***************************************************************************)
(* One interface of each class, in the order of main(), and a command for  *)
(* every change.                                                           *)
(***************************************************************************)
EXTENDS HubEvents

\* Which class an interface of these instances belongs to.
Class == [
    login1   |-> "login1",    fdoSS   |-> "simple_ss",
    fdoPM    |-> "simple_pm", gnomeSM |-> "gnomesm", gnomeSS   |-> "gnomess",
    cinnamon |-> "cinnamon",  kernel  |-> "kernel",  xautolock |-> "sink",
    sxmo     |-> "sxmo",      usercmd |-> "usercmd"]

MCKind == [j \in Ifaces |-> Class[j]]

\* We implement the power manager and the session manager; screen savers of
\* GNOME and Cinnamon run, and one of them is asked and may not answer.
MCOrder == <<"fdoPM", "gnomeSM", "gnomeSS", "cinnamon", "kernel", "xautolock",
             "sxmo", "usercmd">>
MCMonitored == {"gnomeSS", "cinnamon"}

\* The two interfaces with a helper, with interfaces without one after each.
HelperOrder == <<"login1", "gnomeSM", "kernel", "xautolock", "usercmd">>
HelperMonitored == {"login1"}

MCCommands == Keys \X {"inhibit", "uninhibit"}

=============================================================================
