--------------------------- MODULE UnifiedInhibit ---------------------------
(***************************************************************************)
(* What uinhibitd promises, without cookies, plans or handlers: an inhibit *)
(* that an application asks for is copied to the other interfaces one at a *)
(* time, a copy is withdrawn only after the application let go, and when   *)
(* the daemon stops it withdraws what it can.                              *)
(***************************************************************************)
VARIABLES
    asked,    \* the inhibits applications hold, each on an interface .inst
    copies,   \* <<inhibit, interface>>: copies that are in force
    stopped   \* the daemon has exited, or run into undefined behaviour

absVars == <<asked, copies, stopped>>

Start == asked = {} /\ copies = {} /\ stopped = FALSE

Ask ==
    /\ ~stopped
    /\ \E a \in asked' \ asked : asked' = asked \cup {a}
    /\ UNCHANGED <<copies, stopped>>

\* Never back to the interface it came from.
Copy ==
    /\ ~stopped
    /\ \E c \in copies' \ copies :
        /\ copies' = copies \cup {c}
        /\ c[1] \in asked
        /\ c[2] # c[1].inst
    /\ UNCHANGED <<asked, stopped>>

LetGo ==
    /\ ~stopped
    /\ \E a \in asked : asked' = asked \ {a}
    /\ UNCHANGED <<copies, stopped>>

Withdraw ==
    /\ ~stopped
    /\ \E c \in copies : copies' = copies \ {c} /\ c[1] \notin asked
    /\ UNCHANGED <<asked, stopped>>

Stop ==
    /\ ~stopped
    /\ stopped' = TRUE
    /\ copies' \subseteq copies
    /\ UNCHANGED asked

Step == Ask \/ Copy \/ LetGo \/ Withdraw \/ Stop

Promise == Start /\ [][Step]_absVars

=============================================================================
