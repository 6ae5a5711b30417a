---------------------------- MODULE MCSimpleDBus ----------------------------
(***************************************************************************)
(* Two clients of one D-Bus interface.                                     *)
(***************************************************************************)
EXTENDS SimpleDBus

Two == {"c1", "c2"}

AllFaces == {SIMPLE, SESSION, GNOME, CINNAMON}
JustSimple == {SIMPLE}
JustGnome == {GNOME}
Serving == {FALSE}
Monitoring == {TRUE}
Both == {FALSE, TRUE}

\* Serials of different connections that never meet, and that do.
Apart == [c \in Clients |-> IF c = "c1" THEN 0 ELSE 10]
Same == [c \in Clients |-> 0]

\* Returns of calls that are none of ours to record.
Elsewhere == {20}
NoStray == {}

\* Calls each client makes.
Calls(n1, n2) == [c \in Clients |-> IF c = "c1" THEN n1 ELSE n2]
Few == [m \in Modes |-> IF m THEN Calls(2, 1) ELSE Calls(3, 1)]
More == [m \in Modes |-> Calls(3, 2)]

=============================================================================
