------------------------------ MODULE HubEvents ------------------------------
(***************************************************************************)
(* What the interfaces of the hub do when callEvent tells them that        *)
(* something changed: the lock programs are turned off and on, the user's  *)
(* commands run, org.freedesktop.PowerManager sends HasInhibitChanged and  *)
(* org.gnome.SessionManager sends InhibitorAdded and InhibitorRemoved.     *)
(* Beside the hub stand the programs that are told, as far as they can     *)
(* know: a lock program, the last command run, and a D-Bus client that     *)
(* only listens to signals.                                                *)
(*                                                                         *)
(* An interface that was not ok at start ignores what it is told; nothing  *)
(* here is about it.                                                       *)
(***************************************************************************)
EXTENDS HubRefinement

CONSTANT Commands   \* the commands given on the command line: <<key, event>>

VARIABLES
    lastInhibited,  \* lastInhibited of the lock programs and user commands
    disabled,       \* lock programs that were told to keep quiet
    failed,         \* history: the last command to the lock program failed
    lastRun,        \* the last user command run for each key
    hasInhibit,     \* the last HasInhibitChanged of a power manager
    followed        \* the inhibitors that a listener to the signals knows of

toldVars == <<lastInhibited, disabled, failed, lastRun, hasInhibit, followed>>
eventVars == <<vars, toldVars>>

\* Key of the commands that run for any type (InhibitType::NONE in the maps).
ANY == "any"
Keys == Bits \cup {ANY}

ASSUME CommandsAssumption == Commands \subseteq Keys \X {"inhibit", "uninhibit"}

Lockers == {j \in Ifaces : Kind[j] = "sink"}
Users == {j \in Ifaces : Kind[j] = "usercmd"}

\* Interfaces that we implement; the others' owners answer and signal.
Served(kind) == {j \in Ifaces \ Monitored : Kind[j] = kind}

----------------------------------------------------------------------------
(* handleInhibitStateChanged                                               *)

\* callEvent calls it in this step.
Told(j) == lastState'[j] # lastState[j]

\* A lock program is only told when the screensaver bit is not the one it was
\* last told.
Turns(j) ==
    Told(j) /\ (SCREENSAVER \in lastState'[j]) # (SCREENSAVER \in lastInhibited[j])

\* The command may fail; a warning is all that comes of it.
TellLockers ==
    \E bad \in SUBSET {j \in Lockers : Turns(j)} :
        /\ disabled' = [j \in Lockers |->
               IF Turns(j) /\ j \notin bad THEN SCREENSAVER \in lastState'[j]
               ELSE disabled[j]]
        /\ failed' = [j \in Lockers |-> IF Turns(j) THEN j \in bad ELSE failed[j]]

\* Mutant: the assignment is missing.
MutantForget == lastInhibited' = lastInhibited

\* Mutant: the user commands too return before they remember.
MutantRemember ==
    lastInhibited' = [j \in Lockers \cup Users |->
        IF Turns(j) THEN lastState'[j] ELSE lastInhibited[j]]

\* Remembered whether or not the command worked.
Remember ==
    lastInhibited' = [j \in Lockers \cup Users |->
        IF Turns(j) \/ (j \in Users /\ Told(j)) THEN lastState'[j]
        ELSE lastInhibited[j]]

Holds(key, t) == IF key = ANY THEN t # {} ELSE key \in t

\* The command to run for key, if any, when the state goes from old to new.
EventFor(key, old, new) ==
    IF Holds(key, old) = Holds(key, new) THEN {}
    ELSE IF Holds(key, new) THEN {"inhibit"} ELSE {"uninhibit"}

RunCommands ==
    lastRun' = [j \in Users |-> [key \in Keys |->
        IF \E e \in EventFor(key, lastInhibited[j], lastState'[j]) :
               Told(j) /\ <<key, e>> \in Commands
        THEN CHOOSE e \in EventFor(key, lastInhibited[j], lastState'[j]) : TRUE
        ELSE lastRun[j][key]]]

\* HasInhibit and what HasInhibitChanged carries.
HasInhibit(inhibited) == inhibited \cap {SUSPEND} # {}

\* Mutant: the signal carries the state before the change.
MutantSignalPower ==
    hasInhibit' = [j \in Served("simple_pm") |->
        IF Told(j) THEN HasInhibit(lastState[j]) ELSE hasInhibit[j]]

SignalPower ==
    hasInhibit' = [j \in Served("simple_pm") |->
        IF Told(j) THEN HasInhibit(lastState'[j]) ELSE hasInhibit[j]]

----------------------------------------------------------------------------
(* handleInhibitEvent, handleUnInhibitEvent: InhibitorAdded and            *)
(* InhibitorRemoved name an inhibit by the path that ends in its cookie.   *)

CookiesOf(ids, j) == {id.cookie : id \in {i \in ids : i.inst = j}}

\* Mutant: no signal is sent for what was forwarded to us.
MutantSignalSession(added, removed) ==
    followed' = [j \in Served("gnomesm") |->
        (followed[j] \cup CookiesOf({id \in added : id.own = "app"}, j))
            \ CookiesOf(removed, j)]

SignalSession(added, removed) ==
    followed' = [j \in Served("gnomesm") |->
        (followed[j] \cup CookiesOf(added, j)) \ CookiesOf(removed, j)]

\* callEvent for each of the ids added and removed.
Tell(added, removed) ==
    /\ TellLockers /\ Remember /\ RunCommands
    /\ SignalPower
    /\ SignalSession(added, removed)

\* callEvent is not called.
Quiet == UNCHANGED toldVars

----------------------------------------------------------------------------
(* The hub, with what it tells.                                            *)

EventInit ==
    /\ Init
    /\ lastInhibited = [j \in Lockers \cup Users |-> {}]
    /\ disabled = [j \in Lockers |-> FALSE]
    /\ failed = [j \in Lockers |-> FALSE]
    /\ lastRun = [j \in Users |-> [key \in Keys |-> "none"]]
    /\ hasInhibit = [j \in Served("simple_pm") |-> FALSE]
    /\ followed = [j \in Served("gnomesm") |-> {}]

EventProceed ==
    \/ ForwardSkip /\ Quiet
    \/ ForwardCall /\ Quiet
    \/ ForwardActivate /\ Tell({job.pend}, {})
    \/ ForwardPlan /\ Quiet
    \/ ForwardNoReply /\ Quiet
    \/ ForwardThrow /\ Quiet
    \/ FinishInhibit /\ Tell({job.id}, {})
    \/ ReleaseStep /\ Tell({}, Released)
    \/ ReleaseThrow /\ Quiet
    \/ FinishUnInhibit /\ Tell({}, {job.id})

EventNext ==
    \/ \E i \in Ifaces, n \in Apps : RegisterInhibit(i, n) /\ Quiet
    \/ \E id \in DOMAIN active : RegisterUnInhibit(id) /\ Quiet
    \/ EventProceed
    \/ \E j \in Ifaces : HelperDies(j) /\ Quiet
    \/ (Sigint \/ SigintThrow) /\ Tell({}, DOMAIN active \ DOMAIN active')

\* Only a handler that was entered goes on, and only where it makes no call that
\* may never return.
EventSpec ==
    EventInit /\ [][EventNext]_eventVars /\ WF_eventVars(~Waiting /\ EventProceed)

----------------------------------------------------------------------------
(* Queries of org.gnome.SessionManager, answered between two handlers.     *)

GnomeFlags == {"LOGOUT", "SWITCHUSER", "SUSPEND", "SESSIONIDLE"}

gnomeType2us(flags) ==
    (IF "SUSPEND" \in flags THEN {SUSPEND} ELSE {})
        \cup (IF "SESSIONIDLE" \in flags THEN {SCREENSAVER} ELSE {})

us2gnomeType(us) ==
    (IF SUSPEND \in us THEN {"SUSPEND"} ELSE {})
        \cup (IF SCREENSAVER \in us THEN {"SESSIONIDLE"} ELSE {})

GetInhibitors(j) == CookiesOf(DOMAIN active, j)

\* The inhibits of j that bear the cookie; the code takes the first.
InhibitFromCookie(j, cookie) ==
    {id \in DOMAIN active : id.inst = j /\ id.cookie = cookie}

\* The path does not name an inhibit: no flags.
GetFlags(j, cookie) ==
    UNION {us2gnomeType(active[id]) : id \in InhibitFromCookie(j, cookie)}

IsInhibited(j, flags) == gnomeType2us(flags) \cap InhibitedBy(active, j) # {}

InhibitedActions(j) == us2gnomeType(InhibitedBy(active, j))

----------------------------------------------------------------------------
(* Properties                                                              *)

\* The release of an application's own inhibit on j ended in an exception, so
\* that j was not told of it.
Untold(j) == {key \in cut : key.inst = j}

\* A client of the session manager that only listens to InhibitorAdded and
\* InhibitorRemoved knows, between two handlers, every inhibit there is and no
\* other, but for one whose forwarding or release ended in an error; each path it
\* knows names one inhibit; and as long as none failed, the flags it collects
\* path by path are what InhibitedActions and IsInhibited answer, and what the
\* applications asked for.
SessionFollowed ==
    job.op = "idle" => \A j \in Served("gnomesm") :
        /\ followed[j] \subseteq GetInhibitors(j) \cup CookiesOf(cut, j)
        /\ \A id \in DOMAIN active \ aborted : id.inst = j => id.cookie \in followed[j]
        /\ \A c \in followed[j] \ CookiesOf(cut, j) :
             \E id \in DOMAIN active : InhibitFromCookie(j, c) = {id}
        /\ Smooth =>
             LET known == UNION {GetFlags(j, c) : c \in followed[j]}
             IN  /\ known = InhibitedActions(j)
                 /\ known = us2gnomeType({b \in Bits : Asked(b)})
                 /\ \A flags \in SUBSET GnomeFlags :
                        IsInhibited(j, flags) <=> known \cap flags # {}

\* The last HasInhibitChanged agrees, between two handlers, with what HasInhibit
\* would answer, unless the forwarding or the release of an application's own
\* inhibit there ended in an error.
PowerFollowed ==
    job.op = "idle" => \A j \in Served("simple_pm") :
        /\ \A id \in DOMAIN active : id.inst = j => id \notin aborted
        /\ Untold(j) = {}
        => hasInhibit[j] = HasInhibit(InhibitedBy(active, j))

\* doc/uinhibitd.1.scd: a command runs "every time the state has changed".
\* Between two handlers, and as long as none failed, the last command run for a
\* key is its inhibit command exactly when some application asks for it; after
\* handleExit no inhibit command is left without its counterpart, but for the
\* forward that SIGINT fell into.
CommandsFollow ==
    \A j \in Users, key \in Keys : {key} \X {"inhibit", "uninhibit"} \subseteq Commands =>
        /\ job.op = "idle" /\ Smooth =>
             (lastRun[j][key] = "inhibit" <=> Holds(key, {b \in Bits : Asked(b)}))
        /\ job.op = "exited" /\ job.pend.inst # j => lastRun[j][key] # "inhibit"

\* The commands to a lock program may fail and all forwards to it share one id;
\* still, unless its last command failed or a dead helper cut a release short
\* before its turn, between two handlers it is never kept quiet when no
\* application asks for the screen to stay on, and handleExit turns it on, but
\* for the forward that SIGINT fell into.
LockerReturns ==
    \A j \in Lockers : disabled[j] /\ ~failed[j] =>
        /\ job.op = "idle" =>
             Asked(SCREENSAVER) \/ \E id \in DOMAIN active : id.inst = j /\ LeftBehind(id)
        /\ job.op = "exited" => job.pend.inst = j

=============================================================================
