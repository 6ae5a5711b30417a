----------------------------- MODULE SimpleDBus -----------------------------
(***************************************************************************)
(* One D-Bus interface with Inhibit(appname, reason) -> cookie and         *)
(* UnInhibit(cookie): SimpleDBusInhibitInterface, its event loop in        *)
(* DBusInhibitInterface::start, and SimulateUserActivity as                *)
(* GnomeScreenSaverInhibitInterface adds it and as it is all that          *)
(* CinnamonScreenSaverInhibitInterface has; and the calls of               *)
(* GnomeSessionManagerInhibitInterface, which differ in the counter.       *)
(*                                                                         *)
(* Without monitor the daemon owns the bus name and answers.  With monitor *)
(* some other service does, and the daemon learns of an inhibit by pairing *)
(* a call it overheard with the return it overhears later.  The bus may    *)
(* refuse either at the start.  The clients, the bus (which delivers in    *)
(* one order to everybody) and that service are the environment.  The hub  *)
(* is a callback that may throw: see ForwardThrow of InhibitHub.  What the *)
(* hub places on the interface is in InhibitHub too; here are the inhibits *)
(* of applications.                                                        *)
(***************************************************************************)
EXTENDS InhibitTypes, SequencesExt

CONSTANTS
    Clients,        \* unique names of connections; the bus never reuses one
    Modes,          \* the values of monitor to look at
    Faces,          \* the interfaces to look at
    Modulus,        \* 2^32: cookies wrap to 0 here
    FirstCookie,    \* lastCookie when we begin to look
    Lifetime,       \* the five minutes of a simulated activity
    FirstSerial,    \* client -> where the serials of its messages start
    StraySerials,   \* reply serials of other method returns on the bus
    HubThrows,      \* the hub forwards to services that may fail
    MaxCalls,       \* monitor -> client -> bound on the calls it makes
    MaxTime         \* bound on the clock

VARIABLES
    monitor,        \* somebody else owned the name when it was asked about
    link,           \* what the bus brings us
    face,           \* which interface it is
    alive,          \* clients still connected
    serial,         \* client -> serial of its last message
    holds,          \* client -> cookies it was given and has not given back
    inbox,          \* messages the bus has for the daemon, oldest first
    service,        \* calls the owner of the name has not answered (monitor)
    svcCookie,      \* the last cookie that owner gave (monitor)
    active,         \* activeInhibits: id -> created
    owners,         \* inhibitOwners: sender -> ids
    lastCookie,
    methodCalls,    \* reply serial -> overheard call (monitor)
    now,            \* time(NULL)
    gone,           \* history: names whose loss was dispatched
    disowned,       \* history: ids that inhibitOwners lost track of
    missed          \* history: clients of which a message was swallowed

config == <<monitor, link, face>>
clientVars == <<alive, serial, holds>>
busVars == <<inbox, service, svcCookie>>
registryVars == <<active, owners, disowned>>
daemonVars == <<active, owners, disowned, lastCookie, methodCalls, gone, missed>>
vars == <<monitor, link, face, alive, serial, holds, inbox, service, svcCookie, active, owners,
          lastCookie, methodCalls, now, gone, disowned, missed>>

\* Inhibit and UnInhibit; the same in org.gnome.SessionManager; those and
\* SimulateUserActivity; that alone.
SIMPLE == "simple"
SESSION == "session"
GNOME == "gnome"
CINNAMON == "cinnamon"

ASSUME ClientsAssumption == Clients \subseteq STRING /\ "" \notin Clients
ASSUME ModesAssumption == Modes \subseteq BOOLEAN /\ HubThrows \in BOOLEAN
ASSUME FacesAssumption == Faces \subseteq {SIMPLE, SESSION, GNOME, CINNAMON}
ASSUME BoundsAssumption ==
    /\ Modulus \in Nat \ {0, 1} /\ FirstCookie \in 0..Modulus - 1
    /\ Lifetime \in Nat /\ MaxTime \in Nat
    /\ FirstSerial \in [Clients -> Nat] /\ MaxCalls \in [Modes -> [Clients -> Nat]]
    /\ StraySerials \subseteq Nat

\* Calls and signals; nothing, because the bus would not have a monitor, did not
\* give us the name, or somebody took it just before we asked for it; and calls
\* alone, when we waited for the name and no signal was asked for.
FULL == "full"
NONE == "none"
UNMATCHED == "unmatched"

\* We own the name; otherwise some service does, or nobody.
OwnsName == ~monitor /\ link # NONE

Cookies == 0..Modulus - 1
Id == [sender : Clients, cookie : Cookies]

\* The vector that a moved-from element of inhibitOwners is left as.
EmptyId == [sender |-> "", cookie |-> 0]

\* "nothing": the return carries no uint32.
Nothing == Modulus

Simulates == face \in {GNOME, CINNAMON}

Members == (IF face = CINNAMON THEN {} ELSE {"Inhibit", "UnInhibit"}) \cup
           (IF Simulates THEN {"SimulateUserActivity"} ELSE {})
Call == [what : Members, from : Clients, serial : Nat, cookie : Cookies]
Return == [what : {"return"}, from : {""}, serial : Nat, cookie : Cookies \cup {Nothing}]
NameLost == [what : {"gone"}, from : Clients, serial : {0}, cookie : {0}]

ReturnOf(s, k) == [what |-> "return", from |-> "", serial |-> s, cookie |-> k]

OwnersOf(c) == IF c \in DOMAIN owners THEN owners[c] ELSE <<>>
MapPut(m, key, val) == [k \in DOMAIN m \cup {key} |-> IF k = key THEN val ELSE m[k]]

----------------------------------------------------------------------------
(* Clients, the bus, and the service that owns the name when it is not us  *)

Send(c, what, k) ==
    LET m == [what |-> what, from |-> c, serial |-> serial[c] + 1, cookie |-> k]
    IN  /\ what \in Members /\ c \in alive /\ serial[c] < FirstSerial[c] + MaxCalls[monitor][c]
        /\ serial' = [serial EXCEPT ![c] = @ + 1]
        /\ inbox' = IF link # NONE THEN Append(inbox, m) ELSE inbox
        /\ service' = IF OwnsName THEN service ELSE Append(service, m)
        /\ UNCHANGED <<config, alive, svcCookie, now, daemonVars>>

\* Bound: no cookie comes round again while anybody still has a use for it.  (It
\* takes 2^32 - 1 calls; then two inhibits of a client can have one id.)
NoReissue ==
    LET n == 1 + Cardinality({i \in DOMAIN inbox : inbox[i].what = "Inhibit"})
        k == IF lastCookie + n < Modulus THEN lastCookie + n
             ELSE lastCookie + n - Modulus + (IF face = SESSION THEN 0 ELSE 1)
    IN  /\ n < Modulus
        /\ k \notin UNION {holds[d] : d \in Clients}
        /\ k \notin {id.cookie : id \in DOMAIN active}
        /\ k \notin {inbox[i].cookie : i \in DOMAIN inbox}

ClientInhibit(c) ==
    /\ OwnsName => NoReissue
    /\ Send(c, "Inhibit", 0) /\ UNCHANGED holds

\* A client gives back a cookie of its own, or tries another client's.
ClientUnInhibit(c) ==
    \E k \in UNION {holds[d] : d \in Clients} :
        /\ k \in holds[c] \/ \A n \in DOMAIN inbox : inbox[n].from # c
        /\ Send(c, "UnInhibit", k)
        /\ holds' = [holds EXCEPT ![c] = @ \ {k}]

ClientSimulate(c) ==
    Send(c, "SimulateUserActivity", 0) /\ UNCHANGED holds

\* Cinnamon's interface subscribes to no signal: an inhibit there only expires.
Listens == face # CINNAMON /\ link = FULL

\* A client exits or crashes; the bus tells with NameOwnerChanged.
ClientGone(c) ==
    /\ c \in alive
    /\ alive' = alive \ {c}
    /\ holds' = [holds EXCEPT ![c] = {}]
    /\ inbox' = IF Listens
                THEN Append(inbox, [what |-> "gone", from |-> c, serial |-> 0, cookie |-> 0])
                ELSE inbox
    /\ UNCHANGED <<config, serial, service, svcCookie, now, daemonVars>>

\* The owner of the name answers its oldest call.  What is sent to a client
\* that is gone the bus may or may not show a monitor.
ServiceAnswer ==
    /\ ~OwnsName /\ service # <<>>
    /\ LET m == Head(service)
           k == IF m.what = "Inhibit" THEN svcCookie + 1 ELSE Nothing
       IN  /\ m.what = "Inhibit" => k < Modulus
           /\ svcCookie' = IF m.what = "Inhibit" THEN k ELSE svcCookie
           /\ holds' = IF m.what = "Inhibit" /\ m.from \in alive
                       THEN [holds EXCEPT ![m.from] = @ \cup {k}] ELSE holds
           /\ \/ link # NONE /\ inbox' = Append(inbox, ReturnOf(m.serial, k))
              \/ (link = NONE \/ m.from \notin alive) /\ UNCHANGED inbox
    /\ service' = Tail(service)
    /\ UNCHANGED <<config, alive, serial, now, daemonVars>>

\* It may also refuse the call: an error is not among the rules of the monitor.
ServiceError ==
    /\ ~OwnsName /\ service # <<>> /\ Head(service).what = "Inhibit"
    /\ service' = Tail(service)
    /\ UNCHANGED <<config, clientVars, inbox, svcCookie, now, daemonVars>>

\* We were refused the name because it had just been taken, and wait for it: it
\* comes when its owner leaves, and what that one granted is gone.
NameComes ==
    /\ ~monitor /\ link = NONE
    /\ link' = UNMATCHED
    /\ holds' = [c \in Clients |-> {}] /\ service' = <<>> /\ svcCookie' = 0
    /\ UNCHANGED <<monitor, face, alive, serial, inbox, now, daemonVars>>

\* The monitor's rule type='method_return' brings it every other return too,
\* among them the answers to what the daemon itself asks of the service.  (Bound:
\* one comes only when all else was read and answered and a call is kept.)
StrayReturn ==
    /\ monitor /\ inbox = <<>> /\ service = <<>> /\ DOMAIN methodCalls # {}
    /\ \E s \in StraySerials : inbox' = <<ReturnOf(s, 1)>>
    /\ UNCHANGED <<config, clientVars, service, svcCookie, now, daemonVars>>

\* (Bound: time passes only while something can expire.)
Tick ==
    /\ now < MaxTime /\ Simulates /\ \E id \in DOMAIN active : id.cookie = 0
    /\ now' = now + 1
    /\ UNCHANGED <<config, clientVars, busVars, daemonVars>>

----------------------------------------------------------------------------
(* The handlers.  `thrown': a D-Bus error came out of inhibitCB.           *)

\* Mutant: the counter wraps to 0, the cookie of simulated activity.
MutantNextCookie == (lastCookie + 1) % Modulus

\* Mutant: the counter is wider than the cookie.
MutantNextCookieWide == lastCookie + 1

\* ++lastCookie, and 1 in the place of 0; the session manager may give 0.
NextCookie ==
    IF (lastCookie + 1) % Modulus = 0 /\ face # SESSION THEN 1
    ELSE (lastCookie + 1) % Modulus

\* registerInhibit, and then the owner is noted, unless registerInhibit threw.
\* The map keeps an entry it already has, time of creation included.
Register(id, thrown) ==
    /\ active' = MapInsert(active, id, now)
    /\ disowned' = IF thrown \/ id.sender \in gone THEN disowned \cup {id}
                 ELSE disowned \ {id}

\* handleInhibitMsg, with the cookie it sends or reads from the return.
OnInhibit(m, k, thrown) ==
    LET id == [sender |-> m.from, cookie |-> k]
    IN  /\ Register(id, thrown)
        /\ owners' = IF thrown THEN owners ELSE MapPush(owners, m.from, id)
        /\ lastCookie' = NextCookie

\* Mutant: what was to be one erased element takes the rest of the vector along.
MutantRemoveIf(ids, id) ==
    LET hit == {n \in DOMAIN ids : ids[n] = id}
    IN  IF hit = {} THEN ids ELSE SubSeq(ids, 1, (CHOOSE n \in hit : \A h \in hit : n <= h) - 1)

\* std::remove_if with nothing erased: the elements that stay move forward and
\* the tail keeps what is there: the removed id itself, or a moved-from {}.
RemoveIf(ids, id) ==
    LET stay == {n \in DOMAIN ids : ids[n] # id}
        place == [n \in stay |-> Cardinality({k \in stay : k <= n})]
    IN  [n \in DOMAIN ids |->
            IF \E k \in stay : place[k] = n THEN ids[CHOOSE k \in stay : place[k] = n]
            ELSE IF ids[n] = id THEN id ELSE EmptyId]

\* Mutant: the cookie alone decides, whoever sent the call.
MutantOnUnInhibit(m) ==
    /\ active' = [id \in {i \in DOMAIN active : i.cookie # m.cookie} |-> active[id]]
    /\ UNCHANGED <<owners, disowned, lastCookie>>

\* handleUnInhibitMsg
OnUnInhibit(m) ==
    LET id == [sender |-> m.from, cookie |-> m.cookie]
    IN  /\ active' = MapErase(active, id)
        /\ owners' = MapPut(owners, m.from, RemoveIf(OwnersOf(m.from), id))
        /\ disowned' = disowned \ {id}
        /\ UNCHANGED lastCookie

\* Cinnamon's ids have no cookie; those of simulated activity for gnome have 0.
ActivityId(c) == [sender |-> c, cookie |-> 0]

\* handleSimActivityMsg.  It compares two pointers where it looks for an
\* earlier one of this sender, so none is ever found; but the sender's whole
\* list of owned ids is cleared.
OnSimActivity(m, thrown) ==
    LET id == ActivityId(m.from)
        lost == {i \in DOMAIN active : i.sender = m.from}
    IN  /\ active' = MapInsert(active, id, now)
        /\ owners' = MapPut(owners, m.from, IF thrown THEN <<>> ELSE <<id>>)
        /\ disowned' = IF thrown \/ m.from \in gone THEN disowned \cup lost \cup {id}
                       ELSE (disowned \cup lost) \ {id}
        /\ UNCHANGED lastCookie

\* The handler of a method, given the cookie of the return when there is one.
Dispatch(m, k, thrown) ==
    \/ m.what = "Inhibit" /\ OnInhibit(m, k, thrown)
    \/ m.what = "UnInhibit" /\ ~thrown /\ OnUnInhibit(m)
    \/ m.what = "SimulateUserActivity" /\ OnSimActivity(m, thrown)

----------------------------------------------------------------------------
(* The event loop                                                          *)

\* The oldest message is one of these.
Oldest(what) == inbox # <<>> /\ Head(inbox).what \in what
Receive(what) == Oldest(what) /\ inbox' = Tail(inbox) /\ UNCHANGED missed

\* Whose inhibit or release a message is about.
About(m) ==
    IF m.what # "return" THEN {m.from}
    ELSE {methodCalls[n].from : n \in {m.serial} \cap DOMAIN methodCalls}

\* The oldest message was handled.  An exception leaves the loop over the
\* messages that were read with it; readWriteDispatch, which comes next, hands
\* the first of those, if there is one, to libdbus, where nobody waits for it.
Handled(thrown) ==
    \/ inbox' = Tail(inbox) /\ UNCHANGED missed
    \/ /\ thrown /\ Len(inbox) > 1
       /\ inbox' = Tail(Tail(inbox))
       /\ missed' = missed \cup About(inbox[2])

\* We own the name: the call is answered and handled at once.
HandleCall ==
    /\ OwnsName /\ Oldest(Members)
    /\ LET m == Head(inbox)
       IN  /\ \E thrown \in {FALSE, HubThrows} : Dispatch(m, NextCookie, thrown) /\ Handled(thrown)
           /\ holds' = IF m.what = "Inhibit" /\ m.from \in alive
                       THEN [holds EXCEPT ![m.from] = @ \cup {NextCookie}] ELSE holds
    /\ UNCHANGED <<config, alive, serial, service, svcCookie, methodCalls, now, gone>>

\* We do not: the call is kept until its return is overheard.  insert() drops
\* it when a call of another client with the same serial is still there.
RecordCall ==
    /\ monitor /\ Receive(Members)
    /\ methodCalls' = MapInsert(methodCalls, Head(inbox).serial, Head(inbox))
    /\ UNCHANGED <<config, clientVars, service, svcCookie, registryVars, lastCookie, now, gone>>

\* A return for a recorded call.  If it does not carry the cookie that is
\* expected, or the hub throws, the call stays recorded.
HandleReturn ==
    /\ Oldest({"return"}) /\ Head(inbox).serial \in DOMAIN methodCalls
    /\ LET r == Head(inbox)
           m == methodCalls[r.serial]
       IN  IF m.what = "Inhibit" /\ r.cookie = Nothing
           THEN /\ lastCookie' = NextCookie
                /\ Handled(FALSE)
                /\ UNCHANGED <<registryVars, methodCalls>>
           ELSE \E thrown \in {FALSE, HubThrows} :
                /\ Dispatch(m, r.cookie, thrown) /\ Handled(thrown)
                /\ methodCalls' = IF thrown THEN methodCalls ELSE MapErase(methodCalls, r.serial)
    /\ UNCHANGED <<config, clientVars, service, svcCookie, now, gone>>

IgnoreReturn ==
    /\ Receive({"return"}) /\ Head(inbox).serial \notin DOMAIN methodCalls
    /\ UNCHANGED <<config, clientVars, service, svcCookie, now, registryVars, lastCookie,
                   methodCalls, gone>>

\* Mutant: only the oldest id of the sender is released.
MutantReleasedWith(c) == IF OwnersOf(c) = <<>> THEN {} ELSE {Head(OwnersOf(c))}

\* What goes when a name is lost.
ReleasedWith(c) == ToSet(OwnersOf(c))

\* handleNameLostMsg
HandleNameLost ==
    /\ Receive({"gone"})
    /\ LET c == Head(inbox).from
       IN  /\ active' = [id \in DOMAIN active \ ReleasedWith(c) |-> active[id]]
           /\ owners' = MapPut(owners, c, <<>>)
           /\ gone' = gone \cup {c}
    /\ UNCHANGED <<config, clientVars, service, svcCookie, disowned, lastCookie, methodCalls, now>>

\* Mutant: created and the deadline are compared the wrong way round.
MutantExpired(id) == id.cookie = 0 /\ now + Lifetime <= active[id]

Expired(id) == id.cookie = 0 /\ active[id] + Lifetime <= now

\* poll: simulated activity that is old enough is released, and the owned ids
\* of its sender are forgotten, the others among them too.
Poll ==
    /\ Simulates
    /\ LET old == {id \in DOMAIN active : Expired(id)}
           from == {id.sender : id \in old}
       IN  /\ old # {}
           /\ active' = [id \in DOMAIN active \ old |-> active[id]]
           /\ owners' = [c \in DOMAIN owners \cup from |->
                            IF c \in from THEN <<>> ELSE owners[c]]
           /\ disowned' = (disowned \cup {id \in DOMAIN active : id.sender \in from}) \ old
    /\ UNCHANGED <<config, clientVars, busVars, lastCookie, methodCalls, now, gone, missed>>

----------------------------------------------------------------------------
Init ==
    /\ monitor \in Modes /\ face \in Faces /\ link \in {FULL, NONE}
    /\ alive = Clients
    /\ serial = FirstSerial
    /\ holds = [c \in Clients |-> {}]
    /\ inbox = <<>> /\ service = <<>> /\ svcCookie = 0
    /\ active = EmptyMap /\ owners = EmptyMap
    /\ lastCookie = FirstCookie
    /\ methodCalls = EmptyMap
    /\ now = 0
    /\ gone = {} /\ disowned = {} /\ missed = {}

Environment ==
    \/ \E c \in Clients :
        ClientInhibit(c) \/ ClientUnInhibit(c) \/ ClientSimulate(c) \/ ClientGone(c)
    \/ ServiceAnswer \/ ServiceError \/ NameComes \/ StrayReturn \/ Tick

\* A resumption of the coroutine by main() does one of these, and then polls.
Loop == HandleCall \/ RecordCall \/ HandleReturn \/ IgnoreReturn \/ HandleNameLost

Next == Environment \/ Loop \/ Poll

Spec == Init /\ [][Next]_vars

\* main() resumes every coroutine again and again, poll comes when the messages
\* of a turn are worked off, and time passes.  Neither the clients nor the
\* service owe the daemon anything.
FairSpec == Spec /\ WF_vars(Loop) /\ WF_vars(Poll) /\ WF_vars(Tick)

----------------------------------------------------------------------------
(* Properties                                                              *)

\* The types of the variables.
TypeOK ==
    /\ monitor \in Modes /\ face \in Faces /\ link \in {FULL, NONE, UNMATCHED}
    /\ alive \subseteq Clients
    /\ serial \in [Clients -> Nat]
    /\ holds \in [Clients -> SUBSET Cookies]
    /\ inbox \in Seq(Call \cup Return \cup NameLost)
    /\ service \in Seq(Call)
    /\ svcCookie \in Cookies
    /\ DOMAIN active \subseteq Id /\ \A id \in DOMAIN active : active[id] \in Nat
    /\ DOMAIN owners \subseteq Clients
    /\ \A c \in DOMAIN owners : owners[c] \in Seq(Id \cup {EmptyId})
    /\ lastCookie \in Cookies
    /\ DOMAIN methodCalls \subseteq Nat
    /\ \A s \in DOMAIN methodCalls : methodCalls[s] \in Call
    /\ now \in Nat
    /\ gone \subseteq Clients
    /\ disowned \subseteq Id
    /\ missed \subseteq Clients

\* Nothing is on its way, to us or to the service.
Quiet == inbox = <<>> /\ service = <<>>

ActiveOf(c) == {id \in DOMAIN active : id.sender = c}

\* Whenever all messages are dealt with, the inhibits the daemon has for a
\* connected client are the ones the client holds: of the cookies it was given,
\* by us or by the service, the ones it has not given back.  Only a client of
\* which a message was swallowed after an exception is not told right, and nobody
\* is when the bus refused us.
RegistryAgrees ==
    Quiet /\ link # NONE => \A c \in alive \ missed :
        {id.cookie : id \in ActiveOf(c)} \ (IF Simulates THEN {0} ELSE {}) = holds[c]

\* An inhibit ends only after its client gave its cookie back or went away: no
\* expiry, no other client's UnInhibit and no other client's loss ends it.
InhibitLasts ==
    [][\A id \in DOMAIN active \ DOMAIN active' : id.cookie \notin holds[id.sender]]_vars

\* inhibitOwners, which is all handleNameLostMsg goes by, lists every active
\* inhibit, but for those it lost track of (a throw out of registerInhibit,
\* simulated activity, a return later than the loss of the name).
OwnersComplete ==
    \A id \in DOMAIN active \ disowned : id \in ToSet(OwnersOf(id.sender))

\* The inhibits of a client whose loss was dispatched are gone, but for those.
DeadReleased ==
    \A c \in gone : ActiveOf(c) \subseteq disowned

\* Where we listen for it, a client that goes away leaves no inhibit behind for
\* ever, but for those and unless the loss of its name, or a message before it, was swallowed.
CrashReleases ==
    \A c \in Clients :
        Listens /\ c \notin alive ~> ActiveOf(c) \subseteq disowned \/ c \in missed

\* Simulated activity holds the screensaver off for five minutes from the call
\* that began it: then it is released, though its client asks again in between,
\* lives on or crashes.  (What began so late that the five minutes end beyond the
\* bound on the clock is left out.)
SimExpires ==
    \A c \in Clients :
        /\ Simulates /\ ActivityId(c) \in DOMAIN active
        /\ active[ActivityId(c)] + Lifetime <= MaxTime
        ~> ActivityId(c) \notin DOMAIN active

\* test/InhibitInterface/simpleDbusAssertions.hpp: "If a sender inhibits but
\* dissappears (ie. application crashes), the inhibit gets automatically
\* released".
DeadHoldNothing ==
    \A c \in gone : {id \in ActiveOf(c) : id.cookie # 0} = {}

=============================================================================
