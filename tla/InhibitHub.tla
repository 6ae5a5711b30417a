----------------------------- MODULE InhibitHub -----------------------------
(***************************************************************************)
(* The hub of uinhibitd: the callbacks of src/main.cpp (inhibitCB,         *)
(* unInhibitCB, handleExit) and the bookkeeping every interface inherits   *)
(* from src/InhibitInterface/InhibitInterface.cpp.                         *)
(*                                                                         *)
(* An interface that sees an application inhibit something registers it;   *)
(* the hub forwards it to every other interface and remembers in           *)
(* releasePlan what it must undo when the application lets go.  All of     *)
(* this runs on the main thread, one handler at a time, but a handler is   *)
(* not atomic: SIGINT may interrupt it anywhere (exit(0) from the signal   *)
(* handler), a forward to a D-Bus service may time out or fail, and the    *)
(* helper process that works for an interface may be dead.  A handler is   *)
(* therefore a `job' that advances one interface at a time.                *)
(*                                                                         *)
(* The std::maps activeInhibits of the interfaces are one map here: an id  *)
(* names its interface.  (The lock programs' empty id {} does not, but it  *)
(* is never a key of releasePlan, and next to an interface it is enough.)  *)
(* The pairs {interface, id} of releasePlan are plain ids for that reason. *)
(***************************************************************************)
EXTENDS InhibitTypes

CONSTANTS
    Order,      \* the vector `inhibitors', in the order main() fills it
    Kind,       \* interface -> what class of interface it is
    Monitored,  \* D-Bus interfaces whose name another service owns
    Apps,       \* applications: sender, application name and reason
    MaxCookie   \* bound on the cookies any interface hands out

VARIABLES
    active,     \* activeInhibits: id -> type
    plan,       \* releasePlan: id an application holds -> ids forwarded for it
    lastState,  \* lastInhibitState of each interface
    announced,  \* lastInhibitType, the state last printed
    lastCookie, \* last cookie each interface, or the service it watches, gave
    held,       \* ids of locks that programs outside uinhibitd hold for us
    dead,       \* interfaces whose helper process has died
    job,        \* what the main thread is doing
    asked,      \* history: what applications asked for: id -> type
    aborted,    \* history: ids whose forwarding was cut short by an error
    cut,        \* history: ids whose release was cut short by an exception
    orphans     \* history: locks a service took after we stopped waiting

vars == <<active, plan, lastState, announced, lastCookie, held, dead, job,
          asked, aborted, cut, orphans>>

helperVars == <<dead, cut>>

Ifaces == {Order[n] : n \in 1..Len(Order)}

\* "cookie" ids come from a counter, "name" ids are built from the names in
\* the request, "empty" ids are all {}, "fd" ids are numbers of descriptors.
CookieKinds == {"simple_ss", "simple_pm", "gnomess", "gnomesm", "cinnamon",
                "usercmd"}
NameKinds == {"kernel", "sxmo"}
EmptyKinds == {"sink"}
FdKinds == {"login1"}
Kinds == CookieKinds \cup NameKinds \cup EmptyKinds \cup FdKinds

NoName == ""

ASSUME OrderAssumption ==
    /\ Order \in Seq(STRING)
    /\ \A m, n \in 1..Len(Order) : Order[m] = Order[n] => m = n
    /\ \A n \in 1..Len(Order) : Order[n] # NoName
ASSUME KindAssumption == Kind \in [Ifaces -> Kinds]
ASSUME AppsAssumption == Apps \subseteq STRING /\ NoName \notin Apps
ASSUME MonitoredAssumption == Monitored \subseteq Ifaces
ASSUME CookieAssumption == MaxCookie \in Nat

Id == [inst : Ifaces, own : {"app", "us", "none"},
       name : Apps \cup {NoName}, cookie : Nat]

NoId == [inst |-> NoName, own |-> "none", name |-> NoName, cookie |-> 0]

\* "terminated" is the end by an exception that leaves handleExit.
Ended == {"exited", "terminated", "undefined"}
Ops == {"idle", "inhibit", "called", "activated", "uninhibit"} \cup Ended

Job == [op : Ops, org : Ifaces \cup {NoName}, id : Id \cup {NoId},
        type : InhibitType, name : Apps \cup {NoName}, k : Nat,
        pend : Id \cup {NoId}]

Idle == [op |-> "idle", org |-> NoName, id |-> NoId, type |-> {},
         name |-> NoName, k |-> 0, pend |-> NoId]

----------------------------------------------------------------------------
(* What the classes of interface have in common and where they differ.     *)

\* The types a doInhibit can take and report.
Supported(j) ==
    CASE Kind[j] \in {"simple_ss", "gnomess", "cinnamon"} -> {SCREENSAVER}
      [] Kind[j] \in {"simple_pm", "kernel"} -> {SUSPEND}
      [] OTHER -> Bits

\* Otherwise doInhibit throws InhibitRequestUnsupportedTypeException.  The
\* lock programs and the user commands take a request of any type, NONE too.
Accepts(j, t) ==
    Kind[j] \in {"sink", "usercmd"} \/ t \cap Supported(j) # {}

\* The type of the Inhibit that doInhibit returns.
Granted(j, t) == t \cap Supported(j)

\* doInhibit waits for a method return only as a client of another service.
Awaits(j) ==
    j \in Monitored /\ Kind[j] \in {"simple_ss", "simple_pm", "gnomess", "gnomesm"}

\* A helper process, forked by main(), works for the interface.
Helped(j) == Kind[j] = "kernel" \/ (Kind[j] \in FdKinds /\ j \in Monitored)

\* doInhibit leaves a lock with another program, which doUnInhibit gives back.
HoldsOutside(j) ==
    \/ Awaits(j) \/ Kind[j] \in NameKinds
    \/ Kind[j] \in {"cinnamon", "login1"} /\ j \in Monitored

\* Types in which applications reach the interface; none for the pure sinks.
NativeTypes(i) ==
    CASE Kind[i] \in {"sink", "usercmd"} -> {}
      [] Kind[i] \in {"gnomesm", "login1"} -> InhibitType
      [] Kind[i] = "sxmo" -> {{SUSPEND}}
      [] OTHER -> {Supported(i)}

\* mkId for an application's inhibit.  A counter-based interface numbers it;
\* wake locks, tokens and SimulateUserActivity (cookie 0) go by name, so the
\* same id comes again while it is still active.  So it does for a lock of
\* logind's, known by the number of a descriptor that is closed at once.  (That
\* a name of ours or a number of the helper's may be taken for an application's
\* is in LockWatcher and SystemdInhibit.)
NativeIds(i, n) ==
    LET app(name, cookie) == [inst |-> i, own |-> "app", name |-> name, cookie |-> cookie]
        fresh == lastCookie[i] + 1
    IN  CASE Kind[i] \in NameKinds \cup {"cinnamon"} -> {app(n, 0)}
          [] Kind[i] = "gnomess" -> {app(n, 0), app(n, fresh)}
          [] Kind[i] \in FdKinds /\ i \in Monitored ->
                {app(NoName, c) : c \in 1..fresh}
          [] OTHER -> {app(n, fresh)}

\* Mutant: the counter is read before it is moved on.
MutantForwardIds(j, n) ==
    {[inst |-> j, own |-> "us", name |-> NoName, cookie |-> lastCookie[j]]}

\* Descriptors that stand for no lock in the helper.
FreeFds(j) ==
    {c \in 1..(lastCookie[j] + 1) :
        [inst |-> j, own |-> "us", name |-> NoName, cookie |-> c] \notin held}

Lowest(s) == {m \in s : \A l \in s : m <= l}

\* mkId for an inhibit that we place on interface j on behalf of n.  The helper
\* of logind's interface answers with its lowest free descriptor, or with none
\* (cookie 0) when logind refuses or the helper dies before it answers.
ForwardIds(j, n) ==
    LET us(name, cookie) == [inst |-> j, own |-> "us", name |-> name, cookie |-> cookie]
    IN  CASE Kind[j] \in NameKinds -> {us(n, 0)}
          [] Kind[j] \in EmptyKinds -> {[us(NoName, 0) EXCEPT !.own = "none"]}
          [] Kind[j] \in FdKinds /\ j \in Monitored ->
                {us(NoName, c) : c \in {0} \cup Lowest(FreeFds(j))}
          [] OTHER -> {us(NoName, lastCookie[j] + 1)}

\* Another program has a lock for the id.
Locks(id) == HoldsOutside(id.inst) /\ (Kind[id.inst] \in FdKinds => id.cookie # 0)

\* The counter after an id was made.
CookieAfter(id) ==
    [lastCookie EXCEPT ![id.inst] = IF id.cookie > @ THEN id.cookie ELSE @]

\* InhibitInterface::inhibited
InhibitedBy(act, j) ==
    {b \in Bits : \E id \in DOMAIN act : id.inst = j /\ b \in act[id]}

\* inhibited() of main.cpp
InhibitedByAny(act) == {b \in Bits : \E id \in DOMAIN act : b \in act[id]}

\* callEvent: tell the interface when its own state is not the last one told.
CallEvent(act, j) == [lastState EXCEPT ![j] = InhibitedBy(act, j)]

\* An exception that unInhibitCB or inhibitCB does not catch leaves the handler.
\* The event loop of a D-Bus interface catches it; the coroutines of the wake
\* lock and sxmo interfaces end, and main() then resumes one that is no more.
Thrown == [Idle EXCEPT !.op = IF Kind[job.org] \in NameKinds THEN "undefined" ELSE "idle"]

----------------------------------------------------------------------------
(* registerInhibit and inhibitCB                                           *)

RegisterInhibit(i, n) ==
    /\ job.op = "idle"
    /\ \A j \in Ifaces : lastCookie[j] < MaxCookie
    /\ \E t \in NativeTypes(i), id \in NativeIds(i, n) :
        /\ active' = MapInsert(active, id, t)
        /\ asked' = MapUnite(asked, id, t)
        /\ lastCookie' = CookieAfter(id)
        /\ job' = [op |-> "inhibit", org |-> i, id |-> id, type |-> t,
                   name |-> n, k |-> 1, pend |-> NoId]
    /\ UNCHANGED <<plan, lastState, announced, held, aborted, orphans, helperVars>>

\* The next interface of the loop, and whether a request is made to it.
Forwarding == job.op = "inhibit" /\ job.k <= Len(Order)
Target == Order[job.k]

\* Mutant: the comparison of instance ids is missing.
MutantWanted == Accepts(Target, job.type)

Wanted == Target # job.org /\ Accepts(Target, job.type)

\* Mutant: the exception of an unsupported type ends the loop.
MutantForwardSkip ==
    /\ Forwarding /\ ~Wanted
    /\ job' = [job EXCEPT !.k = Len(Order) + 1]
    /\ UNCHANGED <<active, plan, lastState, announced, lastCookie, held, asked,
                   aborted, orphans, helperVars>>

\* The originator is passed over; an unsupported type is caught per interface.
ForwardSkip ==
    /\ Forwarding /\ ~Wanted
    /\ job' = [job EXCEPT !.k = @ + 1]
    /\ UNCHANGED <<active, plan, lastState, announced, lastCookie, held, asked,
                   aborted, orphans, helperVars>>

\* doInhibit returns.
ForwardCall ==
    /\ Forwarding /\ Wanted /\ Target \notin dead
    /\ \E id \in ForwardIds(Target, job.name) :
        /\ job' = [job EXCEPT !.op = "called", !.pend = id]
        /\ lastCookie' = CookieAfter(id)
        /\ held' = IF Locks(id) THEN held \cup {id} ELSE held
    /\ UNCHANGED <<active, plan, lastState, announced, asked, aborted, orphans,
                   helperVars>>

\* inhibit() records what doInhibit returned and calls the event handlers.
ForwardActivate ==
    /\ job.op = "called"
    /\ active' = MapInsert(active, job.pend, Granted(Target, job.type))
    /\ lastState' = CallEvent(active', Target)
    /\ job' = [job EXCEPT !.op = "activated"]
    /\ UNCHANGED <<plan, announced, lastCookie, held, asked, aborted, orphans,
                   helperVars>>

\* Mutant: the id is reset before it is appended.
MutantForwardPlan ==
    /\ job.op = "activated"
    /\ plan' = MapPush(plan, job.id, NoId)
    /\ job' = [job EXCEPT !.op = "inhibit", !.k = @ + 1, !.pend = NoId]
    /\ UNCHANGED <<active, lastState, announced, lastCookie, held, asked,
                   aborted, orphans, helperVars>>

\* inhibitCB appends it to the release plan and goes on.
ForwardPlan ==
    /\ job.op = "activated"
    /\ plan' = MapPush(plan, job.id, job.pend)
    /\ job' = [job EXCEPT !.op = "inhibit", !.k = @ + 1, !.pend = NoId]
    /\ UNCHANGED <<active, lastState, announced, lastCookie, held, asked,
                   aborted, orphans, helperVars>>

\* The service does not answer within 500 ms: InhibitNoResponseException
\* leaves the loop.  The service may still take the lock afterwards.
ForwardNoReply ==
    /\ Forwarding /\ Wanted /\ Awaits(Target)
    /\ job' = [job EXCEPT !.k = Len(Order) + 1]
    /\ aborted' = aborted \cup {job.id}
    /\ \/ UNCHANGED <<lastCookie, held, orphans>>
       \/ \E id \in ForwardIds(Target, job.name) :
            /\ lastCookie' = CookieAfter(id)
            /\ held' = held \cup {id}
            /\ orphans' = orphans \cup {id}
    /\ UNCHANGED <<active, plan, lastState, announced, asked, helperVars>>

\* Any other D-Bus error, a write to a dead helper's pipe (Fork::tx), or a fifo
\* that cannot be made (newLockRef) leaves inhibitCB and registerInhibit.
ForwardThrow ==
    /\ Forwarding /\ Wanted
    /\ \/ Awaits(Target) \/ Target \in dead
       \/ Kind[Target] \in FdKinds /\ Target \notin Monitored
    /\ job' = Thrown
    /\ aborted' = aborted \cup {job.id}
    /\ UNCHANGED <<active, plan, lastState, announced, lastCookie, held, asked,
                   orphans, helperVars>>

\* printInhibited, then callEvent of the interface the inhibit came from.
FinishInhibit ==
    /\ job.op = "inhibit" /\ job.k > Len(Order)
    /\ announced' = InhibitedByAny(active)
    /\ lastState' = CallEvent(active, job.org)
    /\ job' = Idle
    /\ UNCHANGED <<active, plan, lastCookie, held, asked, aborted, orphans,
                   helperVars>>

----------------------------------------------------------------------------
(* registerUnInhibit and unInhibitCB                                       *)

\* Mutant: the loop over the plan starts at its second entry.
MutantRegisterUnInhibit(id) ==
    /\ job.op = "idle"
    /\ id \in DOMAIN active
    /\ id.own = "app"
    /\ active' = MapErase(active, id)
    /\ asked' = MapErase(asked, id)
    /\ held' = held
    /\ job' = [Idle EXCEPT !.op = "uninhibit", !.org = id.inst, !.id = id,
                           !.type = active[id], !.k = 2]
    /\ UNCHANGED <<plan, lastState, announced, lastCookie, aborted, orphans,
                   helperVars>>

\* An application releases its inhibit, or dies.  Two interfaces also do this
\* to ids of ours: sxmo when our token is gone from the list, cinnamon when
\* any inhibit is five minutes old.
RegisterUnInhibit(id) ==
    /\ job.op = "idle"
    /\ id \in DOMAIN active
    /\ id.own = "app" \/ (id.own = "us" /\ Kind[id.inst] \in {"sxmo", "cinnamon"})
    /\ active' = MapErase(active, id)
    /\ asked' = MapErase(asked, id)
    /\ held' = IF Kind[id.inst] = "sxmo" THEN held \ {id} ELSE held
    /\ job' = [Idle EXCEPT !.op = "uninhibit", !.org = id.inst, !.id = id,
                           !.type = active[id], !.k = 1]
    /\ UNCHANGED <<plan, lastState, announced, lastCookie, aborted, orphans,
                   helperVars>>

\* The loop of unInhibitCB is at an entry of the plan.
Releasing == job.op = "uninhibit" /\ job.id \in DOMAIN plan /\ job.k <= Len(plan[job.id])

\* doUnInhibit throws: it tells a helper that is dead.
Fails(id) == id \in DOMAIN active /\ id.inst \in dead

\* InhibitInterface::unInhibit of these ids.
Withdraw(gone) ==
    /\ active' = [id \in DOMAIN active \ gone |-> active[id]]
    /\ held' = held \ gone
    /\ lastState' = [j \in Ifaces |->
            IF \E id \in gone : id.inst = j THEN InhibitedBy(active', j)
            ELSE lastState[j]]

\* Mutant: an entry that is no longer active is tried again for ever.
MutantReleaseStep ==
    /\ Releasing
    /\ ~Fails(plan[job.id][job.k])
    /\ Withdraw({plan[job.id][job.k]} \cap DOMAIN active)
    /\ UNCHANGED <<plan, announced, lastCookie, job, asked, aborted, orphans,
                   helperVars>>

\* InhibitInterface::unInhibit on the next entry of the plan, if it is active.
ReleaseStep ==
    /\ Releasing
    /\ ~Fails(plan[job.id][job.k])
    /\ Withdraw({plan[job.id][job.k]} \cap DOMAIN active)
    /\ job' = [job EXCEPT !.k = @ + 1]
    /\ UNCHANGED <<plan, announced, lastCookie, asked, aborted, orphans,
                   helperVars>>

\* Mutant: unInhibitCB goes on after the exception.
MutantReleaseThrow ==
    /\ Releasing
    /\ Fails(plan[job.id][job.k])
    /\ job' = [job EXCEPT !.k = @ + 1]
    /\ cut' = cut \cup {job.id}
    /\ UNCHANGED <<active, plan, lastState, announced, lastCookie, held, dead,
                   asked, aborted, orphans>>

\* Neither unInhibitCB nor registerUnInhibit catches what Fork::tx throws: the
\* entry stays active, all later ones too, and the plan is not erased.
ReleaseThrow ==
    /\ Releasing
    /\ Fails(plan[job.id][job.k])
    /\ job' = Thrown
    /\ cut' = cut \cup {job.id}
    /\ UNCHANGED <<active, plan, lastState, announced, lastCookie, held, dead,
                   asked, aborted, orphans>>

\* releasePlan.erase, printInhibited, callEvent.
FinishUnInhibit ==
    /\ job.op = "uninhibit" /\ ~Releasing
    /\ plan' = MapErase(plan, job.id)
    /\ announced' = InhibitedByAny(active)
    /\ lastState' = CallEvent(active, job.org)
    /\ aborted' = aborted \ {job.id}
    /\ job' = Idle
    /\ UNCHANGED <<active, lastCookie, held, asked, orphans, helperVars>>

----------------------------------------------------------------------------
(* The helpers, and the end: handleSig and handleExit                      *)

\* The helper of logind's interface ends when logind is slow once, and either by
\* a signal (SIGINT of a terminal reaches it too).  With it go the descriptors
\* that are locks of logind; wake locks stay in the kernel.
HelperDies(j) ==
    /\ job.op \notin Ended
    /\ Helped(j) /\ j \notin dead
    /\ dead' = dead \cup {j}
    /\ held' = {id \in held : id.inst = j => Kind[j] \notin FdKinds}
    /\ UNCHANGED <<active, plan, lastState, announced, lastCookie, job, asked,
                   aborted, cut, orphans>>

\* Mutant: only the first entry of each plan is released.
MutantPlanned(p) == {p[key][1] : key \in DOMAIN p}

\* What the release plan p would undo.
Planned(p) == UNION {{p[key][n] : n \in 1..Len(p[key])} : key \in DOMAIN p}

\* Every planned release, whatever the main thread was in the middle of.
Sigint ==
    /\ job.op \notin Ended
    /\ \A id \in Planned(plan) : ~Fails(id)
    /\ Withdraw(DOMAIN active \cap Planned(plan))
    /\ plan' = EmptyMap
    /\ job' = [job EXCEPT !.op = "exited"]
    /\ UNCHANGED <<announced, lastCookie, asked, aborted, orphans, helperVars>>

\* What handleExit has undone when entry n of the plan of key throws: all of
\* the plans of keys, which come before key in the map, and the entries before n.
UndoneBefore(keys, key, n) ==
    DOMAIN active \cap
        (Planned([k \in keys |-> plan[k]]) \cup {plan[key][m] : m \in 1..(n - 1)})

\* A release throws in handleExit: std::terminate calls handleExit once more,
\* which gets as far as before.
SigintThrow ==
    /\ job.op \notin Ended
    /\ \E key \in DOMAIN plan : \E keys \in SUBSET (DOMAIN plan \ {key}), n \in 1..Len(plan[key]) :
        /\ Fails(plan[key][n])
        /\ \A id \in UndoneBefore(keys, key, n) : ~Fails(id)
        /\ Withdraw(UndoneBefore(keys, key, n))
    /\ job' = [job EXCEPT !.op = "terminated"]
    /\ UNCHANGED <<plan, announced, lastCookie, asked, aborted, orphans,
                   helperVars>>

----------------------------------------------------------------------------
Init ==
    /\ active = EmptyMap
    /\ plan = EmptyMap
    /\ lastState = [j \in Ifaces |-> {}]
    /\ announced = {}
    /\ lastCookie = [j \in Ifaces |-> 0]
    /\ held = {}
    /\ dead = {}
    /\ job = Idle
    /\ asked = EmptyMap
    /\ aborted = {}
    /\ cut = {}
    /\ orphans = {}

\* The steps of a handler once it has begun.
Proceed ==
    \/ ForwardSkip \/ ForwardCall \/ ForwardActivate \/ ForwardPlan
    \/ ForwardNoReply \/ ForwardThrow \/ FinishInhibit
    \/ ReleaseStep \/ ReleaseThrow \/ FinishUnInhibit

Next ==
    \/ \E i \in Ifaces, n \in Apps : RegisterInhibit(i, n)
    \/ \E id \in DOMAIN active : RegisterUnInhibit(id)
    \/ Proceed
    \/ \E j \in Ifaces : HelperDies(j)
    \/ Sigint
    \/ SigintThrow

\* Fairness of the handlers is in EventSpec of HubEvents.
Spec == Init /\ [][Next]_vars

----------------------------------------------------------------------------
(* Properties                                                              *)

\* The types of the variables: maps keyed by ids, a plan of sequences of ids.
TypeOK ==
    /\ DOMAIN active \subseteq Id /\ \A id \in DOMAIN active : active[id] \in InhibitType
    /\ DOMAIN plan \subseteq Id /\ \A key \in DOMAIN plan : plan[key] \in Seq(Id)
    /\ lastState \in [Ifaces -> InhibitType]
    /\ announced \in InhibitType
    /\ lastCookie \in [Ifaces -> Nat]
    /\ held \subseteq Id
    /\ dead \subseteq Ifaces
    /\ job \in Job
    /\ DOMAIN asked \subseteq Id /\ \A id \in DOMAIN asked : asked[id] \in InhibitType
    /\ aborted \subseteq Id /\ cut \subseteq Id
    /\ orphans \subseteq Id

\* Interfaces that number what we forward to them and leave it to us to end.
Tracked(j) ==
    Kind[j] \in {"simple_ss", "simple_pm", "gnomess", "gnomesm", "usercmd"}

\* The unInhibitCB of key has passed entry n of its plan.
Undone(key, n) == job.op = "uninhibit" /\ job.id = key /\ n < job.k

\* unInhibitCB is the only way a forwarded inhibit ends: whatever releasePlan
\* lists for an application's inhibit is active exactly until the release of
\* that inhibit, and of no other, comes to it (on interfaces that number their
\* ids).  No plan outlives its cause, but for a release cut short by an
\* exception, and then by an entry that stays active because its helper is dead.
ForwardTracksCause ==
    job.op # "terminated" => \A key \in DOMAIN plan :
        /\ key \in DOMAIN active \/ key \in cut \/ (job.op = "uninhibit" /\ job.id = key)
        /\ key \in cut => \E n \in 1..Len(plan[key]) : Fails(plan[key][n])
        /\ key \notin cut =>
             \A n \in 1..Len(plan[key]) :
                Tracked(plan[key][n].inst) =>
                    (plan[key][n] \in DOMAIN active <=> ~Undone(key, n))

\* Nothing that inhibit() activated is lost to releasePlan, on interfaces that
\* number their ids and on those that share them: a forwarded inhibit is in some
\* plan, or is the one inhibitCB is about to append (or was about to when the
\* process ended).
NoStrayForward ==
    \A id \in DOMAIN active :
        id.own # "app" =>
            \/ id \in Planned(plan)
            \/ job.op \in {"activated", "exited", "terminated"} /\ job.pend = id

\* On interfaces that number their ids no two entries of releasePlan are the
\* same inhibit: what unInhibitCB undoes there for one application is never what
\* another one counts on.  (Elsewhere ids are shared, and it is.)
PlanDisjoint ==
    \A k1, k2 \in DOMAIN plan :
        \A m \in 1..Len(plan[k1]), n \in 1..Len(plan[k2]) :
            plan[k1][m] = plan[k2][n] /\ Tracked(plan[k1][m].inst) =>
                k1 = k2 /\ m = n

\* Some application asks for type b.
Asked(b) == \E key \in DOMAIN asked : b \in asked[key]

\* id was forwarded for an inhibit whose release an exception cut short.
LeftBehind(id) ==
    \E key \in cut \cap DOMAIN plan : \E n \in 1..Len(plan[key]) : plan[key][n] = id

\* The types an interface acts on: a lock program only cares for one of them.
Reported(j) == IF Kind[j] = "sink" THEN {SCREENSAVER} ELSE Supported(j)

\* No forward and no release failed.
Smooth == aborted = {} /\ cut = {}

\* README.md: "all interfaces effectively share the same state".  Between two
\* handlers, and as long as none failed, an interface reports a type it supports
\* exactly when some application has asked for it.
SharedState ==
    job.op = "idle" /\ Smooth =>
        \A j \in Ifaces, b \in Bits :
            b \in Reported(j) => (b \in InhibitedBy(active, j) <=> Asked(b))

\* The same of the interfaces that number their ids, whatever ids are shared by
\* others in the list: no forward, release, expiry or id that comes again on
\* those puts one of these out of step with what applications ask for.
NumberedShared ==
    job.op = "idle" /\ Smooth =>
        \A j \in Ifaces, b \in Bits :
            Tracked(j) /\ b \in Supported(j) => (b \in InhibitedBy(active, j) <=> Asked(b))

\* Even when forwards fail an interface never holds, between two handlers, an
\* inhibit of a type that no application asks for any more.  Only a release that
\* a dead helper cut short leaves such inhibits, all of them in its plan.
NothingOutlivesCause ==
    job.op = "idle" =>
        \A id \in DOMAIN active : LeftBehind(id) \/ \A b \in active[id] : Asked(b)

\* unInhibitCB never takes a type away from an interface that numbers its ids
\* while some application still asks for it, wherever that one asked, as long as
\* no forward and no release failed.
NoEarlyRelease ==
    [][job'.op = "uninhibit" /\ Smooth =>
        \A j \in Ifaces : Tracked(j) =>
            \A b \in InhibitedBy(active, j) \ InhibitedBy(active', j) : ~Asked(b)']_vars

\* README.md: "forwarding all inhibit events to all interfaces".  Between two
\* handlers an application's inhibit is planned on every interface that takes
\* its type, unless its forwarding was cut short: a service that does not
\* answer, or answers with an error, and a dead helper end it for all later
\* interfaces.
ForwardedUnlessAborted ==
    job.op = "idle" =>
        \A key \in DOMAIN asked \ aborted, j \in Ifaces :
            j # key.inst /\ Accepts(j, asked[key]) =>
                key \in DOMAIN plan /\ \E n \in 1..Len(plan[key]) : plan[key][n].inst = j

\* handleExit gives back every lock that other programs hold for us and turns
\* the lock programs on again, but for the one forward SIGINT fell into and for
\* locks a service took after we stopped waiting.  (The threads that simulate
\* activity for cinnamon end with the process.  A release that throws in
\* handleExit ends the process otherwise.)
ExitClean ==
    job.op = "exited" =>
        /\ \A id \in held : id \in orphans \/ id = job.pend \/ Kind[id.inst] = "cinnamon"
        /\ \A j \in Ifaces : Kind[j] \in {"sink", "usercmd"} =>
                lastState[j] = {} \/ job.pend.inst = j

\* The same README sentence seen from outside: between two handlers a lock that
\* another program holds for us is an active inhibit, and of no type but what
\* applications ask for at that moment.  The exceptions: a lock taken after we
\* stopped waiting, the thread that goes on for cinnamon after the five minutes,
\* and what a release cut short by a dead helper left behind.
OutsideShared ==
    job.op = "idle" =>
        \A id \in held \ orphans : Kind[id.inst] # "cinnamon" =>
            /\ id \in DOMAIN active
            /\ LeftBehind(id) \/ \A b \in active[id] : Asked(b)

\* Whatever is held outside is known to releasePlan, or is the forward in
\* progress, or was taken after we stopped waiting, or is such a thread.
HeldIsPlanned ==
    \A id \in held :
        \/ id \in Planned(plan) \/ id \in orphans \/ id = job.pend
        \/ Kind[id.inst] = "cinnamon"

----------------------------------------------------------------------------
(* Handlers end, unless a call they make does not return.                  *)

\* The inhibit that the next step of unInhibitCB withdraws, if any.
Released == IF Releasing THEN {plan[job.id][job.k]} \cap DOMAIN active ELSE {}

\* The main thread is in a call without a time limit: it reads the answer of
\* logind's helper, or runs a command with system() (sxmo's in doInhibit and
\* doUnInhibit, the lock programs' and the user's when they are told).
Waiting ==
    \/ /\ Forwarding /\ Wanted /\ Target \notin dead
       /\ Kind[Target] = "sxmo" \/ (Kind[Target] \in FdKinds /\ Target \in Monitored)
    \/ job.op = "called" /\ Kind[Target] \in {"sink", "usercmd"}
    \/ \E id \in Released : Kind[id.inst] \in {"sink", "usercmd", "sxmo"}

\* A handler that was entered ends: no time-out, error, plan or helper's death
\* keeps the main thread from its event loop; only a call that never returns.
HandlerEnds ==
    job.op \in {"inhibit", "uninhibit"} ~> (job.op \in Ended \cup {"idle"} \/ []Waiting)

=============================================================================
