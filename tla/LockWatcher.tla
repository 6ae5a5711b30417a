---------------------------- MODULE LockWatcher -----------------------------
(***************************************************************************)
(* The two interfaces whose inhibits are names in a file: wake locks in    *)
(* /sys/power/wake_lock (LinuxKernelInhibitInterface) and tokens of        *)
(* sxmo_mutex.sh (SxmoInhibitInterface).  A watcher thread compares the    *)
(* file with activeInhibits and queues what it finds; the main thread      *)
(* drains the queues, and takes and frees names for the hub.  ourInhibits  *)
(* is to tell the hub's names from those of applications.                  *)
(*                                                                         *)
(* An id is the name, so the maps are sets of names.  The kernel's watcher *)
(* polls, and a helper process writes the file (see ForkPipe); sxmo's      *)
(* waits for inotify, and the main thread runs the script itself.  The     *)
(* watcher reads the maps without a lock while main changes them: what a   *)
(* traversal sees is then arbitrary.                                       *)
(***************************************************************************)
EXTENDS InhibitTypes, SequencesExt

CONSTANTS
    Names,      \* lock names and tokens
    Kinds,      \* which of the two interfaces to look at
    MaxTakes,   \* name -> bound on the times applications take it
    MaxAsks,    \* name -> bound on the hub's requests for it
    MaxQueue,   \* bound on either queue of the watcher
    MaxEvents   \* bound on the inotify events that wait

VARIABLES
    kind, canSend,  \* which interface; the helper may write the file
    listed,         \* names in the file
    apps,           \* names an application holds
    takes, asks,    \* history: how often a name was taken, asked for
    want,           \* requests of the hub that it has not given back
    pipe,           \* lines on their way to the helper, oldest first
    active,         \* activeInhibits
    ours,           \* ourInhibits
    forwarded,      \* names whose registration the hub has forwarded
    regQ, unregQ,   \* registerQueue, unregisterQueue
    main,           \* what the main thread is doing, and with which name
    watcher,        \* the watcher: where it is, names to go through, the
                    \* list it read, and the name it is about to queue
    racing,         \* names that came or went since the watcher's traversal began
    events,         \* inotify events not yet read
    watched         \* the watch is on the file that is there now

fileVars == <<listed, events, watched>>
worldVars == <<apps, takes, asks>>
mapVars == <<active, ours, forwarded, racing>>
queueVars == <<regQ, unregQ>>
config == <<kind, canSend>>
vars == <<kind, canSend, listed, apps, takes, asks, want, pipe, active, ours,
          forwarded, regQ, unregQ, main, watcher, racing, events, watched>>

KERNEL == "kernel"
SXMO == "sxmo"

NoName == ""

ASSUME NamesAssumption == Names \subseteq STRING /\ NoName \notin Names
ASSUME KindsAssumption == Kinds \subseteq {KERNEL, SXMO}
ASSUME BoundsAssumption ==
    /\ MaxTakes \in [Names -> Nat] /\ MaxAsks \in [Names -> Nat]
    /\ MaxQueue \in Nat /\ MaxEvents \in Nat

Ops == {"idle", "taking", "taken", "freeing", "freed", "draining", "exited", "hung"}
Places == {"asleep", "listing", "new", "looking", "queueing", "old", "unqueueing"}
Traversals == {"looking", "old", "unqueueing"}
Event == {"modify", "delete_self", "ignored", "create"}
Line == [what : {"lock", "unlock"}, name : Names]

Do(op, n) == main' = [op |-> op, name |-> n]
Running == main.op \notin {"exited", "hung"}

\* registerMutex is held by the main thread from one of its steps to the next.
Locked == main.op = "draining" \/ (kind = KERNEL /\ main.op \in {"taking", "freeing"})
            \/ main.op = "hung"

----------------------------------------------------------------------------
(* The file, and the applications that take and free names                 *)

\* Applied to the file by anybody.  Sxmo's script appends to its file or
\* replaces it; a replaced file takes the watch with it.  Equal events merge.
Write(names) ==
    /\ listed' = names
    /\ \/ kind = KERNEL /\ UNCHANGED <<events, watched>>
       \/ /\ kind = SXMO /\ Len(events) < MaxEvents
          /\ events' = IF ~watched \/ (events # <<>> /\ Last(events) = "modify")
                       THEN events ELSE Append(events, "modify")
          /\ UNCHANGED watched
       \/ /\ kind = SXMO /\ Len(events) < MaxEvents
          /\ events' = events \o (IF watched THEN <<"delete_self", "ignored">> ELSE <<>>)
                              \o <<"create">>
          /\ watched' = FALSE

AppTakes(n) ==
    /\ n \notin apps /\ takes[n] < MaxTakes[n]
    /\ apps' = apps \cup {n}
    /\ takes' = [takes EXCEPT ![n] = @ + 1]
    /\ Write(listed \cup {n})
    /\ UNCHANGED <<config, asks, want, pipe, mapVars, queueVars, main, watcher>>

\* Freed, or expired.
AppFrees(n) ==
    /\ n \in apps
    /\ apps' = apps \ {n}
    /\ Write(listed \ {n})
    /\ UNCHANGED <<config, takes, asks, want, pipe, mapVars, queueVars, main, watcher>>

\* LinuxKernelInhibitFork::handleMsg.  Without the right to write it does nothing.
HelperStep ==
    /\ pipe # <<>>
    /\ pipe' = Tail(pipe)
    /\ LET m == Head(pipe)
       IN  listed' = IF ~canSend THEN listed
                     ELSE IF m.what = "lock" THEN listed \cup {m.name} ELSE listed \ {m.name}
    /\ UNCHANGED <<config, worldVars, want, mapVars, queueVars, main, watcher, events, watched>>

\* The main thread changes activeInhibits by these names.
Change(names) ==
    /\ active' = (active \cup names) \ (active \cap names)
    /\ racing' = IF watcher.at \in Traversals THEN racing \cup names ELSE {}

----------------------------------------------------------------------------
(* The main thread: requests of the hub                                    *)

\* doInhibit up to the point where the watcher can see something of it: the
\* kernel's locks the mutex and notes the name, sxmo's runs the script.
TakeBegin(n) ==
    /\ main.op = "idle" /\ asks[n] < MaxAsks[n]
    /\ asks' = [asks EXCEPT ![n] = @ + 1]
    /\ Do("taking", n)
    /\ \/ kind = KERNEL /\ ours' = ours \cup {n} /\ UNCHANGED fileVars
       \/ kind = SXMO /\ Write(listed \cup {n}) /\ UNCHANGED ours
    /\ UNCHANGED <<config, apps, takes, want, pipe, active, forwarded, racing, queueVars, watcher>>

\* The rest of it: the line to the helper; the name is noted.
TakeEnd ==
    /\ main.op = "taking" /\ Do("taken", main.name)
    /\ \/ /\ kind = KERNEL /\ pipe' = Append(pipe, [what |-> "lock", name |-> main.name])
          /\ UNCHANGED ours
       \/ kind = SXMO /\ ours' = ours \cup {main.name} /\ UNCHANGED pipe
    /\ UNCHANGED <<config, fileVars, worldVars, want, active, forwarded, racing, queueVars, watcher>>

\* InhibitInterface::inhibit adds the id; the hub notes it in its plan.
TakeActive ==
    /\ main.op = "taken" /\ Do("idle", NoName)
    /\ Change({main.name} \ active)
    /\ want' = [want EXCEPT ![main.name] = @ + 1]
    /\ UNCHANGED <<config, fileVars, worldVars, pipe, ours, forwarded, queueVars, watcher>>

\* Mutant: a plan that was worked off is not erased.
MutantDue(n) == n \in active

\* releasePlan has an entry for the name.
Due(n) == want[n] > 0

\* InhibitInterface::unInhibit goes no further with an id that is not active.
\* The kernel's doUnInhibit locks the mutex and sends the line, sxmo's drops the name.
FreeBegin(n) ==
    /\ main.op = "idle" /\ Due(n)
    /\ want' = [want EXCEPT ![n] = @ - 1]
    /\ IF n \notin active THEN UNCHANGED <<main, ours, pipe>>
       ELSE /\ Do("freeing", n)
            /\ \/ /\ kind = KERNEL /\ pipe' = Append(pipe, [what |-> "unlock", name |-> n])
                  /\ UNCHANGED ours
               \/ kind = SXMO /\ ours' = ours \ {n} /\ UNCHANGED pipe
    /\ UNCHANGED <<config, fileVars, worldVars, active, forwarded, racing, queueVars, watcher>>

\* The rest of doUnInhibit: the name is dropped; the script frees it.
FreeEnd ==
    /\ main.op = "freeing" /\ Do("freed", main.name)
    /\ \/ kind = KERNEL /\ ours' = ours \ {main.name} /\ UNCHANGED fileVars
       \/ kind = SXMO /\ Write(listed \ {main.name}) /\ UNCHANGED ours
    /\ UNCHANGED <<config, worldVars, want, pipe, active, forwarded, racing, queueVars, watcher>>

FreeActive ==
    /\ main.op = "freed" /\ Do("idle", NoName)
    /\ Change({main.name} \cap active)
    /\ UNCHANGED <<config, fileVars, worldVars, want, pipe, ours, forwarded, queueVars, watcher>>

----------------------------------------------------------------------------
(* The main thread: start()                                                *)

\* Mutant: the queues are cleared before they are gone through.
MutantDrainEnd ==
    /\ main.op = "draining"
    /\ regQ' = <<>> /\ unregQ' = <<>>
    /\ Do("idle", NoName)
    /\ UNCHANGED <<config, fileVars, worldVars, want, pipe, mapVars, watcher>>

DrainEnd ==
    /\ main.op = "draining" /\ regQ = <<>> /\ unregQ = <<>>
    /\ Do("idle", NoName)
    /\ UNCHANGED <<config, fileVars, worldVars, want, pipe, mapVars, queueVars, watcher>>

DrainBegin ==
    /\ main.op = "idle" /\ (regQ # <<>> \/ unregQ # <<>>)
    /\ ~(kind = SXMO /\ watcher.at = "looking")
    /\ Do("draining", NoName)
    /\ UNCHANGED <<config, fileVars, worldVars, want, pipe, mapVars, queueVars, watcher>>

\* registerInhibit: the hub forwards the name even when it is active already.
DrainRegister ==
    /\ main.op = "draining" /\ regQ # <<>>
    /\ LET n == Head(regQ)
       IN  /\ Change({n} \ active)
           /\ forwarded' = forwarded \cup {n}
    /\ regQ' = Tail(regQ)
    /\ UNCHANGED <<config, fileVars, worldVars, want, pipe, ours, unregQ, main, watcher>>

\* Mutant: the release is not passed on to the hub.
MutantWithdrawn(n) == forwarded

\* What the hub still forwards when n, which was active, has been unregistered.
Withdrawn(n) == forwarded \ {n}

\* registerUnInhibit, after all registrations
DrainUnregister ==
    /\ main.op = "draining" /\ regQ = <<>> /\ unregQ # <<>>
    /\ LET n == Head(unregQ)
       IN  IF n \in active
           THEN Change({n}) /\ forwarded' = Withdrawn(n)
           ELSE UNCHANGED <<active, forwarded, racing>>
    /\ unregQ' = Tail(unregQ)
    /\ UNCHANGED <<config, fileVars, worldVars, want, pipe, ours, regQ, main, watcher>>

\* What handleExit finds to give back here.
Planned == {n \in active : want[n] > 0}

\* SIGINT: handleExit runs on top of whatever the main thread was doing.  The
\* kernel's doUnInhibit locks a mutex that this very thread may hold.
Sigint ==
    /\ Running
    /\ IF Locked /\ kind = KERNEL /\ Planned # {}
       THEN Do("hung", main.name) /\ UNCHANGED <<want, pipe, mapVars, fileVars>>
       ELSE /\ Do("exited", main.name)
            /\ want' = [n \in Names |-> 0]
            /\ Change(Planned) /\ ours' = ours \ Planned
            /\ \/ /\ kind = KERNEL
                  /\ pipe' = pipe \o SetToSeq([what : {"unlock"}, name : Planned])
                  /\ UNCHANGED fileVars
               \/ kind = SXMO /\ Write(listed \ Planned) /\ UNCHANGED pipe
            /\ UNCHANGED forwarded
    /\ UNCHANGED <<config, worldVars, queueVars, watcher>>

----------------------------------------------------------------------------
(* watcherThread                                                           *)

Awake(place, todo, file, n) ==
    watcher' = [at |-> place, todo |-> todo, file |-> file, name |-> n]

\* The kernel's reads its file every half second.
ReadFile ==
    /\ Running
    /\ \/ kind = KERNEL /\ watcher.at = "asleep"
       \/ kind = SXMO /\ watcher.at = "listing"
    /\ Awake("new", listed, listed, NoName)
    /\ UNCHANGED <<config, fileVars, worldVars, want, pipe, mapVars, queueVars, main>>

\* Events after which the watch is made anew.
Rewatches == {"ignored", "delete_self", "create"}

\* Sxmo's reads all events that wait and looks at the first of them.  Removing
\* a watch that is in place brings an event of its own.
ReadEvents ==
    /\ Running /\ kind = SXMO /\ watcher.at = "asleep" /\ events # <<>>
    /\ IF Head(events) \in Rewatches
       THEN watched' = TRUE /\ events' = IF watched THEN <<"ignored">> ELSE <<>>
       ELSE events' = <<>> /\ UNCHANGED watched
    /\ Awake("listing", {}, watcher.file, NoName)
    /\ UNCHANGED <<config, listed, worldVars, want, pipe, mapVars, queueVars, main>>

\* Mutant: strcmp is taken for a test of difference.
MutantSeen(n) == {active \ {n} # {}}

\* What a traversal of activeInhibits in search of n may find: one that is
\* disturbed may pass by any name, or come upon one that has just gone.
Seen(n) == {n \in active} \cup {found \in BOOLEAN : racing # {} /\ (found => n \in racing)}

\* The watcher goes through activeInhibits in search of the next name.  Sxmo's
\* holds registerMutex meanwhile.
LookFor(n) ==
    /\ Running /\ watcher.at = "new" /\ n \in watcher.todo
    /\ kind = SXMO => ~Locked
    /\ Awake("looking", watcher.todo \ {n}, watcher.file, n)
    /\ racing' = {}
    /\ UNCHANGED <<config, fileVars, worldVars, want, pipe, active, ours, forwarded, queueVars, main>>

\* Is it a new one?  Sxmo's watcher looks at the queue too.
LookFound ==
    /\ Running /\ watcher.at = "looking"
    /\ LET n == watcher.name
       IN  \E exists \in Seen(n) :
            IF kind = KERNEL
            THEN /\ Awake(IF exists THEN "new" ELSE "queueing", watcher.todo, watcher.file, n)
                 /\ UNCHANGED regQ
            ELSE /\ Awake("new", watcher.todo, watcher.file, NoName)
                 /\ Len(regQ) < MaxQueue
                 /\ regQ' = IF exists \/ n \in ToSet(regQ) \/ n \in ours THEN regQ
                            ELSE Append(regQ, n)
    /\ racing' = {}
    /\ UNCHANGED <<config, fileVars, worldVars, want, pipe, active, ours, forwarded, unregQ, main>>

\* Bound: the watcher waits while the queue is full.
Queue ==
    /\ Running /\ watcher.at = "queueing" /\ ~Locked /\ Len(regQ) < MaxQueue
    /\ regQ' = IF watcher.name \in ours THEN regQ ELSE Append(regQ, watcher.name)
    /\ Awake("new", watcher.todo, watcher.file, NoName)
    /\ UNCHANGED <<config, fileVars, worldVars, want, pipe, mapVars, unregQ, main>>

LookForOld ==
    /\ Running /\ watcher.at = "new" /\ watcher.todo = {}
    /\ Awake("old", active, watcher.file, NoName)
    /\ racing' = {}
    /\ UNCHANGED <<config, fileVars, worldVars, want, pipe, active, ours, forwarded, queueVars, main>>

\* Mutant: the kernel's watcher looks out for names of the hub as well.
MutantSpared(n) == FALSE

\* The kernel's watcher leaves the hub's names alone.
Spared(n) == kind = KERNEL /\ n \in ours

\* Is the active name gone from the file?  A traversal that is disturbed may
\* end early or go through the names that are there now.
LookGone(n) ==
    /\ Running /\ watcher.at = "old" /\ n \in watcher.todo
    /\ \E todo \in {watcher.todo \ {n}} \cup (IF racing # {} THEN {{}, active \ {n}} ELSE {}) :
        Awake(IF n \in watcher.file \/ Spared(n) THEN "old" ELSE "unqueueing",
              todo, watcher.file, n)
    /\ racing' = {}
    /\ UNCHANGED <<config, fileVars, worldVars, want, pipe, active, ours, forwarded, queueVars, main>>

Unqueue ==
    /\ Running /\ watcher.at = "unqueueing" /\ ~Locked /\ Len(unregQ) < MaxQueue
    /\ unregQ' = Append(unregQ, watcher.name)
    /\ Awake("old", watcher.todo, watcher.file, NoName)
    /\ UNCHANGED <<config, fileVars, worldVars, want, pipe, mapVars, regQ, main>>

LookDone ==
    /\ Running /\ watcher.at = "old" /\ watcher.todo = {}
    /\ Awake("asleep", {}, {}, NoName)
    /\ racing' = {}
    /\ UNCHANGED <<config, fileVars, worldVars, want, pipe, active, ours, forwarded, queueVars, main>>

----------------------------------------------------------------------------
\* The daemon may start with wake locks that applications took before.  (Sxmo's
\* watcher does not see such tokens until the file changes.)
Init ==
    /\ kind \in Kinds
    /\ canSend \in IF kind = KERNEL THEN BOOLEAN ELSE {TRUE}
    /\ apps \in SUBSET {n \in Names : kind = KERNEL /\ MaxTakes[n] > 0}
    /\ listed = apps
    /\ takes = [n \in Names |-> IF n \in apps THEN 1 ELSE 0]
    /\ asks = [n \in Names |-> 0] /\ want = [n \in Names |-> 0]
    /\ pipe = <<>>
    /\ active = {} /\ ours = {} /\ forwarded = {}
    /\ regQ = <<>> /\ unregQ = <<>>
    /\ main = [op |-> "idle", name |-> NoName]
    /\ watcher = [at |-> "asleep", todo |-> {}, file |-> {}, name |-> NoName]
    /\ racing = {}
    /\ events = <<>> /\ watched = TRUE

\* What the hub and the applications do of their own accord.
Environment ==
    \/ \E n \in Names : AppTakes(n) \/ AppFrees(n) \/ TakeBegin(n) \/ FreeBegin(n)
    \/ Sigint

Main ==
    \/ TakeEnd \/ TakeActive \/ FreeEnd \/ FreeActive
    \/ DrainBegin \/ DrainRegister \/ DrainUnregister \/ DrainEnd

Watcher ==
    \/ ReadFile \/ ReadEvents \/ Queue \/ LookForOld \/ LookFound \/ Unqueue \/ LookDone
    \/ \E n \in Names : LookFor(n) \/ LookGone(n)

Next == Environment \/ Main \/ Watcher \/ HelperStep

Spec == Init /\ [][Next]_vars

\* Two threads and a process that the system schedules; main() comes back to
\* start() again and again.  Nobody else owes anything.
FairSpec == Spec /\ WF_vars(Main) /\ WF_vars(Watcher) /\ WF_vars(HelperStep)

----------------------------------------------------------------------------
(* Properties                                                              *)

\* The types of the variables.
TypeOK ==
    /\ kind \in Kinds /\ canSend \in BOOLEAN
    /\ listed \subseteq Names /\ apps \subseteq Names
    /\ takes \in [Names -> Nat] /\ asks \in [Names -> Nat] /\ want \in [Names -> Nat]
    /\ pipe \in Seq(Line)
    /\ active \subseteq Names /\ ours \subseteq Names /\ forwarded \subseteq Names
    /\ regQ \in Seq(Names) /\ unregQ \in Seq(Names)
    /\ main \in [op : Ops, name : Names \cup {NoName}]
    /\ watcher \in [at : Places, todo : SUBSET Names, file : SUBSET Names,
                    name : Names \cup {NoName}]
    /\ racing \subseteq Names
    /\ events \in Seq(Event) /\ watched \in BOOLEAN

\* A wake lock that an application holds is forwarded to the other interfaces
\* in the end, unless it is freed first or the hub uses the same name.
AppSeen ==
    \A n \in Names :
        kind = KERNEL /\ n \in apps ~> n \in forwarded \/ n \notin apps \/ asks[n] > 0 \/ ~Running

\* What was forwarded for a wake lock is withdrawn in the end when the lock is
\* gone.  It may be one of the hub's own that the watcher mistook for an
\* application's, unless the hub used the name twice or an application did too.
AppWithdrawn ==
    \A n \in Names :
        kind = KERNEL /\ n \in forwarded ~>
            n \notin forwarded \/ n \in listed \/ ~Running
                \/ asks[n] > 1 \/ (asks[n] > 0 /\ takes[n] > 0)

\* The main thread is between two handlers, and all was written.
Settled == main.op \in {"idle", "exited"} /\ pipe = <<>>

\* A wake lock that the hub asked for once and gave back, or that handleExit
\* gave back, is not held, unless SIGINT came in the middle of taking it.
GivenBack ==
    \A n \in Names :
        Settled /\ kind = KERNEL /\ takes[n] = 0 /\ want[n] = 0 /\ asks[n] = 1 /\ main.name # n =>
            n \notin listed

\* Nothing is on its way from the file to the hub.
Quiet == main.op = "idle" /\ watcher.at = "asleep" /\ events = <<>> /\ regQ = <<>> /\ unregQ = <<>>

\* Once sxmo's watcher has nothing left to do and its watch is in place, a token
\* that an application took, and never took before, is registered.  (One that is
\* taken again may be seen as registered just before it is unregistered.)
TokensKnown ==
    kind = SXMO /\ Quiet /\ watched =>
        \A n \in apps : takes[n] = 1 /\ asks[n] = 0 => n \in active

\* include/InhibitInterface.hpp: "Do not register the inhibit, as this was a
\* user-requested action and they don't need to be called back about it".  A name
\* that is new to the hub's plans is not one that the hub itself has asked for.
OwnNotRegistered ==
    [][\A n \in forwarded' \ forwarded : n \in apps \/ n \notin ours]_vars

=============================================================================
