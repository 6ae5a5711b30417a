--------------------------- MODULE SystemdInhibit ---------------------------
(***************************************************************************)
(* org.freedesktop.login1: src/InhibitInterface/SystemdInhibitInterface.cpp *)
(* and the requests it makes of src/Fork/SystemdInhibitFork.cpp.           *)
(*                                                                         *)
(* A lock is a file descriptor its holder keeps open.  The interface takes *)
(* the number of a descriptor for the id of an inhibit: of one it closes   *)
(* at once (an application's lock), of one it keeps (a lock it makes for   *)
(* the hub while it serves the name), or of one that the helper process    *)
(* keeps (a lock it gets from logind while it monitors).  A thread per     *)
(* application's lock waits for its end and leaves it in releaseQueue,     *)
(* which poll() works off on the main thread.                              *)
(*                                                                         *)
(* The hub is seen by what it asks for here (placed) and by the failure of *)
(* its callbacks.  Logind and the applications are external.               *)
(***************************************************************************)
EXTENDS InhibitTypes, Integers, FiniteSets

CONSTANTS
    Locks,      \* locks that applications take, each once
    Delay,      \* those of mode "delay"
    Forwards,   \* requests of the hub
    FirstFd,    \* lowest descriptor number the daemon has free at the start
    HelperFd,   \* the same for the helper process
    HubThrows,  \* the hub forwards to services that may fail
    MaxPlaced   \* bound on the requests of the hub

VARIABLES
    monitor,    \* logind runs; decided when the interface is constructed
    lock,       \* what became of each application's lock
    inbox,      \* Inhibit calls (with their returns, when monitoring) to handle
    fds,        \* descriptors of the daemon, of those that come and go here
    helper,     \* descriptor of the helper -> request it holds a lock for
    active,     \* activeInhibits: id -> lock or request
    placed,     \* request in force -> id
    requests,   \* number of requests so far
    watch,      \* release threads
    queue,      \* releaseQueue
    clashed,    \* history: an id was given that was in use or in the queue
    spoiled,    \* history: locks whose thread lost the path it watches
    unwatched   \* history: locks that were registered and got no thread

hubVars == <<placed, requests>>
threadVars == <<watch, queue, spoiled>>
vars == <<monitor, lock, inbox, fds, helper, active, placed, requests, watch,
          queue, clashed, spoiled, unwatched>>

\* A call of our own helper, overheard; and what a path in reused memory may
\* name: something that is absent, or something that stays.
Echo == "echo"
Absent == "absent"
Lasting == "lasting"

ASSUME NamesAssumption ==
    /\ Locks \subseteq STRING /\ Forwards \subseteq STRING
    /\ Locks \cap Forwards = {}
    /\ {Echo, Absent, Lasting} \cap (Locks \cup Forwards) = {}
    /\ Delay \subseteq Locks
ASSUME FdAssumption == FirstFd \in Nat /\ HelperFd \in Nat
ASSUME SystemdBoundsAssumption == HubThrows \in BOOLEAN /\ MaxPlaced \in Nat

\* atol("-1"): the helper was denied the lock.
Denied == -1

Thread == [lock : Locks, id : Nat, path : Locks \cup {Absent, Lasting}]

Queued == {queue[n].id : n \in DOMAIN queue}

\* Is the id new?  (Requests that were denied share theirs.)
Clashes(id) == id # Denied /\ id \in DOMAIN active \cup Queued

\* A new descriptor has the lowest number the process has free; the n-th of
\* those that are opened together has the n-th.
Free(first, used, n) ==
    CHOOSE k \in first..first + Cardinality(used) + n :
        k \notin used /\ Cardinality((first..k) \ used) = n

----------------------------------------------------------------------------
(* Applications, and logind when it runs                                   *)

\* An application asks for a lock.  When logind runs it has granted it by the
\* time the monitor can act on the call.
Ask(l) ==
    /\ lock[l] = "new"
    /\ lock' = [lock EXCEPT ![l] = IF monitor THEN "held" ELSE "asked"]
    /\ inbox' = Append(inbox, l)
    /\ UNCHANGED <<monitor, fds, helper, active, hubVars, threadVars, clashed, unwatched>>

\* It closes the descriptor, or dies.
Drop(l) ==
    /\ lock[l] \in {"asked", "held"}
    /\ lock' = [lock EXCEPT ![l] = "dropped"]
    /\ UNCHANGED <<monitor, inbox, fds, helper, active, hubVars, threadVars, clashed,
                   unwatched>>

----------------------------------------------------------------------------
(* handleInhibitMsg                                                        *)

\* registerInhibit: insert() keeps what is there.
Register(id, l) ==
    /\ active' = MapInsert(active, id, l)
    /\ clashed' = (clashed \/ Clashes(id))

\* The thread comes after registerInhibit, which may throw.
Watch(id, l, thrown) ==
    /\ watch' = IF thrown THEN watch
                ELSE watch \cup {[lock |-> l, id |-> id, path |-> l]}
    /\ unwatched' = IF thrown THEN unwatched \cup {l} ELSE unwatched

\* newLockRef opens both ends of a fifo.  The write end, whose number is the
\* id, goes to the client and our own is closed; the read end stays open for
\* good.
ServeLock ==
    /\ ~monitor /\ inbox # <<>>
    /\ LET l == Head(inbox)
           r == Free(FirstFd, fds, 1)
           w == Free(FirstFd, fds, 2)
       IN  /\ lock' = [lock EXCEPT ![l] = IF @ = "asked" THEN "held" ELSE @]
           /\ fds' = fds \cup {r}
           /\ Register(w, l)
           /\ \E thrown \in {FALSE, HubThrows} : Watch(w, l, thrown)
    /\ inbox' = Tail(inbox)
    /\ UNCHANGED <<monitor, helper, hubVars, queue, spoiled>>

\* Mutant: the helper is not recognised.
MutantFromUs(m) == FALSE

\* msg->sender() == forkSender
FromUs(m) == m = Echo

\* An overheard lock is not registered when it is our own.
IgnoreEcho ==
    /\ monitor /\ inbox # <<>> /\ FromUs(Head(inbox))
    /\ inbox' = Tail(inbox)
    /\ UNCHANGED <<monitor, lock, fds, helper, active, hubVars, threadVars, clashed,
                   unwatched>>

\* The return that was overheard carries a descriptor, and so do those that
\* were read with it; getArgs makes another, whose number is the id.  It is
\* closed at the end, unless registerInhibit throws.
MonitorLock ==
    /\ monitor /\ inbox # <<>> /\ ~FromUs(Head(inbox))
    /\ LET l == Head(inbox)
       IN  \E read \in 1..Len(inbox), thrown \in {FALSE, HubThrows} :
            LET id == Free(FirstFd, fds, read + 1)
            IN  /\ Register(id, l)
                /\ Watch(id, l, thrown)
                /\ fds' = IF thrown THEN fds \cup {id} ELSE fds
    /\ inbox' = Tail(inbox)
    /\ UNCHANGED <<monitor, lock, helper, hubVars, queue, spoiled>>

----------------------------------------------------------------------------
(* The release threads                                                     *)

\* The path of releaseThread points into the stack frame of the handler that
\* started it, which has returned: whatever is written there later is what it
\* watches, the path of another lock or anything else.
StackReused(t) ==
    /\ monitor /\ t \in watch
    /\ \E p \in {Absent, Lasting} \cup {u.lock : u \in watch} :
        /\ p # t.path
        /\ watch' = (watch \ {t}) \cup {[t EXCEPT !.path = p]}
    /\ spoiled' = spoiled \cup {t.lock}
    /\ UNCHANGED <<monitor, lock, inbox, fds, helper, active, hubVars, queue, clashed,
                   unwatched>>

\* access(path, F_OK) fails
Gone(path) == IF path \in Locks THEN lock[path] = "dropped" ELSE path = Absent

\* Mutant: a delay lock is given up early, whoever grants it.
MutantEnded(t) == t.lock \in Delay \/ lock[t.lock] = "dropped"

\* releaseThreadOurFd returns from poll() when the last write end is closed;
\* releaseThread when the path is gone, or five seconds passed on a delay lock.
Ended(t) ==
    IF monitor THEN t.lock \in Delay \/ Gone(t.path) ELSE lock[t.lock] = "dropped"

ThreadEnds(t) ==
    /\ t \in watch /\ Ended(t)
    /\ watch' = watch \ {t}
    /\ queue' = Append(queue, [id |-> t.id, lock |-> t.lock])
    /\ UNCHANGED <<monitor, lock, inbox, fds, helper, active, hubVars, spoiled, clashed,
                   unwatched>>

\* Mutant: the queue is cleared when a callback throws, too.
MutantQueueLeft(thrown) == <<>>

\* releaseQueue.clear() comes after the loop.
QueueLeft(thrown) == IF thrown THEN queue ELSE <<>>

\* poll: registerUnInhibit for every entry in turn.  An id that is not active
\* is passed over; for the others unInhibitCB may throw after the erase.
Poll ==
    /\ queue # <<>>
    /\ \E n \in DOMAIN queue, thrown \in {FALSE, HubThrows} :
        LET before == {queue[k].id : k \in 1..n - 1}
        IN  /\ IF thrown THEN queue[n].id \in DOMAIN active \ before ELSE n = Len(queue)
            /\ active' = [id \in DOMAIN active \ (before \cup {queue[n].id}) |-> active[id]]
            /\ queue' = QueueLeft(thrown)
    /\ UNCHANGED <<monitor, lock, inbox, fds, helper, hubVars, watch, spoiled, clashed,
                   unwatched>>

----------------------------------------------------------------------------
(* inhibit and unInhibit, called by the hub                                *)

Place(f, id) ==
    /\ active' = MapInsert(active, id, f)
    /\ placed' = MapInsert(placed, f, id)
    /\ requests' = requests + 1
    /\ clashed' = (clashed \/ Clashes(id))
    /\ UNCHANGED <<monitor, lock, threadVars, unwatched>>

\* doInhibit while it serves: a fifo of which the read end is kept.
InhibitServing(f) ==
    /\ ~monitor /\ f \notin DOMAIN placed /\ requests < MaxPlaced
    /\ LET r == Free(FirstFd, fds, 1)
       IN  fds' = fds \cup {r} /\ Place(f, r)
    /\ UNCHANGED <<helper, inbox>>

\* doInhibit while it monitors: the helper asks logind, and the bus lets us
\* overhear it.  The number of the descriptor read from the answer comes back;
\* the answer's own is closed.
InhibitMonitoring(f) ==
    /\ monitor /\ f \notin DOMAIN placed /\ requests < MaxPlaced
    /\ LET n == Free(HelperFd, DOMAIN helper, 2)
       IN  \/ /\ helper' = MapInsert(helper, n, f)
              /\ inbox' = Append(inbox, Echo)
              /\ Place(f, n)
           \/ /\ UNCHANGED <<helper, inbox>>
              /\ Place(f, Denied)
    /\ UNCHANGED fds

\* Mutant: the release is not passed on.
MutantHelperReleases(id) == helper

\* close(atol(msg)) in the helper
HelperReleases(id) == IF monitor THEN MapErase(helper, id) ELSE helper

\* InhibitInterface::unInhibit and doUnInhibit.  (While it serves, the file is
\* removed and the descriptor stays.)
UnInhibit(f) ==
    /\ f \in DOMAIN placed
    /\ LET id == placed[f]
       IN  IF id \in DOMAIN active
           THEN /\ helper' = HelperReleases(id)
                /\ active' = MapErase(active, id)
           ELSE UNCHANGED <<helper, active>>
    /\ placed' = MapErase(placed, f)
    /\ UNCHANGED <<monitor, lock, inbox, fds, requests, threadVars, clashed, unwatched>>

----------------------------------------------------------------------------
Init ==
    /\ monitor \in BOOLEAN
    /\ lock = [l \in Locks |-> "new"]
    /\ inbox = <<>> /\ queue = <<>>
    /\ fds = {} /\ helper = EmptyMap
    /\ active = EmptyMap /\ placed = EmptyMap
    /\ requests = 0
    /\ watch = {}
    /\ clashed = FALSE /\ spoiled = {} /\ unwatched = {}

Applications == \E l \in Locks : Ask(l) \/ Drop(l)
Hub == \E f \in Forwards : InhibitServing(f) \/ InhibitMonitoring(f) \/ UnInhibit(f)
Loop == ServeLock \/ IgnoreEcho \/ MonitorLock \/ Poll
Threads == \E t \in watch : ThreadEnds(t)

Next ==
    \/ Applications
    \/ Hub
    \/ Loop
    \/ Threads
    \/ \E t \in watch : StackReused(t)

Spec == Init /\ [][Next]_vars

\* main() resumes the coroutine, which handles what has arrived and then polls;
\* every thread runs.
FairSpec ==
    /\ Spec
    /\ WF_vars(ServeLock \/ IgnoreEcho \/ MonitorLock) /\ WF_vars(Poll)
    /\ \A l \in Locks : WF_vars(\E t \in watch : t.lock = l /\ ThreadEnds(t))

----------------------------------------------------------------------------
(* Properties                                                              *)

\* The types of the variables; among them, that nothing is registered but locks
\* of applications and requests of the hub, never what the helper was given.
TypeOK ==
    /\ monitor \in BOOLEAN /\ clashed \in BOOLEAN
    /\ lock \in [Locks -> {"new", "asked", "held", "dropped"}]
    /\ inbox \in Seq(Locks \cup {Echo})
    /\ fds \subseteq Nat
    /\ DOMAIN helper \subseteq Nat /\ \A n \in DOMAIN helper : helper[n] \in Forwards
    /\ DOMAIN active \subseteq Nat \cup {Denied}
    /\ \A id \in DOMAIN active : active[id] \in Locks \cup Forwards
    /\ DOMAIN placed \subseteq Forwards
    /\ \A f \in DOMAIN placed : placed[f] \in Nat \cup {Denied}
    /\ requests \in Nat
    /\ watch \subseteq Thread
    /\ queue \in Seq([id : Nat, lock : Locks])
    /\ spoiled \subseteq Locks /\ unwatched \subseteq Locks

\* include/InhibitInterface.hpp: "Unique ID for an Inhibit".  No two inhibits that
\* are watched, or that the hub asked for and was given, have one id.
IdsUnique ==
    /\ \A t, u \in watch : t.id = u.id => t.lock = u.lock
    /\ \A t \in watch, f \in DOMAIN placed : placed[f] # t.id
    /\ \A f, g \in DOMAIN placed : placed[f] = placed[g] /\ placed[f] # Denied => f = g

\* As long as no id was given twice, an application's lock that was registered
\* stays registered until it is dropped: the threads, the queue (and what a
\* throwing callback leaves in it) and the requests of the hub end nothing
\* early.  (A delay lock may be given up after five seconds, and a thread that
\* lost its path reports anything.)
LockLasts ==
    [][\A id \in DOMAIN active \ DOMAIN active' :
        active[id] \in Locks /\ ~clashed =>
            \/ lock[active[id]] = "dropped"
            \/ monitor /\ active[id] \in Delay \cup spoiled]_vars

\* Under the same condition the helper holds logind's locks exactly for the
\* requests in force: none is leaked, and none released that is needed.
HelperAgrees ==
    monitor /\ ~clashed =>
        {<<helper[n], n>> : n \in DOMAIN helper} =
            {<<f, placed[f]>> : f \in {g \in DOMAIN placed : placed[g] # Denied}}

\* Every lock that is registered is watched by its thread or waits in the queue
\* for poll(), but for those whose registration threw: its release can come.
\* This holds whatever ids clashed.
ReleaseComes ==
    \A id \in DOMAIN active :
        active[id] \in Locks \ unwatched =>
            \/ \E t \in watch : t.lock = active[id] /\ t.id = id
            \/ \E n \in DOMAIN queue : queue[n] = [id |-> id, lock |-> active[id]]

\* Once all applications have let go, and whatever ids clashed, the locks end up
\* unregistered, but for those that got no thread or whose thread is misled.
AllReleased ==
    (\A l \in Locks : lock[l] = "dropped") ~>
        \A id \in DOMAIN active : active[id] \in Forwards \cup unwatched \cup spoiled

=============================================================================
