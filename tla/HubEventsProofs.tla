--------------------------- MODULE HubEventsProofs ---------------------------
(***************************************************************************)
(* Proofs about what the hub tells: to the lock programs, the user's       *)
(* commands and the listeners of D-Bus signals.  With them the hub is the  *)
(* same hub (EventsAreHub), so all that was proved of it holds here too.   *)
(***************************************************************************)
EXTENDS HubEvents, HubRefinementProofs

\* The programs that are told change nothing of the hub.
LEMMA HubOfEvents == EventInit /\ [][EventNext]_eventVars => Spec
<1>1. EventInit => Init
  BY DEF EventInit
<1>2. [EventNext]_eventVars => [Next]_vars
  BY DEF EventNext, EventProceed, Next, Proceed, eventVars, vars
<1>. QED
  BY <1>1, <1>2, PTL DEF Spec

\* In each step the interfaces are told what changed, or nothing did.
LEMMA ToldOrQuiet ==
    ASSUME [EventNext]_eventVars
    PROVE  (\E added, removed : Tell(added, removed)) \/ (Quiet /\ lastState' = lastState)
<1>1. CASE UNCHANGED eventVars
  BY <1>1 DEF eventVars, vars, Quiet
<1>2. ASSUME NEW i \in Ifaces, NEW n \in Apps, RegisterInhibit(i, n), Quiet
      PROVE  lastState' = lastState
  BY <1>2 DEF RegisterInhibit
<1>3. ASSUME NEW id \in DOMAIN active, RegisterUnInhibit(id), Quiet
      PROVE  lastState' = lastState
  BY <1>3 DEF RegisterUnInhibit
<1>4. ASSUME \/ ForwardSkip \/ ForwardCall \/ ForwardPlan \/ ForwardNoReply
             \/ ForwardThrow \/ ReleaseThrow, Quiet
      PROVE  lastState' = lastState
  BY <1>4 DEF ForwardSkip, ForwardCall, ForwardPlan, ForwardNoReply, ForwardThrow, ReleaseThrow
<1>5. ASSUME NEW j \in Ifaces, HelperDies(j), Quiet
      PROVE  lastState' = lastState
  BY <1>5 DEF HelperDies
<1>. QED
  BY <1>1, <1>2, <1>3, <1>4, <1>5 DEF EventNext, EventProceed

----------------------------------------------------------------------------
(* What the told programs know is what callEvent said last.                *)

PowerTold == \A j \in Served("simple_pm") : hasInhibit[j] = HasInhibit(lastState[j])

UserTold == \A j \in Users : lastInhibited[j] = lastState[j]

\* A lock program only follows one bit.
LockerTold ==
    \A j \in Lockers :
        /\ SCREENSAVER \in lastInhibited[j] <=> SCREENSAVER \in lastState[j]
        /\ disabled[j] /\ ~failed[j] => SCREENSAVER \in lastInhibited[j]

CommandRan ==
    \A j \in Users, key \in Keys : {key} \X {"inhibit", "uninhibit"} \subseteq Commands =>
        (lastRun[j][key] = "inhibit" <=> Holds(key, lastInhibited[j]))

ToldInv == PowerTold /\ UserTold /\ LockerTold /\ CommandRan

LEMMA ToldInit == EventInit => ToldInv
<1>. SUFFICES ASSUME EventInit PROVE ToldInv
  OBVIOUS
<1>1. \A j \in Ifaces : lastState[j] = {}
  BY DEF EventInit, Init
<1>2. PowerTold
  BY <1>1 DEF EventInit, PowerTold, Served, HasInhibit
<1>3. UserTold /\ LockerTold
  BY <1>1 DEF EventInit, UserTold, LockerTold, Users, Lockers
<1>4. CommandRan
  BY DEF EventInit, CommandRan, Users, Holds, Keys, Bits, ANY
<1>. QED
  BY <1>2, <1>3, <1>4 DEF ToldInv

LEMMA ToldStep == ToldInv /\ [EventNext]_eventVars => ToldInv'
<1>. SUFFICES ASSUME ToldInv, [EventNext]_eventVars PROVE ToldInv'
  OBVIOUS
<1>. USE DEF ToldInv
<1>1. CASE Quiet /\ lastState' = lastState
  <2>1. PowerTold' /\ UserTold' /\ LockerTold'
    BY <1>1 DEF Quiet, toldVars, PowerTold, Served, HasInhibit, UserTold, Users, LockerTold, Lockers
  <2>2. CommandRan'
    BY <1>1 DEF Quiet, toldVars, CommandRan, Users, Holds
  <2>. QED
    BY <2>1, <2>2
<1>2. CASE \E added, removed : Tell(added, removed)
  <2>1. TellLockers /\ Remember /\ RunCommands /\ SignalPower
    BY <1>2 DEF Tell
  <2>2. PowerTold'
    <3>. SUFFICES ASSUME NEW j \in Served("simple_pm")
                  PROVE  hasInhibit'[j] = HasInhibit(lastState'[j])
      BY DEF PowerTold, Served, HasInhibit
    <3>1. hasInhibit'[j] = IF Told(j) THEN HasInhibit(lastState'[j]) ELSE hasInhibit[j]
      BY <2>1 DEF SignalPower
    <3>. QED
      BY <3>1 DEF Told, PowerTold
  <2>3. \A j \in Lockers \cup Users : lastInhibited'[j] =
            IF Turns(j) \/ (j \in Users /\ Told(j)) THEN lastState'[j] ELSE lastInhibited[j]
    BY <2>1 DEF Remember
  <2>4. UserTold'
    BY <2>3 DEF UserTold, Users, Told, Turns
  <2>5. LockerTold'
    <3>. SUFFICES ASSUME NEW j \in Lockers
                  PROVE  /\ SCREENSAVER \in lastInhibited'[j] <=> SCREENSAVER \in lastState'[j]
                         /\ disabled'[j] /\ ~failed'[j] => SCREENSAVER \in lastInhibited'[j]
      BY DEF LockerTold, Lockers
    <3>1. j \notin Users
      BY DEF Lockers, Users
    <3>2. lastInhibited'[j] = IF Turns(j) THEN lastState'[j] ELSE lastInhibited[j]
      BY <2>3, <3>1
    <3>3. PICK bad \in SUBSET {i \in Lockers : Turns(i)} :
            /\ disabled' = [i \in Lockers |->
                    IF Turns(i) /\ i \notin bad THEN SCREENSAVER \in lastState'[i] ELSE disabled[i]]
            /\ failed' = [i \in Lockers |-> IF Turns(i) THEN i \in bad ELSE failed[i]]
      BY <2>1 DEF TellLockers
    <3>4. CASE Turns(j)
      BY <3>2, <3>3, <3>4
    <3>5. CASE ~Turns(j)
      <4>1. disabled'[j] = disabled[j] /\ failed'[j] = failed[j]
        BY <3>3, <3>5
      <4>. QED
        BY <3>2, <3>5, <4>1 DEF LockerTold, Turns, Told
    <3>. QED
      BY <3>4, <3>5
  <2>6. CommandRan'
    <3>. SUFFICES ASSUME NEW j \in Users, NEW key \in Keys,
                         {key} \X {"inhibit", "uninhibit"} \subseteq Commands
                  PROVE  lastRun'[j][key] = "inhibit" <=> Holds(key, lastInhibited'[j])
      BY DEF CommandRan, Users, Holds
    <3>. DEFINE ev == EventFor(key, lastInhibited[j], lastState'[j])
    <3>1. lastRun'[j][key] =
            IF \E e \in ev : Told(j) /\ <<key, e>> \in Commands THEN CHOOSE e \in ev : TRUE
            ELSE lastRun[j][key]
      BY <2>1 DEF RunCommands
    <3>2. lastInhibited'[j] = lastState'[j] /\ lastInhibited[j] = lastState[j]
      BY <2>4 DEF UserTold, Users
    <3>3. <<key, "inhibit">> \in Commands /\ <<key, "uninhibit">> \in Commands
      OBVIOUS
    <3>4. lastRun[j][key] = "inhibit" <=> Holds(key, lastInhibited[j])
      BY DEF CommandRan
    <3>5. CASE Holds(key, lastInhibited[j]) <=> Holds(key, lastState'[j])
      <4>1. ev = {}
        BY <3>5 DEF EventFor, Holds
      <4>. QED
        BY <3>1, <3>2, <3>4, <3>5, <4>1
    <3>6. CASE ~(Holds(key, lastInhibited[j]) <=> Holds(key, lastState'[j]))
      <4>1. Told(j)
        BY <3>2, <3>6 DEF Told
      <4>2. CASE Holds(key, lastState'[j])
        <5>1. ev = {"inhibit"}
          BY <3>6, <4>2 DEF EventFor, Holds
        <5>2. lastRun'[j][key] = CHOOSE e \in ev : TRUE
          BY <3>1, <3>3, <4>1, <5>1
        <5>. QED
          BY <3>2, <4>2, <5>1, <5>2
      <4>3. CASE ~Holds(key, lastState'[j])
        <5>1. ev = {"uninhibit"}
          BY <3>6, <4>3 DEF EventFor, Holds
        <5>2. lastRun'[j][key] = CHOOSE e \in ev : TRUE
          BY <3>1, <3>3, <4>1, <5>1
        <5>. QED
          BY <3>2, <4>3, <5>1, <5>2
      <4>. QED
        BY <4>2, <4>3
    <3>. QED
      BY <3>5, <3>6
  <2>. QED
    BY <2>2, <2>4, <2>5, <2>6
<1>. QED
  BY <1>1, <1>2, ToldOrQuiet

----------------------------------------------------------------------------
(* What callEvent said last is what is active, but on the interface whose  *)
(* own inhibit a handler is about, and on one whose inhibit ended in an    *)
(* error.                                                                  *)

\* The interface of the handler has not been told yet.
Pending(j) == job.op # "idle" /\ job.org = j

StateFollows ==
    job.op \notin Ended =>
        \A j \in Ifaces :
            /\ \A id \in DOMAIN active : id.inst = j => id \notin aborted
            /\ Untold(j) = {} /\ ~Pending(j)
            => lastState[j] = InhibitedBy(active, j)

AbortedApps == \A id \in aborted : id.own = "app"

LEMMA FollowsInit == Init => StateFollows
BY DEF Init, EmptyMap, Idle, Ended, StateFollows, InhibitedBy

\* The steps that leave what is active, and what is told.
LEMMA FollowsQuiet ==
    ASSUME StateFollows, job.op \notin Ended, active' = active,
           lastState' = lastState, aborted \subseteq aborted', cut \subseteq cut',
           \A j \in Ifaces : Pending(j) => \/ Pending(j)'
                                           \/ \E id \in DOMAIN active \cap aborted' : id.inst = j
                                           \/ \E id \in cut' : id.inst = j
    PROVE  StateFollows'
<1>. SUFFICES ASSUME NEW j \in Ifaces, \A id \in DOMAIN active : id.inst = j => id \notin aborted',
                     ~Pending(j)', \A id \in cut' : id.inst # j
              PROVE  lastState[j] = InhibitedBy(active, j)
  BY DEF StateFollows, InhibitedBy, Untold
<1>1. /\ \A id \in DOMAIN active : id.inst = j => id \notin aborted
      /\ Untold(j) = {}
  BY DEF Untold
<1>2. ~Pending(j)
  OBVIOUS
<1>. QED
  BY <1>1, <1>2 DEF StateFollows

LEMMA FollowsStep == HubInv /\ ShareInv /\ StateFollows /\ AbortedApps /\ [Next]_vars => StateFollows'
<1>. SUFFICES ASSUME HubInv, ShareInv, StateFollows, AbortedApps, [Next]_vars
              PROVE  StateFollows'
  OBVIOUS
<1>0. TypeOK /\ job \in Job
  BY DEF HubInv, TypeInv, TypeOK
<1>1. ASSUME NEW i \in Ifaces, NEW n \in Apps, RegisterInhibit(i, n) PROVE StateFollows'
  <2>1. PICK id \in NativeIds(i, n) :
            /\ DOMAIN active' = DOMAIN active \cup {id}
            /\ \A x \in DOMAIN active : active'[x] = active[x]
            /\ id.inst = i
    BY <1>0, <1>1, NativeIdFacts DEF RegisterInhibit, MapInsert
  <2>2. /\ job.op = "idle" /\ job'.op = "inhibit" /\ job'.org = i
        /\ lastState' = lastState /\ aborted' = aborted /\ cut' = cut
    BY <1>1 DEF RegisterInhibit, helperVars
  <2>. SUFFICES ASSUME NEW j \in Ifaces, j # i, Untold(j) = {},
                       \A x \in DOMAIN active' : x.inst = j => x \notin aborted
                PROVE  lastState[j] = InhibitedBy(active', j)
    BY <2>2 DEF StateFollows, Ended, Pending, InhibitedBy, Untold
  <2>3. InhibitedBy(active', j) = InhibitedBy(active, j)
    BY <2>1, SameInhibited
  <2>4. lastState[j] = InhibitedBy(active, j)
    BY <2>1, <2>2 DEF StateFollows, Ended, Pending
  <2>. QED
    BY <2>3, <2>4
<1>2. ASSUME NEW id \in DOMAIN active, RegisterUnInhibit(id) PROVE StateFollows'
  <2>1. /\ DOMAIN active' = DOMAIN active \ {id}
        /\ \A x \in DOMAIN active' : active'[x] = active[x]
        /\ job.op = "idle" /\ job'.op = "uninhibit" /\ job'.org = id.inst
        /\ lastState' = lastState /\ aborted' = aborted /\ cut' = cut
    BY <1>2 DEF RegisterUnInhibit, MapErase, Idle, helperVars
  <2>. SUFFICES ASSUME NEW j \in Ifaces, j # id.inst, Untold(j) = {},
                       \A x \in DOMAIN active' : x.inst = j => x \notin aborted
                PROVE  lastState[j] = InhibitedBy(active', j)
    BY <2>1 DEF StateFollows, Ended, Pending, InhibitedBy, Untold
  <2>2. InhibitedBy(active', j) = InhibitedBy(active, j)
    BY <2>1, SameInhibited
  <2>3. lastState[j] = InhibitedBy(active, j)
    BY <2>1 DEF StateFollows, Ended, Pending
  <2>. QED
    BY <2>2, <2>3
<1>3. CASE ForwardSkip \/ ForwardCall \/ ForwardPlan \/ ForwardNoReply
  <2>1. /\ job.op \in {"inhibit", "activated"} /\ job'.op \in {"inhibit", "called"}
        /\ job'.org = job.org /\ active' = active /\ lastState' = lastState
        /\ aborted \subseteq aborted' /\ cut' = cut
    BY <1>0, <1>3 DEF helperVars, ForwardSkip, ForwardCall, ForwardPlan, ForwardNoReply, Forwarding, Job
  <2>. QED
    BY <2>1, FollowsQuiet DEF Pending, Ended
<1>4. CASE ForwardThrow
  <2>1. /\ job.op = "inhibit" /\ active' = active /\ lastState' = lastState
        /\ aborted' = aborted \cup {job.id} /\ cut' = cut
    BY <1>4 DEF ForwardThrow, Forwarding, helperVars
  <2>2. job.id \in DOMAIN active /\ job.id.inst = job.org
    BY <2>1 DEF HubInv, TypeInv, JobOK, ShareInv, JobAgrees, Handling
  <2>. QED
    BY <2>1, <2>2, FollowsQuiet DEF Pending, Ended
<1>5. CASE ForwardActivate
  <2>1. /\ job.op = "called" /\ DOMAIN active' = DOMAIN active \cup {job.pend}
        /\ \A x \in DOMAIN active : active'[x] = active[x]
        /\ lastState' = CallEvent(active', Target) /\ aborted' = aborted
        /\ cut' = cut
    BY <1>5 DEF ForwardActivate, MapInsert, helperVars
  <2>2. job'.op = "activated" /\ job'.org = job.org
    BY <1>0, <1>5 DEF ForwardActivate, Job
  <2>3. Target \in Ifaces /\ job.pend.inst = Target
    BY <2>1, TargetFacts DEF HubInv, TypeInv, JobOK, Target
  <2>. SUFFICES ASSUME NEW j \in Ifaces, ~Pending(j), Untold(j) = {},
                       \A x \in DOMAIN active' : x.inst = j => x \notin aborted
                PROVE  lastState'[j] = InhibitedBy(active', j)
    BY <2>1, <2>2 DEF StateFollows, Ended, Pending, InhibitedBy, Untold
  <2>4. lastState'[j] = IF j = Target THEN InhibitedBy(active', Target) ELSE lastState[j]
    BY <1>0, <2>1, <2>3, CallEventFacts
  <2>5. CASE j # Target
    <3>1. InhibitedBy(active', j) = InhibitedBy(active, j)
      BY <2>1, <2>3, <2>5, SameInhibited
    <3>2. lastState[j] = InhibitedBy(active, j)
      BY <2>1 DEF StateFollows, Ended
    <3>. QED
      BY <2>4, <2>5, <3>1, <3>2
  <2>. QED
    BY <2>4, <2>5
<1>6. CASE FinishInhibit \/ FinishUnInhibit
  <2>1. /\ job.op \in {"inhibit", "uninhibit"} /\ active' = active
        /\ lastState' = CallEvent(active, job.org) /\ job'.op = "idle"
        /\ \A x \in DOMAIN active : x \in aborted => x \in aborted'
        /\ cut' = cut
    BY <1>6 DEF FinishInhibit, FinishUnInhibit, Idle, ShareInv, JobAgrees, helperVars
  <2>2. job.org \in Ifaces
    BY <2>1 DEF HubInv, TypeInv, JobOK
  <2>. SUFFICES ASSUME NEW j \in Ifaces, Untold(j) = {},
                       \A x \in DOMAIN active : x.inst = j => x \notin aborted'
                PROVE  lastState'[j] = InhibitedBy(active, j)
    BY <2>1 DEF StateFollows, Ended, InhibitedBy, Untold
  <2>3. lastState'[j] = IF j = job.org THEN InhibitedBy(active, job.org) ELSE lastState[j]
    BY <1>0, <2>1, <2>2, CallEventFacts
  <2>4. j # job.org => lastState[j] = InhibitedBy(active, j)
    BY <2>1 DEF StateFollows, Ended, Pending
  <2>. QED
    BY <2>3, <2>4
<1>7. CASE ReleaseStep
  <2>. DEFINE r == plan[job.id][job.k]
              gone == {r} \cap DOMAIN active
  <2>1. /\ job.op = "uninhibit" /\ job.id \in DOMAIN plan /\ job.k \in 1..Len(plan[job.id])
    BY <1>7 DEF ReleaseStep, Releasing, HubInv, TypeInv, JobOK
  <2>2. Withdraw(gone) /\ aborted' = aborted /\ cut' = cut
    BY <1>7 DEF ReleaseStep, helperVars
  <2>3. job'.op = "uninhibit" /\ job'.org = job.org
    BY <1>0, <1>7, <2>1 DEF ReleaseStep, Job
  <2>4. r.inst \in Ifaces /\ r.own # "app"
    BY <1>0, <2>1, EntryType DEF HubInv, PlanOK
  <2>. HIDE DEF gone
  <2>5. DOMAIN active' = DOMAIN active \ gone /\ \A x \in DOMAIN active' : active'[x] = active[x]
    BY <2>2, WithdrawFacts
  <2>. SUFFICES ASSUME NEW j \in Ifaces, ~Pending(j), Untold(j) = {},
                       \A x \in DOMAIN active' : x.inst = j => x \notin aborted
                PROVE  lastState'[j] = InhibitedBy(active', j)
    BY <2>1, <2>2, <2>3 DEF StateFollows, Ended, Pending, InhibitedBy, Untold
  <2>6. lastState[j] = InhibitedBy(active, j)
    <3>1. \A x \in DOMAIN active : x.inst = j => x \notin aborted
      BY <2>4, <2>5 DEF AbortedApps, gone
    <3>. QED
      BY <2>1, <3>1 DEF StateFollows, Ended
  <2>7. lastState'[j] = IF \E id \in gone : id.inst = j THEN InhibitedBy(active', j) ELSE lastState[j]
    BY <2>2 DEF Withdraw
  <2>8. ~(\E id \in gone : id.inst = j) => InhibitedBy(active', j) = InhibitedBy(active, j)
    BY <2>5, SameInhibited
  <2>. QED
    BY <2>6, <2>7, <2>8
<1>8. CASE Sigint \/ SigintThrow
  <2>1. job'.op \in Ended
    BY <1>0, <1>8 DEF Sigint, SigintThrow, Job, Ended
  <2>. QED
    BY <2>1 DEF StateFollows, Ended
<1>10. CASE ReleaseThrow
  <2>1. /\ job.op = "uninhibit" /\ active' = active /\ lastState' = lastState
        /\ aborted' = aborted /\ cut' = cut \cup {job.id}
    BY <1>10 DEF ReleaseThrow, Releasing
  <2>2. job.id.inst = job.org
    BY <2>1 DEF ShareInv, JobAgrees
  <2>. QED
    BY <2>1, <2>2, FollowsQuiet DEF Pending, Ended
<1>11. ASSUME NEW j \in Ifaces, HelperDies(j) PROVE StateFollows'
  <2>1. /\ active' = active /\ lastState' = lastState /\ aborted' = aborted /\ cut' = cut
        /\ job' = job
    BY <1>11 DEF HelperDies
  <2>. QED
    BY <2>1 DEF StateFollows, Pending, InhibitedBy, Untold
<1>9. CASE UNCHANGED vars
  BY <1>9 DEF vars, StateFollows, Pending, InhibitedBy, Untold
<1>. QED
  BY <1>1, <1>2, <1>3, <1>4, <1>5, <1>6, <1>7, <1>8, <1>9, <1>10, <1>11
     DEF Next, Proceed

\* inhibitCB gives up on nothing but what an application asked for.
LEMMA AbortedStep == HubInv /\ AbortedApps /\ [Next]_vars => AbortedApps'
<1>1. ASSUME HubInv, [Next]_vars
      PROVE  aborted' \subseteq aborted \/ (aborted' = aborted \cup {job.id} /\ job.op = "inhibit")
  BY <1>1 DEF Next, Proceed, vars, RegisterInhibit, RegisterUnInhibit, ForwardSkip, ForwardCall,
              ForwardActivate, ForwardPlan, ForwardNoReply, ForwardThrow, Forwarding,
              FinishInhibit, ReleaseStep, ReleaseThrow, FinishUnInhibit, HelperDies, Sigint,
              SigintThrow
<1>2. HubInv /\ job.op = "inhibit" => job.id.own = "app"
  BY DEF HubInv, TypeInv, JobOK
<1>. QED
  BY <1>1, <1>2 DEF AbortedApps

LEMMA FollowsInvariant == Spec => [](HubInv /\ ShareInv /\ StateFollows /\ AbortedApps)
<1>1. Init => AbortedApps
  BY DEF Init, AbortedApps
<1>. QED
  BY <1>1, FollowsInit, FollowsStep, AbortedStep, ShareInvariant, PTL DEF Spec

----------------------------------------------------------------------------
(* The paths of org.gnome.SessionManager: a cookie never names two         *)
(* inhibits, those included that are about to begin or have just ended.    *)

SessionCookies ==
    \A j \in Ifaces : Kind[j] = "gnomesm" =>
        /\ \A x, y \in DOMAIN active :
                x.inst = j /\ y.inst = j /\ x.cookie = y.cookie => x = y
        /\ job.op = "called" /\ Target = j =>
                \A x \in DOMAIN active : x.inst = j => x.cookie # job.pend.cookie
        /\ job.op = "uninhibit" /\ job.id.inst = j =>
                \A x \in DOMAIN active : x.inst = j => x.cookie # job.id.cookie

\* The counter is not behind what it handed out.
LEMMA SessionCounter ==
    ASSUME HubInv, ShareInv, NEW x \in DOMAIN active, Kind[x.inst] = "gnomesm"
    PROVE  x.inst \in Ifaces /\ x.cookie <= lastCookie[x.inst]
                             /\ x.cookie \in Nat /\ lastCookie[x.inst] \in Nat
<1>1. x \in Id /\ x.inst \in Ifaces /\ x.cookie \in Nat
  BY DEF HubInv, TypeInv, TypeOK, Id
<1>2. lastCookie[x.inst] \in Nat
  BY <1>1 DEF HubInv, TypeInv, TypeOK
<1>. QED
  BY <1>1, <1>2 DEF ShareInv, ActiveTypes, HubInv, ActiveOK, Tracked

LEMMA SessionInit == Init => SessionCookies
BY DEF Init, EmptyMap, Idle, SessionCookies

LEMMA SessionStep == HubInv /\ ShareInv /\ SessionCookies /\ [Next]_vars => SessionCookies'
<1>. SUFFICES ASSUME HubInv, ShareInv, SessionCookies, [Next]_vars PROVE SessionCookies'
  OBVIOUS
<1>0. TypeOK /\ job \in Job
  BY DEF HubInv, TypeInv, TypeOK
<1>1. ASSUME NEW i \in Ifaces, NEW n \in Apps, RegisterInhibit(i, n) PROVE SessionCookies'
  <2>1. PICK id \in NativeIds(i, n) : DOMAIN active' = DOMAIN active \cup {id} /\ id.inst = i
    BY <1>0, <1>1, NativeIdFacts DEF RegisterInhibit, MapInsert
  <2>2. job'.op = "inhibit"
    BY <1>1 DEF RegisterInhibit
  <2>3. Kind[i] = "gnomesm" => id.cookie = lastCookie[i] + 1
    BY <2>1 DEF NativeIds, NameKinds, FdKinds
  <2>4. \A x \in DOMAIN active : x.inst = i /\ Kind[i] = "gnomesm" => x.cookie # id.cookie
    BY <2>3, SessionCounter
  <2>. QED
    BY <2>1, <2>2, <2>4 DEF SessionCookies
<1>2. ASSUME NEW id \in DOMAIN active, RegisterUnInhibit(id) PROVE SessionCookies'
  <2>1. DOMAIN active' = DOMAIN active \ {id} /\ job'.op = "uninhibit" /\ job'.id = id
    BY <1>2 DEF RegisterUnInhibit, MapErase, Idle
  <2>. QED
    BY <2>1 DEF SessionCookies
<1>3. CASE ForwardCall
  <2>1. Target \in Ifaces /\ job.op = "inhibit"
    BY <1>3, TargetFacts DEF ForwardCall, Forwarding, HubInv, TypeInv, JobOK, Target
  <2>3. PICK id \in ForwardIds(Target, job.name) :
            active' = active /\ job' = [job EXCEPT !.op = "called", !.pend = id]
    BY <1>3 DEF ForwardCall
  <2>2. Kind[Target] = "gnomesm" => id.cookie = lastCookie[Target] + 1
    BY <2>3 DEF ForwardIds, NameKinds, EmptyKinds, FdKinds
  <2>4. job'.op = "called" /\ job'.pend = id /\ job'.k = job.k
    BY <1>0, <2>3 DEF Job
  <2>5. Target' = Target
    BY <2>4 DEF Target
  <2>6. Kind[Target] = "gnomesm" =>
            \A x \in DOMAIN active : x.inst = Target => x.cookie # id.cookie
    BY <2>2, SessionCounter
  <2>. QED
    BY <2>3, <2>4, <2>5, <2>6 DEF SessionCookies
<1>4. CASE ForwardActivate
  <2>1. job.op = "called" /\ DOMAIN active' = DOMAIN active \cup {job.pend}
    BY <1>4 DEF ForwardActivate, MapInsert
  <2>2. job'.op = "activated"
    BY <1>0, <1>4 DEF ForwardActivate, Job
  <2>3. job.pend.inst = Target
    BY <2>1 DEF HubInv, TypeInv, JobOK
  <2>. QED
    BY <2>1, <2>2, <2>3 DEF SessionCookies
<1>5. CASE \/ ForwardSkip \/ ForwardPlan \/ ForwardNoReply \/ ForwardThrow
           \/ FinishInhibit \/ ReleaseThrow \/ FinishUnInhibit
  <2>1. ForwardSkip \/ ForwardPlan \/ ForwardNoReply
            => active' = active /\ job'.op \notin {"called", "uninhibit"}
    BY <1>0 DEF ForwardSkip, ForwardPlan, ForwardNoReply, Forwarding, Job
  <2>2. ForwardThrow \/ ReleaseThrow \/ FinishInhibit \/ FinishUnInhibit
            => active' = active /\ job'.op \notin {"called", "uninhibit"}
    BY ThrownFacts DEF ForwardThrow, ReleaseThrow, FinishInhibit, FinishUnInhibit, Idle
  <2>. QED
    BY <1>5, <2>1, <2>2 DEF SessionCookies
<1>6. CASE ReleaseStep
  <2>1. DOMAIN active' \subseteq DOMAIN active
    BY <1>6 DEF ReleaseStep, Withdraw
  <2>2. job.op = "uninhibit" /\ job'.op = "uninhibit" /\ job'.id = job.id
    BY <1>0, <1>6 DEF ReleaseStep, Releasing, Job
  <2>. QED
    BY <2>1, <2>2 DEF SessionCookies
<1>7. CASE Sigint \/ SigintThrow
  <2>1. job'.op \in {"exited", "terminated"} /\ DOMAIN active' \subseteq DOMAIN active
    BY <1>0, <1>7 DEF Sigint, SigintThrow, Withdraw, Job
  <2>. QED
    BY <2>1 DEF SessionCookies
<1>9. ASSUME NEW j \in Ifaces, HelperDies(j) PROVE SessionCookies'
  BY <1>9 DEF HelperDies, SessionCookies, Target
<1>8. CASE UNCHANGED vars
  BY <1>8 DEF vars, SessionCookies, Target
<1>. QED
  BY <1>1, <1>2, <1>3, <1>4, <1>5, <1>6, <1>7, <1>8, <1>9 DEF Next, Proceed

\* A listener knows what there is, but for what the handler in progress is about.
SessionTold ==
    job.op \notin Ended =>
        \A j \in Served("gnomesm") :
            /\ \A c \in followed[j] :
                \/ c \in CookiesOf(cut, j)
                \/ \E id \in DOMAIN active : id.inst = j /\ id.cookie = c
                \/ job.op = "uninhibit" /\ job.id.inst = j /\ job.id.cookie = c
            /\ \A id \in DOMAIN active \ aborted :
                id.inst = j => id.cookie \in followed[j] \/ (Handling /\ job.id = id)

LEMMA CookiesOfFacts ==
    ASSUME NEW ids, NEW j, NEW c
    PROVE  c \in CookiesOf(ids, j) <=> \E id \in ids : id.inst = j /\ id.cookie = c
BY DEF CookiesOf

LEMMA SessionToldStep ==
    ASSUME HubInv, ShareInv, SessionCookies, SessionTold, [EventNext]_eventVars
    PROVE  SessionTold'
<1>0. TypeOK /\ job \in Job
  BY DEF HubInv, TypeInv, TypeOK
<1>11. \A added, removed : Tell(added, removed) =>
        \A j \in Served("gnomesm") :
            followed'[j] = (followed[j] \cup CookiesOf(added, j)) \ CookiesOf(removed, j)
  BY DEF Tell, SignalSession
<1>1. ASSUME NEW i \in Ifaces, NEW n \in Apps, RegisterInhibit(i, n), Quiet PROVE SessionTold'
  <2>1. PICK id \in NativeIds(i, n) : DOMAIN active' = DOMAIN active \cup {id} /\ job'.id = id
    BY <1>1 DEF RegisterInhibit, MapInsert
  <2>2. /\ job.op = "idle" /\ job'.op = "inhibit" /\ aborted' = aborted /\ followed' = followed
        /\ cut' = cut
    BY <1>1 DEF RegisterInhibit, Quiet, toldVars, helperVars
  <2>. QED
    BY <2>1, <2>2 DEF SessionTold, Ended, Served, Handling
<1>2. ASSUME NEW id \in DOMAIN active, RegisterUnInhibit(id), Quiet PROVE SessionTold'
  <2>1. /\ DOMAIN active' = DOMAIN active \ {id} /\ job.op = "idle" /\ job'.op = "uninhibit"
        /\ job'.id = id /\ aborted' = aborted /\ followed' = followed /\ cut' = cut
    BY <1>2 DEF RegisterUnInhibit, MapErase, Idle, Quiet, toldVars, helperVars
  <2>. QED
    BY <2>1 DEF SessionTold, Ended, Served, Handling
<1>3. CASE (ForwardSkip \/ ForwardCall \/ ForwardPlan \/ ForwardNoReply) /\ Quiet
  <2>1. /\ job.op \in {"inhibit", "activated"} /\ job'.op \in {"inhibit", "called"}
        /\ job'.id = job.id /\ active' = active /\ aborted \subseteq aborted'
        /\ followed' = followed /\ cut' = cut
    BY <1>0, <1>3 DEF helperVars, ForwardSkip, ForwardCall, ForwardPlan, ForwardNoReply, Forwarding, Job,
                      Quiet, toldVars
  <2>. QED
    BY <2>1 DEF SessionTold, Ended, Served, Handling
<1>4. CASE ForwardThrow /\ Quiet
  <2>1. /\ job.op = "inhibit" /\ job'.op \in {"idle", "undefined"} /\ active' = active
        /\ aborted' = aborted \cup {job.id} /\ followed' = followed /\ cut' = cut
    BY <1>4, ThrownFacts DEF ForwardThrow, Forwarding, Quiet, toldVars, helperVars
  <2>. QED
    BY <2>1 DEF SessionTold, Ended, Served, Handling
<1>5. CASE ForwardActivate /\ Tell({job.pend}, {})
  <2>1. /\ job.op = "called" /\ DOMAIN active' = DOMAIN active \cup {job.pend}
        /\ aborted' = aborted /\ cut' = cut
    BY <1>5 DEF ForwardActivate, MapInsert, helperVars
  <2>2. job'.op = "activated" /\ job'.id = job.id
    BY <1>0, <1>5 DEF ForwardActivate, Job
  <2>3. \A j \in Served("gnomesm") : \A c :
            c \in followed'[j] <=>
                c \in followed[j] \/ (job.pend.inst = j /\ job.pend.cookie = c)
    BY <1>11, <1>5, CookiesOfFacts
  <2>. QED
    BY <2>1, <2>2, <2>3 DEF SessionTold, Ended, Served, Handling
<1>6. CASE FinishInhibit /\ Tell({job.id}, {})
  <2>1. /\ job.op = "inhibit" /\ active' = active /\ aborted' = aborted /\ job'.op = "idle"
        /\ cut' = cut
    BY <1>6 DEF FinishInhibit, Idle, helperVars
  <2>2. job.id \in DOMAIN active
    BY <2>1 DEF HubInv, TypeInv, JobOK
  <2>3. \A j \in Served("gnomesm") : \A c :
            c \in followed'[j] <=> c \in followed[j] \/ (job.id.inst = j /\ job.id.cookie = c)
    BY <1>11, <1>6, CookiesOfFacts
  <2>. QED
    BY <2>1, <2>2, <2>3 DEF SessionTold, Ended, Served, Handling
<1>7. CASE ReleaseStep /\ Tell({}, Released)
  <2>. DEFINE r == plan[job.id][job.k]
  <2>1. job.op = "uninhibit" /\ Released = {r} \cap DOMAIN active
    BY <1>7 DEF ReleaseStep, Releasing, Released
  <2>2. DOMAIN active' = DOMAIN active \ {r} /\ aborted' = aborted /\ cut' = cut
    BY <1>7 DEF ReleaseStep, Withdraw, helperVars
  <2>3. job'.op = "uninhibit" /\ job'.id = job.id
    BY <1>0, <1>7, <2>1 DEF ReleaseStep, Job
  <2>. HIDE DEF r
  <2>4. \A j \in Served("gnomesm") : \A c :
            c \in followed'[j] <=>
                c \in followed[j] /\ ~(r \in DOMAIN active /\ r.inst = j /\ r.cookie = c)
    BY <1>11, <1>7, <2>1, CookiesOfFacts
  <2>5. \A j \in Served("gnomesm") : j \in Ifaces /\ Kind[j] = "gnomesm"
    BY DEF Served
  <2>6. \A j \in Served("gnomesm") : \A id \in DOMAIN active' :
            r \in DOMAIN active /\ r.inst = j /\ id.inst = j => id.cookie # r.cookie
    BY <2>2, <2>5 DEF SessionCookies
  <2>. QED
    BY <2>1, <2>2, <2>3, <2>4, <2>6 DEF SessionTold, Ended, Served, Handling
<1>8. CASE FinishUnInhibit /\ Tell({}, {job.id})
  <2>1. /\ job.op = "uninhibit" /\ active' = active /\ aborted' = aborted \ {job.id}
        /\ job'.op = "idle" /\ cut' = cut
    BY <1>8 DEF FinishUnInhibit, Idle, helperVars
  <2>2. job.id \notin DOMAIN active
    BY <2>1 DEF ShareInv, JobAgrees
  <2>3. \A j \in Served("gnomesm") : \A c :
            c \in followed'[j] <=> c \in followed[j] /\ ~(job.id.inst = j /\ job.id.cookie = c)
    BY <1>11, <1>8, CookiesOfFacts
  <2>4. \A j \in Served("gnomesm") : j \in Ifaces /\ Kind[j] = "gnomesm"
    BY DEF Served
  <2>5. \A j \in Served("gnomesm") : \A id \in DOMAIN active :
            job.id.inst = j /\ id.inst = j => id.cookie # job.id.cookie
    BY <2>1, <2>4 DEF SessionCookies
  <2>. QED
    BY <2>1, <2>2, <2>3, <2>5 DEF SessionTold, Ended, Served, Handling
<1>9. CASE Sigint \/ SigintThrow
  <2>1. job'.op \in {"exited", "terminated"}
    BY <1>0, <1>9 DEF Sigint, SigintThrow, Job
  <2>. QED
    BY <2>1 DEF SessionTold, Ended
<1>12. CASE ReleaseThrow /\ Quiet
  <2>1. /\ job.op = "uninhibit" /\ job'.op \in {"idle", "undefined"} /\ active' = active
        /\ aborted' = aborted /\ followed' = followed /\ cut' = cut \cup {job.id}
    BY <1>12, ThrownFacts DEF ReleaseThrow, Releasing, Quiet, toldVars
  <2>. QED
    BY <2>1, CookiesOfFacts DEF SessionTold, Ended, Served, Handling
<1>13. ASSUME NEW i \in Ifaces, HelperDies(i), Quiet PROVE SessionTold'
  <2>1. /\ active' = active /\ aborted' = aborted /\ followed' = followed /\ cut' = cut
        /\ job' = job
    BY <1>13 DEF HelperDies, Quiet, toldVars
  <2>. QED
    BY <2>1 DEF SessionTold, Served, Handling
<1>10. CASE UNCHANGED eventVars
  BY <1>10 DEF eventVars, vars, toldVars, SessionTold, Served, Handling
<1>. QED
  BY <1>1, <1>2, <1>3, <1>4, <1>5, <1>6, <1>7, <1>8, <1>9, <1>10, <1>12, <1>13 DEF EventNext, EventProceed

----------------------------------------------------------------------------
(* The hub with what it tells: EventSpec.                                  *)

EventInv ==
    /\ HubInv /\ ShareInv /\ StateFollows /\ AbortedApps
    /\ ToldInv /\ SessionCookies /\ SessionTold

\* All that was proved of the hub holds of the hub with what it tells.
THEOREM EventsAreHub == EventSpec => Spec
BY HubOfEvents, PTL DEF EventSpec

LEMMA EventInvariant == EventSpec => []EventInv
<1>1. EventInit => ToldInv /\ SessionCookies /\ SessionTold
  <2>1. EventInit => SessionTold
    BY DEF EventInit, Init, EmptyMap, SessionTold
  <2>2. EventInit => SessionCookies
    BY SessionInit DEF EventInit
  <2>. QED
    BY <2>1, <2>2, ToldInit
<1>2. HubInv /\ ShareInv /\ ToldInv /\ SessionCookies /\ SessionTold /\ [EventNext]_eventVars
        => ToldInv' /\ SessionCookies' /\ SessionTold'
  <2>1. [EventNext]_eventVars => [Next]_vars
    BY DEF EventNext, EventProceed, Next, Proceed, eventVars, vars
  <2>. QED
    BY <2>1, ToldStep, SessionStep, SessionToldStep
<1>3. EventSpec => [](HubInv /\ ShareInv /\ StateFollows /\ AbortedApps)
  BY EventsAreHub, FollowsInvariant, PTL
<1>. QED
  BY <1>1, <1>2, <1>3, PTL DEF EventSpec, EventInv

\* The last HasInhibitChanged of a power manager is what HasInhibit would answer.
THEOREM PowerIsFollowed == EventSpec => []PowerFollowed
<1>1. EventInv => PowerFollowed
  BY DEF EventInv, StateFollows, Ended, Pending, ToldInv, PowerTold, PowerFollowed, Served
<1>. QED
  BY <1>1, EventInvariant, PTL

\* Whatever commands fail, and though all forwards to it share one id, no lock
\* program is kept quiet for nothing, and handleExit turns it on.
THEOREM LockersReturn == EventSpec => []LockerReturns
<1>1. EventInv => NothingOutlivesCause
  BY ActiveAsked DEF EventInv, NothingOutlivesCause, InhibitedBy
<1>2. EventInv /\ NothingOutlivesCause /\ ExitClean => LockerReturns
  <2>. SUFFICES ASSUME EventInv, NothingOutlivesCause, ExitClean,
                       NEW j \in Lockers, disabled[j], ~failed[j]
                PROVE  /\ job.op = "idle" =>
                            \/ Asked(SCREENSAVER)
                            \/ \E id \in DOMAIN active : id.inst = j /\ LeftBehind(id)
                       /\ job.op = "exited" => job.pend.inst = j
    BY DEF LockerReturns
  <2>1. j \in Ifaces /\ Kind[j] = "sink"
    BY DEF Lockers
  <2>2. SCREENSAVER \in lastState[j]
    BY DEF EventInv, ToldInv, LockerTold
  <2>3. lastState[j] = InhibitedBy(active, j)
    BY <2>1 DEF EventInv, ShareInv, StateKept, NativeTypes
  <2>. QED
    BY <2>1, <2>2, <2>3 DEF NothingOutlivesCause, ExitClean, InhibitedBy
<1>3. EventSpec => []ExitClean
  BY EventsAreHub, ExitIsClean, PTL
<1>. QED
  BY <1>1, <1>2, <1>3, EventInvariant, PTL

\* The last command run for a type is its inhibit command exactly when some
\* application asks for the type, and none is left without its counterpart.
THEOREM CommandsAreFollowed == EventSpec => []CommandsFollow
<1>1. EventInv /\ NumberedShared /\ ExitClean => CommandsFollow
  <2>. SUFFICES ASSUME EventInv, NumberedShared, ExitClean, NEW j \in Users, NEW key \in Keys,
                       {key} \X {"inhibit", "uninhibit"} \subseteq Commands
                PROVE  /\ job.op = "idle" /\ Smooth =>
                            (lastRun[j][key] = "inhibit"
                                <=> Holds(key, {b \in Bits : Asked(b)}))
                       /\ job.op = "exited" /\ job.pend.inst # j => lastRun[j][key] # "inhibit"
    BY DEF CommandsFollow
  <2>1. j \in Ifaces /\ Kind[j] = "usercmd"
    BY DEF Users
  <2>2. lastRun[j][key] = "inhibit" <=> Holds(key, lastState[j])
    BY DEF EventInv, ToldInv, UserTold, CommandRan
  <2>3. lastState[j] = InhibitedBy(active, j)
    BY <2>1 DEF EventInv, ShareInv, StateKept, NativeTypes
  <2>4. ASSUME job.op = "idle", Smooth
        PROVE  lastState[j] = {b \in Bits : Asked(b)}
    <3>1. Tracked(j) /\ Supported(j) = Bits
      BY <2>1 DEF Tracked, Supported
    <3>. QED
      BY <2>1, <2>3, <2>4, <3>1 DEF NumberedShared, InhibitedBy
  <2>5. ASSUME job.op = "exited", job.pend.inst # j
        PROVE  ~Holds(key, lastState[j])
    <3>1. lastState[j] = {}
      BY <2>1, <2>5 DEF ExitClean
    <3>. QED
      BY <3>1 DEF Holds
  <2>. QED
    BY <2>2, <2>4, <2>5
<1>2. EventSpec => []ExitClean
  BY EventsAreHub, ExitIsClean, PTL
<1>3. EventSpec => []NumberedShared
  BY EventsAreHub, NumberedAreShared, PTL
<1>. QED
  BY <1>1, <1>2, <1>3, EventInvariant, PTL

\* A client that only listens to InhibitorAdded and InhibitorRemoved knows what
\* there is, and collects from it what the applications asked for.
THEOREM SessionIsFollowed == EventSpec => []SessionFollowed
<1>1. EventInv /\ NumberedShared => SessionFollowed
  <2>. SUFFICES ASSUME EventInv, NumberedShared, job.op = "idle", NEW j \in Served("gnomesm")
                PROVE  /\ followed[j] \subseteq GetInhibitors(j) \cup CookiesOf(cut, j)
                       /\ \A id \in DOMAIN active \ aborted :
                            id.inst = j => id.cookie \in followed[j]
                       /\ \A c \in followed[j] \ CookiesOf(cut, j) :
                            \E id \in DOMAIN active : InhibitFromCookie(j, c) = {id}
                       /\ Smooth =>
                            LET known == UNION {GetFlags(j, c) : c \in followed[j]}
                            IN  /\ known = InhibitedActions(j)
                                /\ known = us2gnomeType({b \in Bits : Asked(b)})
                                /\ \A flags \in SUBSET GnomeFlags :
                                        IsInhibited(j, flags) <=> known \cap flags # {}
    BY DEF SessionFollowed
  <2>1. j \in Ifaces /\ Kind[j] = "gnomesm"
    BY DEF Served
  <2>2. \A c \in followed[j] \ CookiesOf(cut, j) :
            \E id \in DOMAIN active : id.inst = j /\ id.cookie = c
    BY DEF EventInv, SessionTold, Ended
  <2>3. \A id \in DOMAIN active \ aborted : id.inst = j => id.cookie \in followed[j]
    BY DEF EventInv, SessionTold, Ended, Handling
  <2>4. followed[j] \subseteq GetInhibitors(j) \cup CookiesOf(cut, j)
    BY <2>2, CookiesOfFacts DEF GetInhibitors
  <2>5. ASSUME NEW id \in DOMAIN active, id.inst = j
        PROVE  InhibitFromCookie(j, id.cookie) = {id}
    BY <2>1, <2>5 DEF EventInv, SessionCookies, InhibitFromCookie
  <2>6. \A c \in followed[j] \ CookiesOf(cut, j) : \E id \in DOMAIN active : InhibitFromCookie(j, c) = {id}
    BY <2>2, <2>5
  <2>7. ASSUME Smooth
        PROVE  LET known == UNION {GetFlags(j, c) : c \in followed[j]}
               IN  /\ known = InhibitedActions(j)
                   /\ known = us2gnomeType({b \in Bits : Asked(b)})
                   /\ \A flags \in SUBSET GnomeFlags :
                           IsInhibited(j, flags) <=> known \cap flags # {}
    <3>. DEFINE known == UNION {GetFlags(j, c) : c \in followed[j]}
    <3>1. ASSUME NEW id \in DOMAIN active, id.inst = j
          PROVE  GetFlags(j, id.cookie) = us2gnomeType(active[id])
      BY <2>5, <3>1 DEF GetFlags
    <3>2. \A f : f \in known <=> \E id \in DOMAIN active : id.inst = j /\ f \in us2gnomeType(active[id])
      <4>1. aborted = {} /\ CookiesOf(cut, j) = {}
        BY <2>7 DEF Smooth, CookiesOf
      <4>. QED
        BY <2>2, <2>3, <3>1, <4>1
    <3>3. \A id \in DOMAIN active : active[id] \subseteq Bits
      BY DEF EventInv, HubInv, TypeInv, TypeOK, InhibitType
    <3>4. known = us2gnomeType(InhibitedBy(active, j))
      <4>1. \A f : f \in known <=> f \in us2gnomeType(InhibitedBy(active, j))
        BY <3>2, <3>3 DEF us2gnomeType, InhibitedBy, SUSPEND, SCREENSAVER
      <4>. QED
        BY <4>1
    <3>5. InhibitedBy(active, j) = {b \in Bits : Asked(b)}
      <4>1. Tracked(j) /\ Supported(j) = Bits
        BY <2>1 DEF Tracked, Supported
      <4>. QED
        BY <2>1, <2>7, <4>1 DEF NumberedShared, InhibitedBy
    <3>6. ASSUME NEW flags \in SUBSET GnomeFlags
          PROVE  IsInhibited(j, flags) <=> known \cap flags # {}
      BY <3>4 DEF IsInhibited, gnomeType2us, us2gnomeType, GnomeFlags, SUSPEND, SCREENSAVER
    <3>. QED
      BY <3>4, <3>5, <3>6 DEF InhibitedActions
  <2>. QED
    BY <2>3, <2>4, <2>6, <2>7
<1>2. EventSpec => []NumberedShared
  BY EventsAreHub, NumberedAreShared, PTL
<1>. QED
  BY <1>1, <1>2, EventInvariant, PTL

=============================================================================
