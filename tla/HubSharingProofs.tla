-------------------------- MODULE HubSharingProofs --------------------------
(***************************************************************************)
(* Proofs that the interfaces share one state, for every vector of         *)
(* interfaces, those included whose ids are names or all the same: nothing *)
(* is forwarded that no plan undoes, nothing forwarded outlives its cause, *)
(* what is held outside is known, and handleExit gives it back.            *)
(*                                                                         *)
(* Ids that come again make the argument: two plans may then list one id,  *)
(* and an entry may be gone before unInhibitCB comes to it.  So what an    *)
(* active id is there for is not one plan but some plan that has not       *)
(* passed it (Justified).                                                  *)
(***************************************************************************)
EXTENDS InhibitHubProofs

\* inhibitCB is running, for job.id.
Handling == job.op \in {"inhibit", "called", "activated"}

\* The plan of key has an entry for interface j.
ForwardedTo(key, j) ==
    key \in DOMAIN plan /\ \E n \in 1..Len(plan[key]) : plan[key][n].inst = j

\* What can be registered where.  (Outside login1 an id that comes again has the
\* type it had.)
ActiveTypes ==
    \A id \in DOMAIN active :
        /\ active[id] \subseteq Supported(id.inst)
        /\ id.own = "app" =>
            /\ NativeTypes(id.inst) # {}
            /\ id.cookie <= lastCookie[id.inst]
            /\ id.cookie = 0 => NativeTypes(id.inst) = {active[id]}
            /\ id \in DOMAIN asked /\ active[id] \subseteq asked[id]
            /\ Kind[id.inst] \notin FdKinds => asked[id] = active[id]

\* Applications ask for what is registered for them.
AskedActive == \A id \in DOMAIN asked : id \in DOMAIN active /\ id.own = "app"

\* What the handler in progress was called with was asked for.
JobAgrees ==
    /\ Handling => job.org = job.id.inst /\ job.id \in DOMAIN asked /\ job.type \subseteq asked[job.id]
    /\ job.op = "called" => Accepts(Target, job.type) /\ Target # job.org
    /\ job.op = "activated" /\ Tracked(Target) => active[job.pend] = Granted(Target, job.type)
    /\ job.op = "uninhibit" => job.id \notin DOMAIN active /\ job.org = job.id.inst
    /\ job.op = "idle" => job.pend = NoId

\* inhibitCB has yet to come to interface j.
Ahead(j) == \E m \in 1..Len(Order) : m >= job.k /\ Order[m] = j

\* How far inhibitCB has come, for an id that may have been forwarded before.
Progress ==
    Handling /\ job.id \notin aborted =>
        \A j \in Ifaces :
            j # job.org /\ Accepts(j, asked[job.id]) /\ ~(Ahead(j) /\ Accepts(j, job.type)) =>
                ForwardedTo(job.id, j)

\* What it did for all others.
ForwardedAll ==
    job.op \notin Ended =>
        \A key \in DOMAIN asked \ aborted, j \in Ifaces :
            ~(Handling /\ job.id = key) /\ j # key.inst /\ Accepts(j, asked[key]) =>
                ForwardedTo(key, j)

\* What unInhibitCB has passed is gone.
ReleasedGone ==
    \A key \in DOMAIN plan : \A n \in 1..Len(plan[key]) :
        Undone(key, n) => plan[key][n] \notin DOMAIN active

\* The inhibit key is, or was, a reason for the forward id.
Causes(key, id) ==
    /\ \E n \in 1..Len(plan[key]) : plan[key][n] = id /\ ~Undone(key, n)
    /\ key \in DOMAIN asked \ cut => active[id] \subseteq asked[key]

\* Every forward has a reason.
Justified ==
    \A id \in DOMAIN active :
        id.own # "app" =>
            \/ \E key \in DOMAIN plan : Causes(key, id)
            \/ job.op = "activated" /\ job.pend = id /\ active[id] \subseteq job.type
            \/ job.op \in {"exited", "terminated"} /\ job.pend = id

\* A type asked for by key is active for it on the numbering interface j.
CarriedTo(key, j, b) ==
    key \in DOMAIN plan /\ \E n \in 1..Len(plan[key]) :
        plan[key][n].inst = j /\ plan[key][n] \in DOMAIN active /\ b \in active[plan[key][n]]

\* Each type asked for is, as soon as inhibitCB has passed the interface.
Carried ==
    job.op \notin Ended =>
        \A key \in DOMAIN asked \ (aborted \cup cut), j \in Ifaces : \A b \in asked[key] :
            /\ Tracked(j) /\ j # key.inst /\ b \in Supported(j)
            /\ ~(Handling /\ job.id = key /\ Ahead(j) /\ b \in job.type)
            => CarriedTo(key, j, b)

\* What is held outside is active here.
HeldActive ==
    \A id \in held \ orphans :
        /\ id.inst \in Ifaces /\ HoldsOutside(id.inst) /\ id.own = "us"
        /\ \/ Kind[id.inst] = "cinnamon"
           \/ job.op \in {"called", "exited", "terminated"} /\ id = job.pend
           \/ id \in DOMAIN active

\* An interface that only listens was told its present state.
StateKept ==
    \A j \in Ifaces : NativeTypes(j) = {} => lastState[j] = InhibitedBy(active, j)

ShareInv ==
    /\ ActiveTypes /\ AskedActive /\ JobAgrees
    /\ Progress /\ ForwardedAll
    /\ ReleasedGone /\ Justified /\ Carried
    /\ HeldActive /\ StateKept

----------------------------------------------------------------------------
(* The operators that the invariant speaks of.                             *)

LEMMA KindFacts ==
    ASSUME NEW j \in Ifaces
    PROVE  /\ Kind[j] \in Kinds
           /\ Supported(j) \subseteq Bits
           /\ NativeTypes(j) = {} => Kind[j] \in {"sink", "usercmd"}
BY KindAssumption DEF Kinds, CookieKinds, NameKinds, EmptyKinds, FdKinds, Supported, Bits,
                      NativeTypes, InhibitType

LEMMA OwnOfForward ==
    ASSUME NEW j \in Ifaces, HoldsOutside(j), NEW n \in Apps \cup {NoName}, NEW id \in ForwardIds(j, n),
           TypeOK
    PROVE  id.own = "us"
<1>1. Kind[j] \notin EmptyKinds
  BY KindAssumption DEF Kinds, CookieKinds, NameKinds, EmptyKinds, FdKinds, HoldsOutside, Awaits
<1>2. \/ \E c \in {0} \cup Lowest(FreeFds(j)) :
            id = [inst |-> j, own |-> "us", name |-> NoName, cookie |-> c]
      \/ id = [inst |-> j, own |-> "us", name |-> n, cookie |-> 0]
      \/ id = [inst |-> j, own |-> "us", name |-> NoName, cookie |-> lastCookie[j] + 1]
  BY <1>1 DEF ForwardIds
<1>. QED
  BY <1>2

LEMMA GrantedFacts ==
    ASSUME NEW j \in Ifaces, NEW t \in InhibitType
    PROVE  Granted(j, t) \subseteq Supported(j) /\ Granted(j, t) \subseteq t
BY DEF Granted

\* A request of two types is taken where one of the types is.
LEMMA AcceptsEither ==
    ASSUME NEW j, NEW s, NEW t, Accepts(j, s \cup t)
    PROVE  Accepts(j, s) \/ Accepts(j, t)
BY DEF Accepts

\* What an interface registers for an application.
LEMMA NativeFacts ==
    ASSUME TypeOK, NEW i \in Ifaces, NEW n \in Apps, NEW t \in NativeTypes(i),
           NEW id \in NativeIds(i, n)
    PROVE  /\ id.cookie # 0 /\ Kind[i] \notin FdKinds => id.cookie = lastCookie[i] + 1
           /\ id.cookie = 0 => NativeTypes(i) = {t}
           /\ t \subseteq Supported(i)
<1>1. lastCookie[i] \in Nat /\ Kind[i] \in Kinds
  BY KindAssumption DEF TypeOK
<1>2. id.cookie # 0 /\ Kind[i] \notin FdKinds => id.cookie = lastCookie[i] + 1
  BY DEF NativeIds
<1>3. id.cookie = 0 => Kind[i] \in NameKinds \cup {"cinnamon", "gnomess"}
  BY <1>1 DEF NativeIds
<1>4. Kind[i] \in NameKinds \cup {"cinnamon", "gnomess"} => NativeTypes(i) = {t}
  BY DEF NativeTypes, NameKinds
<1>5. t \subseteq Supported(i)
  BY <1>1 DEF NativeTypes, Supported, InhibitType, Bits, SCREENSAVER, SUSPEND
<1>. QED
  BY <1>2, <1>3, <1>4, <1>5

\* inhibited() depends on the ids of the interface alone.
LEMMA SameInhibited ==
    ASSUME NEW act1, NEW act2, NEW j,
           \A id : id.inst = j => (id \in DOMAIN act1 <=> id \in DOMAIN act2),
           \A id \in DOMAIN act1 : id.inst = j => act1[id] = act2[id]
    PROVE  InhibitedBy(act1, j) = InhibitedBy(act2, j)
BY DEF InhibitedBy

LEMMA CallEventFacts ==
    ASSUME TypeOK, NEW act, NEW i \in Ifaces, NEW j \in Ifaces
    PROVE  CallEvent(act, i)[j] = IF j = i THEN InhibitedBy(act, i) ELSE lastState[j]
BY DEF CallEvent, TypeOK

\* Outside unInhibitCB the cause of a forward is active, unless its release was
\* cut short.
LEMMA CauseActive ==
    ASSUME HubInv, job.op \notin {"uninhibit", "terminated"}
    PROVE  /\ DOMAIN plan \subseteq DOMAIN active \cup cut
           /\ \A key \in DOMAIN plan \ cut : \A n \in 1..Len(plan[key]) :
                Tracked(plan[key][n].inst) => plan[key][n] \in DOMAIN active
BY DEF HubInv, ForwardTracksCause, Undone

\* The same, as an application asks for it.
LEMMA CauseAsked ==
    ASSUME HubInv, ActiveTypes, job.op \notin {"uninhibit", "terminated"}
    PROVE  DOMAIN plan \subseteq DOMAIN asked \cup cut
BY CauseActive DEF HubInv, PlanOK, ActiveTypes

\* unInhibit tells the interfaces that lose something.
LEMMA WithdrawnState ==
    ASSUME TypeOK, StateKept, NEW gone, Withdraw(gone)
    PROVE  StateKept'
<1>. SUFFICES ASSUME NEW j \in Ifaces, NativeTypes(j) = {}
              PROVE  lastState'[j] = InhibitedBy(active', j)
  BY DEF StateKept, NativeTypes, Supported
<1>1. lastState'[j] = IF \E id \in gone : id.inst = j THEN InhibitedBy(active', j) ELSE lastState[j]
  BY DEF Withdraw
<1>2. CASE \E id \in gone : id.inst = j
  BY <1>1, <1>2
<1>3. CASE ~ \E id \in gone : id.inst = j
  <2>1. DOMAIN active' = DOMAIN active \ gone /\ \A x \in DOMAIN active' : active'[x] = active[x]
    BY WithdrawFacts
  <2>2. InhibitedBy(active', j) = InhibitedBy(active, j)
    BY <1>3, <2>1, SameInhibited
  <2>. QED
    BY <1>1, <1>3, <2>2 DEF StateKept
<1>. QED
  BY <1>2, <1>3

----------------------------------------------------------------------------
(* Each action keeps the invariant.                                        *)

LEMMA ShareInit == Init => ShareInv
<1>. SUFFICES ASSUME Init PROVE ShareInv
  OBVIOUS
<1>1. DOMAIN active = {} /\ DOMAIN plan = {} /\ DOMAIN asked = {} /\ held = {} /\ job = Idle
  BY DEF Init, EmptyMap
<1>2. job.op = "idle" /\ job.pend = NoId
  BY <1>1 DEF Idle
<1>3. StateKept
  <2>1. \A j \in Ifaces : lastState[j] = {} /\ InhibitedBy(active, j) = {}
    BY <1>1 DEF Init, InhibitedBy
  <2>. QED
    BY <2>1 DEF StateKept
<1>. QED
  BY <1>1, <1>2, <1>3 DEF ShareInv, ActiveTypes, AskedActive, JobAgrees, Progress, ForwardedAll,
                          Handling, ReleasedGone, Justified, Carried, HeldActive

\* The facts that constants give do not change with a step.
LEMMA Rigid ==
    /\ \A j : /\ Supported(j)' = Supported(j) /\ NativeTypes(j)' = NativeTypes(j)
              /\ (HoldsOutside(j) <=> HoldsOutside(j)') /\ (Tracked(j) <=> Tracked(j)')
    /\ \A j, t : (Accepts(j, t) <=> Accepts(j, t)') /\ Granted(j, t)' = Granted(j, t)
BY DEF Supported, NativeTypes, HoldsOutside, Awaits, Tracked, Accepts, Granted

\* What was carried stays so while the entries of the plan stay active.
LEMMA CarriedStays ==
    ASSUME NEW key, NEW j, NEW b, CarriedTo(key, j, b), Tracked(j),
           key \in DOMAIN plan', plan'[key] = plan[key],
           \A n \in 1..Len(plan[key]) :
               Tracked(plan[key][n].inst) /\ plan[key][n] \in DOMAIN active =>
                   plan[key][n] \in DOMAIN active' /\ active'[plan[key][n]] = active[plan[key][n]]
    PROVE  CarriedTo(key, j, b)'
<1>1. PICK n \in 1..Len(plan[key]) :
        plan[key][n].inst = j /\ plan[key][n] \in DOMAIN active /\ b \in active[plan[key][n]]
  BY DEF CarriedTo
<1>2. plan[key][n] \in DOMAIN active' /\ b \in active'[plan[key][n]]
  BY <1>1
<1>. QED
  BY <1>1, <1>2 DEF CarriedTo

LEMMA ShareRegister ==
    ASSUME HubInv, HubInv', ShareInv, NEW i \in Ifaces, NEW n \in Apps, RegisterInhibit(i, n)
    PROVE  ShareInv'
<1>. USE DEF ShareInv
<1>1. PICK t \in NativeTypes(i), id \in NativeIds(i, n) :
        /\ active' = MapInsert(active, id, t)
        /\ asked' = MapUnite(asked, id, t)
        /\ lastCookie' = CookieAfter(id)
        /\ job' = [op |-> "inhibit", org |-> i, id |-> id, type |-> t,
                   name |-> n, k |-> 1, pend |-> NoId]
  BY DEF RegisterInhibit
<1>2. TypeOK /\ id \in Id /\ id.inst = i /\ id.own = "app" /\ id.cookie \in Nat
  BY NativeIdFacts DEF HubInv, TypeInv, Id
<1>3. \A j \in Ifaces : lastCookie'[j] >= lastCookie[j] /\ lastCookie[j] \in Nat
                                                        /\ lastCookie'[j] \in Nat
  BY <1>1, <1>2, CookieAfterFacts DEF TypeOK
<1>4. /\ job.op = "idle" /\ plan' = plan /\ held' = held /\ aborted' = aborted
      /\ orphans' = orphans /\ lastState' = lastState /\ cut' = cut
  BY DEF RegisterInhibit, helperVars
<1>5. id \in DOMAIN active /\ Kind[i] \notin FdKinds => active[id] = t
  <2>. SUFFICES ASSUME id \in DOMAIN active, Kind[i] \notin FdKinds PROVE active[id] = t
    OBVIOUS
  <2>1. id.cookie = 0
    BY <1>2, <1>3, NativeFacts DEF ActiveTypes
  <2>2. NativeTypes(i) = {t} /\ NativeTypes(i) = {active[id]}
    BY <1>2, <2>1, NativeFacts DEF ActiveTypes
  <2>. QED
    BY <2>2
<1>6. /\ DOMAIN active' = DOMAIN active \cup {id}
      /\ id \notin DOMAIN active => active'[id] = t
      /\ \A x \in DOMAIN active : active'[x] = active[x]
  BY <1>1 DEF MapInsert
<1>7. /\ DOMAIN asked' = DOMAIN asked \cup {id}
      /\ \A x \in DOMAIN asked \ {id} : asked'[x] = asked[x]
      /\ asked'[id] = (IF id \in DOMAIN asked THEN asked[id] ELSE {}) \cup t
  BY <1>1 DEF MapUnite
<1>8. job'.op = "inhibit" /\ job'.id = id /\ job'.org = i /\ job'.type = t /\ job'.k = 1
  BY <1>1
<1>9. id \in DOMAIN active <=> id \in DOMAIN asked
  BY <1>2 DEF ActiveTypes, AskedActive
<1>10. ActiveTypes'
  <2>. SUFFICES ASSUME NEW x \in DOMAIN active'
                PROVE  /\ active'[x] \subseteq Supported(x.inst)
                       /\ x.own = "app" =>
                            /\ NativeTypes(x.inst) # {}
                            /\ x.cookie <= lastCookie'[x.inst]
                            /\ x.cookie = 0 => NativeTypes(x.inst) = {active'[x]}
                            /\ x \in DOMAIN asked' /\ active'[x] \subseteq asked'[x]
                            /\ Kind[x.inst] \notin FdKinds => asked'[x] = active'[x]
    BY Rigid DEF ActiveTypes
  <2>1. CASE x = id
    <3>1. id.cookie <= lastCookie'[i]
      BY <1>1, <1>2, CookieAfterFacts DEF CookieAfter
    <3>2. CASE id \in DOMAIN active
      <4>1. active'[id] = active[id] /\ asked'[id] = asked[id] \cup t
        BY <1>6, <1>7, <1>9, <3>2
      <4>2. /\ active[id] \subseteq Supported(i) /\ active[id] \subseteq asked[id]
            /\ id.cookie = 0 => NativeTypes(i) = {active[id]}
            /\ Kind[i] \notin FdKinds => asked[id] = active[id] /\ active[id] = t
        BY <1>2, <1>5, <3>2 DEF ActiveTypes
      <4>. QED
        BY <1>2, <1>7, <2>1, <3>1, <4>1, <4>2
    <3>3. CASE id \notin DOMAIN active
      BY <1>2, <1>6, <1>7, <1>9, <2>1, <3>1, <3>3, NativeFacts
    <3>. QED
      BY <3>2, <3>3
  <2>2. CASE x # id
    <3>1. x \in DOMAIN active /\ active'[x] = active[x] /\ x \in Id
      BY <1>2, <1>6, <2>2 DEF TypeOK
    <3>2. x.inst \in Ifaces /\ x.cookie \in Nat
      BY <3>1 DEF Id
    <3>. QED
      BY <1>3, <1>7, <2>2, <3>1, <3>2 DEF ActiveTypes
  <2>. QED
    BY <2>1, <2>2
<1>11. AskedActive' /\ JobAgrees' /\ ReleasedGone'
  BY <1>2, <1>6, <1>7, <1>8 DEF AskedActive, JobAgrees, Handling, ReleasedGone, Undone
<1>12. \A j \in Ifaces : Ahead(j)'
  BY <1>8 DEF Ahead, Ifaces
<1>13. Progress'
  <2>. SUFFICES ASSUME id \notin aborted, NEW j \in Ifaces, j # i, Accepts(j, asked'[id]),
                       ~Accepts(j, t)
                PROVE  ForwardedTo(id, j)
    BY <1>4, <1>8, <1>12, Rigid DEF Progress, ForwardedTo
  <2>1. id \in DOMAIN asked
    BY <1>7
  <2>2. Accepts(j, asked[id])
    BY <1>7, <2>1, AcceptsEither
  <2>. QED
    BY <1>2, <1>4, <2>1, <2>2 DEF ForwardedAll, Handling, Ended
<1>14. ForwardedAll'
  BY <1>4, <1>7, <1>8, Rigid DEF ForwardedAll, Handling, Ended, ForwardedTo
<1>15. DOMAIN plan \subseteq DOMAIN asked \cup cut
  BY <1>4, CauseAsked
<1>16. Justified'
  <2>. SUFFICES ASSUME NEW x \in DOMAIN active', x.own # "app"
                PROVE  \E key \in DOMAIN plan' : Causes(key, x)'
    BY DEF Justified
  <2>1. x \in DOMAIN active /\ active'[x] = active[x]
    BY <1>2, <1>6
  <2>2. PICK key \in DOMAIN plan : Causes(key, x)
    BY <1>4, <2>1 DEF Justified
  <2>3. PICK m \in 1..Len(plan[key]) : plan[key][m] = x
    BY <2>2 DEF Causes
  <2>4. key \in DOMAIN asked' \ cut => active'[x] \subseteq asked'[key]
    BY <1>7, <1>15, <2>1, <2>2 DEF Causes
  <2>. QED
    BY <1>4, <1>8, <2>3, <2>4 DEF Causes, Undone
<1>17. Carried'
  <2>. SUFFICES ASSUME NEW key \in DOMAIN asked' \ (aborted \cup cut), NEW j \in Ifaces,
                       NEW b \in asked'[key], Tracked(j), j # key.inst, b \in Supported(j),
                       ~(id = key /\ b \in t)
                PROVE  CarriedTo(key, j, b)'
    BY <1>4, <1>8, <1>12, Rigid DEF Carried, Handling
  <2>1. key \in DOMAIN asked /\ b \in asked[key]
    BY <1>7
  <2>2. CarriedTo(key, j, b)
    BY <1>4, <2>1 DEF Carried, Handling, Ended
  <2>3. key \in DOMAIN plan
    BY <2>2 DEF CarriedTo
  <2>. QED
    BY <1>4, <1>6, <2>2, <2>3, CarriedStays
<1>18. HeldActive'
  BY <1>4, <1>6, Rigid DEF HeldActive
<1>19. StateKept'
  <2>. SUFFICES ASSUME NEW j \in Ifaces, NativeTypes(j) = {}
                PROVE  lastState'[j] = InhibitedBy(active', j)
    BY DEF StateKept, NativeTypes, Supported
  <2>1. j # i
    OBVIOUS
  <2>2. InhibitedBy(active', j) = InhibitedBy(active, j)
    BY <1>2, <1>6, <2>1, SameInhibited
  <2>. QED
    BY <1>4, <2>2 DEF StateKept
<1>. QED
  BY <1>10, <1>11, <1>13, <1>14, <1>16, <1>17, <1>18, <1>19

LEMMA ShareUnregister ==
    ASSUME HubInv, HubInv', ShareInv, NEW id \in DOMAIN active, RegisterUnInhibit(id)
    PROVE  ShareInv'
<1>. USE DEF ShareInv
<1>1. /\ DOMAIN active' = DOMAIN active \ {id} /\ \A x \in DOMAIN active' : active'[x] = active[x]
      /\ DOMAIN asked' = DOMAIN asked \ {id} /\ \A x \in DOMAIN asked' : asked'[x] = asked[x]
      /\ job.op = "idle" /\ plan' = plan /\ aborted' = aborted /\ orphans' = orphans
      /\ lastState' = lastState /\ lastCookie' = lastCookie /\ cut' = cut
      /\ id.own = "app" \/ (id.own = "us" /\ Kind[id.inst] \in {"sxmo", "cinnamon"})
  BY DEF RegisterUnInhibit, MapErase, helperVars
<1>2. /\ job'.op = "uninhibit" /\ job'.id = id /\ job'.type = active[id] /\ job'.k = 1
      /\ job'.org = id.inst
  BY DEF RegisterUnInhibit, Idle
<1>3. ActiveTypes' /\ AskedActive'
  BY <1>1, Rigid DEF ActiveTypes, AskedActive
<1>4. ForwardedAll'
  BY <1>1, <1>2, Rigid DEF ForwardedAll, Handling, Ended, ForwardedTo
<1>10. JobAgrees' /\ Progress'
  BY <1>1, <1>2 DEF JobAgrees, Handling, Progress
<1>5. ReleasedGone'
  BY <1>1, <1>2 DEF ReleasedGone, Undone
<1>6. Justified'
  <2>. SUFFICES ASSUME NEW x \in DOMAIN active', x.own # "app"
                PROVE  \E key \in DOMAIN plan' : Causes(key, x)'
    BY DEF Justified
  <2>1. x \in DOMAIN active /\ active'[x] = active[x]
    BY <1>1
  <2>2. PICK key \in DOMAIN plan : Causes(key, x)
    BY <1>1, <2>1 DEF Justified
  <2>3. PICK n \in 1..Len(plan[key]) : plan[key][n] = x
    BY <2>2 DEF Causes
  <2>4. ~Undone(key, n)'
    BY <1>2 DEF Undone
  <2>5. key \in DOMAIN asked' \ cut' => active'[x] \subseteq asked'[key]
    BY <1>1, <2>1, <2>2 DEF Causes
  <2>. QED
    BY <1>1, <2>2, <2>3, <2>4, <2>5 DEF Causes
<1>7. Carried'
  <2>. SUFFICES ASSUME NEW key \in DOMAIN asked' \ (aborted \cup cut), NEW j \in Ifaces,
                       NEW b \in asked'[key], Tracked(j), j # key.inst, b \in Supported(j)
                PROVE  CarriedTo(key, j, b)'
    BY <1>1, <1>2, Rigid DEF Carried, Handling
  <2>1. key \in DOMAIN asked /\ b \in asked[key]
    BY <1>1
  <2>2. CarriedTo(key, j, b)
    BY <1>1, <2>1 DEF Carried, Handling, Ended
  <2>3. key \in DOMAIN plan
    BY <2>2 DEF CarriedTo
  <2>4. id.own = "app" \/ ~Tracked(id.inst)
    BY <1>1 DEF Tracked
  <2>5. \A n \in 1..Len(plan[key]) : plan[key][n].own # "app"
    BY <2>3 DEF HubInv, PlanOK
  <2>6. \A n \in 1..Len(plan[key]) : Tracked(plan[key][n].inst) => plan[key][n] # id
    BY <2>4, <2>5
  <2>. QED
    BY <1>1, <2>2, <2>3, <2>6, CarriedStays
<1>8. HeldActive'
  <2>. SUFFICES ASSUME NEW x \in held' \ orphans'
                PROVE  /\ x.inst \in Ifaces /\ HoldsOutside(x.inst) /\ x.own = "us"
                       /\ Kind[x.inst] = "cinnamon" \/ x \in DOMAIN active'
    BY Rigid DEF HeldActive
  <2>1. x \in held \ orphans /\ (x = id => Kind[id.inst] # "sxmo")
    BY <1>1 DEF RegisterUnInhibit
  <2>. QED
    BY <1>1, <2>1 DEF HeldActive
<1>9. StateKept'
  <2>. SUFFICES ASSUME NEW j \in Ifaces, NativeTypes(j) = {}
                PROVE  lastState'[j] = InhibitedBy(active', j)
    BY DEF StateKept, NativeTypes, Supported
  <2>1. id.inst # j
    BY <1>1 DEF ActiveTypes, NativeTypes
  <2>2. InhibitedBy(active', j) = InhibitedBy(active, j)
    BY <1>1, <2>1, SameInhibited
  <2>. QED
    BY <1>1, <2>2 DEF StateKept
<1>. QED
  BY <1>3, <1>4, <1>5, <1>6, <1>7, <1>8, <1>9, <1>10

LEMMA ShareSkip ==
    ASSUME HubInv, HubInv', ShareInv, ForwardSkip
    PROVE  ShareInv'
<1>. USE DEF ShareInv
<1>1. /\ job.op = "inhibit" /\ job.k \in Nat \ {0} /\ job.k <= Len(Order)
      /\ active' = active /\ plan' = plan /\ held' = held /\ aborted' = aborted
      /\ orphans' = orphans /\ lastState' = lastState /\ lastCookie' = lastCookie
      /\ asked' = asked /\ cut' = cut
  BY DEF ForwardSkip, Forwarding, HubInv, TypeInv, JobOK, helperVars
<1>2. /\ job'.op = "inhibit" /\ job'.org = job.org /\ job'.id = job.id /\ job'.type = job.type
      /\ job'.k = job.k + 1 /\ job'.pend = job.pend
  BY <1>1 DEF ForwardSkip, HubInv, TypeInv, TypeOK, Job
<1>3. \A j \in Ifaces : Ahead(j) => Ahead(j)' \/ j = Target
  BY <1>1, <1>2, OrderLength DEF Ahead, Target
<1>4. job.org = job.id.inst /\ (Target = job.org \/ ~Accepts(Target, job.type))
  BY <1>1 DEF ForwardSkip, Wanted, JobAgrees, Handling
<1>5. Progress'
  BY <1>1, <1>2, <1>3, <1>4, Rigid DEF Progress, Handling, ForwardedTo
<1>6. Carried'
  <2>. SUFFICES ASSUME NEW key \in DOMAIN asked \ (aborted \cup cut), NEW j \in Ifaces,
                       NEW b \in asked[key], Tracked(j), j # key.inst, b \in Supported(j),
                       ~(job.id = key /\ Ahead(j)' /\ b \in job.type)
                PROVE  CarriedTo(key, j, b)
    BY <1>1, <1>2, Rigid DEF Carried, Handling, CarriedTo
  <2>2. ~(job.id = key /\ Ahead(j) /\ b \in job.type)
    BY <1>3, <1>4 DEF Accepts
  <2>. QED
    BY <1>1, <2>2 DEF Carried, Ended
<1>7. ActiveTypes' /\ AskedActive' /\ JobAgrees' /\ ReleasedGone'
  BY <1>1, <1>2, Rigid DEF ActiveTypes, AskedActive, JobAgrees, Handling, ReleasedGone, Undone
<1>8. ForwardedAll'
  BY <1>1, <1>2, Rigid DEF ForwardedAll, Handling, Ended, ForwardedTo
<1>9. Justified'
  BY <1>1, <1>2 DEF Justified, Causes, Undone
<1>10. HeldActive' /\ StateKept'
  BY <1>1, <1>2, Rigid DEF HeldActive, StateKept, InhibitedBy
<1>. QED
  BY <1>5, <1>6, <1>7, <1>8, <1>9, <1>10

LEMMA ShareCall ==
    ASSUME HubInv, HubInv', ShareInv, ForwardCall
    PROVE  ShareInv'
<1>. USE DEF ShareInv
<1>1. /\ job.op = "inhibit" /\ Wanted /\ Target \in Ifaces /\ job.name \in Apps \cup {NoName}
      /\ active' = active /\ plan' = plan /\ aborted' = aborted /\ asked' = asked
      /\ orphans' = orphans /\ lastState' = lastState /\ cut' = cut
  BY TargetFacts DEF ForwardCall, Forwarding, HubInv, TypeInv, JobOK, Target, TypeOK, Job,
                     helperVars
<1>2. PICK id \in ForwardIds(Target, job.name) :
        /\ job' = [job EXCEPT !.op = "called", !.pend = id]
        /\ lastCookie' = CookieAfter(id)
        /\ held' = IF Locks(id) THEN held \cup {id} ELSE held
  BY DEF ForwardCall
<1>3. /\ id \in Id /\ id.inst = Target
      /\ HoldsOutside(Target) => id.own = "us"
  BY <1>1, ForwardIdFacts, OwnOfForward DEF HubInv, TypeInv
<1>4. /\ job'.op = "called" /\ job'.org = job.org /\ job'.id = job.id /\ job'.type = job.type
      /\ job'.k = job.k /\ job'.pend = id
  BY <1>2 DEF HubInv, TypeInv, TypeOK, Job
<1>5. Target' = Target /\ \A j : Ahead(j)' <=> Ahead(j)
  BY <1>4 DEF Target, Ahead
<1>6. ActiveTypes' /\ AskedActive'
  <2>1. \A j \in Ifaces : lastCookie'[j] >= lastCookie[j] /\ lastCookie[j] \in Nat
                                                          /\ lastCookie'[j] \in Nat
    BY <1>2, <1>3, CookieAfterFacts DEF HubInv, TypeInv, TypeOK
  <2>2. \A x \in DOMAIN active : x.inst \in Ifaces /\ x.cookie \in Nat
    BY DEF HubInv, TypeInv, TypeOK, Id
  <2>3. \A x \in DOMAIN active :
            x.cookie <= lastCookie[x.inst] => x.cookie <= lastCookie'[x.inst]
    BY <2>1, <2>2
  <2>. QED
    BY <1>1, <2>3, Rigid DEF ActiveTypes, AskedActive
<1>7. JobAgrees'
  BY <1>1, <1>4, <1>5, Rigid DEF JobAgrees, Handling, Wanted
<1>8. Progress' /\ ForwardedAll' /\ ReleasedGone'
  BY <1>1, <1>4, <1>5, Rigid DEF Progress, Handling, ForwardedAll, Ended, ForwardedTo,
                                 ReleasedGone, Undone
<1>9. Justified' /\ Carried'
  BY <1>1, <1>4, <1>5, Rigid DEF Justified, Causes, Undone, Carried, Handling, Ended, CarriedTo
<1>10. HeldActive'
  BY <1>1, <1>2, <1>3, <1>4, Rigid DEF HeldActive, Locks
<1>11. StateKept'
  BY <1>1, Rigid DEF StateKept, InhibitedBy
<1>. QED
  BY <1>6, <1>7, <1>8, <1>9, <1>10, <1>11

LEMMA ShareActivate ==
    ASSUME HubInv, HubInv', ShareInv, ForwardActivate
    PROVE  ShareInv'
<1>. USE DEF ShareInv
<1>. DEFINE id == job.pend
            g  == Granted(Target, job.type)
<1>1. /\ job.op = "called" /\ active' = MapInsert(active, id, g)
      /\ plan' = plan /\ held' = held /\ aborted' = aborted /\ asked' = asked
      /\ orphans' = orphans /\ lastCookie' = lastCookie /\ cut' = cut
      /\ lastState' = CallEvent(active', Target)
  BY DEF ForwardActivate, helperVars
<1>2. /\ job'.op = "activated" /\ job'.org = job.org /\ job'.id = job.id /\ job'.type = job.type
      /\ job'.k = job.k /\ job'.pend = id /\ job.type \in InhibitType
  BY DEF ForwardActivate, HubInv, TypeInv, TypeOK, Job
<1>3. /\ Target \in Ifaces /\ id \in Id /\ id.inst = Target /\ id.own # "app"
      /\ Target' = Target /\ \A j : Ahead(j)' <=> Ahead(j)
  BY <1>1, <1>2, TargetFacts DEF HubInv, TypeInv, JobOK, Target, Ahead
<1>4. g \subseteq Supported(Target) /\ g \subseteq job.type
  BY <1>1, <1>2, <1>3, GrantedFacts
<1>5. Tracked(Target) => id \notin DOMAIN active
  BY <1>1 DEF HubInv, PendOK
<1>. HIDE DEF id, g
<1>6. /\ DOMAIN active' = DOMAIN active \cup {id}
      /\ \A x \in DOMAIN active : active'[x] = active[x]
      /\ id \notin DOMAIN active => active'[id] = g
  BY <1>1 DEF MapInsert
<1>7. ActiveTypes' /\ AskedActive'
  <2>1. ActiveTypes'
    <3>. SUFFICES ASSUME NEW x \in DOMAIN active'
                  PROVE  /\ active'[x] \subseteq Supported(x.inst)
                         /\ x.own = "app" =>
                              /\ NativeTypes(x.inst) # {}
                              /\ x.cookie <= lastCookie[x.inst]
                              /\ x.cookie = 0 => NativeTypes(x.inst) = {active'[x]}
                              /\ x \in DOMAIN asked /\ active'[x] \subseteq asked[x]
                              /\ Kind[x.inst] \notin FdKinds => asked[x] = active'[x]
      BY <1>1, Rigid DEF ActiveTypes
    <3>1. CASE x \in DOMAIN active
      BY <1>6, <3>1 DEF ActiveTypes
    <3>2. CASE x \notin DOMAIN active
      BY <1>3, <1>4, <1>6, <3>2
    <3>. QED
      BY <3>1, <3>2
  <2>2. AskedActive'
    BY <1>1, <1>6 DEF AskedActive
  <2>. QED
    BY <2>1, <2>2
<1>8. JobAgrees'
  <2>1. Tracked(Target) => active'[id] = g
    BY <1>5, <1>6
  <2>2. (Tracked(Target) <=> Tracked(Target)') /\ Granted(Target, job.type)' = g
    BY <1>2, <1>3 DEF Tracked, Granted, Supported, g
  <2>. QED
    BY <1>1, <1>2, <1>3, <1>6, <2>1, <2>2 DEF JobAgrees, Handling
<1>9. Progress' /\ ForwardedAll'
  BY <1>1, <1>2, <1>3, Rigid DEF Progress, ForwardedAll, Handling, Ended, ForwardedTo
<1>10. Carried'
  <2>. SUFFICES ASSUME NEW key \in DOMAIN asked \ (aborted \cup cut), NEW j \in Ifaces,
                       NEW b \in asked[key], Tracked(j), j # key.inst, b \in Supported(j),
                       ~(job.id = key /\ Ahead(j) /\ b \in job.type)
                PROVE  CarriedTo(key, j, b)'
    BY <1>1, <1>2, <1>3, Rigid DEF Carried, Handling
  <2>1. CarriedTo(key, j, b)
    BY <1>1 DEF Carried, Ended
  <2>2. key \in DOMAIN plan
    BY <2>1 DEF CarriedTo
  <2>. QED
    BY <1>1, <1>6, <2>1, <2>2, CarriedStays
<1>11. ReleasedGone'
  BY <1>2 DEF ReleasedGone, Undone
<1>13. Justified'
  <2>. SUFFICES ASSUME NEW x \in DOMAIN active', x.own # "app"
                PROVE  \/ \E key \in DOMAIN plan' : Causes(key, x)'
                       \/ id = x /\ active'[x] \subseteq job.type
    BY <1>2 DEF Justified
  <2>1. CASE x \in DOMAIN active
    <3>1. PICK key \in DOMAIN plan : Causes(key, x)
      BY <1>1, <2>1 DEF Justified
    <3>2. active'[x] = active[x]
      BY <1>6, <2>1
    <3>. QED
      BY <1>1, <1>2, <3>1, <3>2 DEF Causes, Undone
  <2>2. CASE x \notin DOMAIN active
    BY <1>4, <1>6, <2>2
  <2>. QED
    BY <2>1, <2>2
<1>15. HeldActive'
  BY <1>1, <1>2, <1>6, Rigid DEF HeldActive, id
<1>16. StateKept'
  <2>. SUFFICES ASSUME NEW j \in Ifaces, NativeTypes(j) = {}
                PROVE  lastState'[j] = InhibitedBy(active', j)
    BY DEF StateKept, NativeTypes, Supported
  <2>1. lastState'[j] = IF j = Target THEN InhibitedBy(active', Target) ELSE lastState[j]
    BY <1>1, <1>3, CallEventFacts DEF HubInv, TypeInv
  <2>2. j # Target => InhibitedBy(active', j) = InhibitedBy(active, j)
    BY <1>3, <1>6, SameInhibited
  <2>. QED
    BY <2>1, <2>2 DEF StateKept
<1>. QED
  BY <1>7, <1>8, <1>9, <1>10, <1>11, <1>13, <1>15, <1>16

LEMMA SharePlan ==
    ASSUME HubInv, HubInv', ShareInv, ForwardPlan
    PROVE  ShareInv'
<1>. USE DEF ShareInv
<1>1. /\ job.op = "activated" /\ active' = active /\ held' = held /\ aborted' = aborted
      /\ orphans' = orphans /\ lastCookie' = lastCookie /\ lastState' = lastState
      /\ asked' = asked /\ cut' = cut /\ plan' = MapPush(plan, job.id, job.pend)
  BY DEF ForwardPlan, helperVars
<1>2. /\ job'.op = "inhibit" /\ job'.org = job.org /\ job'.id = job.id /\ job'.type = job.type
      /\ job'.k = job.k + 1
  BY DEF ForwardPlan, HubInv, TypeInv, TypeOK, Job
<1>3. /\ job.id \in Id /\ job.id \in DOMAIN asked /\ job.pend \in Id /\ job.pend \in DOMAIN active
      /\ job.pend.inst = Target /\ job.k \in Nat \ {0} /\ job.k <= Len(Order)
      /\ job.type \subseteq asked[job.id]
  BY <1>1 DEF HubInv, TypeInv, JobOK, TypeOK, JobAgrees, Handling
<1>. DEFINE last == Len(plan'[job.id])
<1>4. /\ DOMAIN plan' = DOMAIN plan \cup {job.id} /\ last \in Nat /\ last >= 1
      /\ plan'[job.id][last] = job.pend
      /\ \A key \in DOMAIN plan' : \A n \in 1..Len(plan'[key]) :
            \/ key = job.id /\ n = last
            \/ /\ key \in DOMAIN plan /\ n \in 1..Len(plan[key])
               /\ plan'[key][n] = plan[key][n]
      /\ \A key \in DOMAIN plan : \A n \in 1..Len(plan[key]) :
            n \in 1..Len(plan'[key]) /\ plan'[key][n] = plan[key][n]
  BY <1>1, <1>3, PushedPlan DEF HubInv, TypeInv
<1>5. last \in 1..Len(plan'[job.id])
  BY <1>4
<1>. HIDE DEF last
<1>6. ASSUME NEW key, NEW j, ForwardedTo(key, j) PROVE ForwardedTo(key, j)'
  <2>1. key \in DOMAIN plan
    BY <1>6 DEF ForwardedTo
  <2>2. PICK n \in 1..Len(plan[key]) : plan[key][n].inst = j
    BY <1>6 DEF ForwardedTo
  <2>3. n \in 1..Len(plan'[key]) /\ plan'[key][n].inst = j /\ key \in DOMAIN plan'
    BY <1>4, <2>1, <2>2
  <2>. QED
    BY <2>3 DEF ForwardedTo
<1>7. \A j : j = Target => ForwardedTo(job.id, j)'
  BY <1>2, <1>3, <1>4, <1>5 DEF ForwardedTo
<1>16. \A j \in Ifaces : Ahead(j) => Ahead(j)' \/ j = Target
  BY <1>2, <1>3, OrderLength DEF Ahead, Target
<1>8. ActiveTypes' /\ AskedActive' /\ JobAgrees'
  BY <1>1, <1>2, Rigid DEF ActiveTypes, AskedActive, JobAgrees, Handling
<1>9. Progress'
  <2>. SUFFICES ASSUME job.id \notin aborted, NEW j \in Ifaces, j # job.org,
                       Accepts(j, asked[job.id]), ~(Ahead(j)' /\ Accepts(j, job.type))
                PROVE  ForwardedTo(job.id, j)'
    BY <1>1, <1>2, Rigid DEF Progress
  <2>1. CASE j = Target
    BY <1>7, <2>1
  <2>2. CASE j # Target
    <3>1. ForwardedTo(job.id, j)
      BY <1>1, <1>16, <2>2 DEF Progress, Handling
    <3>2. PICK key : key = job.id
      OBVIOUS
    <3>3. ForwardedTo(key, j)'
      BY <1>6, <3>1, <3>2
    <3>. QED
      BY <1>2, <3>2, <3>3
  <2>. QED
    BY <2>1, <2>2
<1>10. ForwardedAll'
  BY <1>1, <1>2, <1>6, Rigid DEF ForwardedAll, Handling, Ended
<1>11. ReleasedGone'
  BY <1>2 DEF ReleasedGone, Undone
<1>12. Justified'
  <2>. SUFFICES ASSUME NEW x \in DOMAIN active, x.own # "app"
                PROVE  \E key \in DOMAIN plan' : Causes(key, x)'
    BY <1>1 DEF Justified
  <2>1. CASE \E key \in DOMAIN plan : Causes(key, x)
    BY <1>1, <1>2, <1>4, <2>1 DEF Causes, Undone
  <2>2. CASE job.pend = x /\ active[x] \subseteq job.type
    <3>1. active'[x] \subseteq asked'[job.id]
      BY <1>1, <1>3, <2>2
    <3>2. Causes(job.id, x)'
      BY <1>1, <1>2, <1>3, <1>4, <1>5, <2>2, <3>1 DEF Causes, Undone
    <3>. QED
      BY <1>2, <1>4, <3>2
  <2>. QED
    BY <1>1, <2>1, <2>2 DEF Justified
<1>13. Carried'
  <2>. SUFFICES ASSUME NEW key \in DOMAIN asked \ (aborted \cup cut), NEW j \in Ifaces,
                       NEW b \in asked[key], Tracked(j), j # key.inst, b \in Supported(j),
                       ~(job.id = key /\ Ahead(j)' /\ b \in job.type)
                PROVE  CarriedTo(key, j, b)'
    BY <1>1, <1>2, Rigid DEF Carried, Handling
  <2>1. CASE job.id = key /\ j = Target /\ b \in job.type
    <3>1. active[job.pend] = Granted(Target, job.type)
      BY <1>1, <2>1 DEF JobAgrees
    <3>2. b \in active'[job.pend]
      BY <1>1, <2>1, <3>1 DEF Granted
    <3>. QED
      BY <1>1, <1>3, <1>4, <1>5, <2>1, <3>2 DEF CarriedTo
  <2>2. CASE ~(job.id = key /\ j = Target /\ b \in job.type)
    <3>1. CarriedTo(key, j, b)
      BY <1>1, <1>16, <2>2 DEF Carried, Ended
    <3>2. PICK n \in 1..Len(plan[key]) :
            plan[key][n].inst = j /\ plan[key][n] \in DOMAIN active /\ b \in active[plan[key][n]]
      BY <3>1 DEF CarriedTo
    <3>3. key \in DOMAIN plan' /\ n \in 1..Len(plan'[key]) /\ plan'[key][n] = plan[key][n]
      BY <1>4, <3>1 DEF CarriedTo
    <3>. QED
      BY <1>1, <3>2, <3>3 DEF CarriedTo
  <2>. QED
    BY <2>1, <2>2
<1>14. HeldActive'
  BY <1>1, <1>2, Rigid DEF HeldActive
<1>15. StateKept'
  BY <1>1, Rigid DEF StateKept, InhibitedBy
<1>. QED
  BY <1>8, <1>9, <1>10, <1>11, <1>12, <1>13, <1>14, <1>15

\* Steps of inhibitCB that neither activate nor plan anything.
LEMMA ShareQuiet ==
    ASSUME HubInv, HubInv', ShareInv, job.op = "inhibit", job'.op \in {"inhibit", "idle", "undefined"},
           active' = active, plan' = plan, asked' = asked, cut' = cut,
           \A j \in Ifaces : lastCookie'[j] >= lastCookie[j]
    PROVE  ActiveTypes' /\ AskedActive' /\ ReleasedGone' /\ Justified'
<1>. USE DEF ShareInv
<1>1. ActiveTypes' /\ AskedActive'
  <2>1. \A j \in Ifaces : lastCookie[j] \in Nat /\ lastCookie'[j] \in Nat
    BY DEF HubInv, TypeInv, TypeOK
  <2>2. \A x \in DOMAIN active : x.inst \in Ifaces /\ x.cookie \in Nat
    BY DEF HubInv, TypeInv, TypeOK, Id
  <2>3. \A x \in DOMAIN active :
            x.cookie <= lastCookie[x.inst] => x.cookie <= lastCookie'[x.inst]
    BY <2>1, <2>2
  <2>. QED
    BY <2>3, Rigid DEF ActiveTypes, AskedActive
<1>2. Justified'
  BY DEF Justified, Causes, Undone
<1>3. ReleasedGone'
  BY DEF ReleasedGone, Undone
<1>. QED
  BY <1>1, <1>2, <1>3

\* The forward of job.id ends early: aborted excepts it.
LEMMA ShareAbort ==
    ASSUME HubInv, HubInv', ShareInv, job.op = "inhibit", job'.op \in {"inhibit", "idle", "undefined"},
           active' = active, plan' = plan, asked' = asked, cut' = cut, lastState' = lastState,
           aborted' = aborted \cup {job.id}, held' \ orphans' \subseteq held \ orphans,
           job'.op = "inhibit" => job'.id = job.id
    PROVE  Progress' /\ ForwardedAll' /\ Carried' /\ HeldActive' /\ StateKept'
<1>. USE DEF ShareInv
<1>1. Progress'
  BY DEF Progress, Handling
<1>2. ForwardedAll'
  <2>. SUFFICES ASSUME NEW key \in DOMAIN asked \ aborted, key # job.id, NEW j \in Ifaces,
                       j # key.inst, Accepts(j, asked[key])
                PROVE  ForwardedTo(key, j)
    BY Rigid DEF ForwardedAll, ForwardedTo
  <2>. QED
    BY DEF ForwardedAll, Ended
<1>3. Carried'
  <2>. SUFFICES ASSUME NEW key \in DOMAIN asked \ (aborted \cup cut), key # job.id, NEW j \in Ifaces,
                       NEW b \in asked[key], Tracked(j), j # key.inst, b \in Supported(j)
                PROVE  CarriedTo(key, j, b)
    BY Rigid DEF Carried, CarriedTo
  <2>. QED
    BY DEF Carried, Ended
<1>4. HeldActive'
  BY Rigid DEF HeldActive
<1>5. StateKept'
  BY Rigid DEF StateKept, InhibitedBy
<1>. QED
  BY <1>1, <1>2, <1>3, <1>4, <1>5

LEMMA ShareNoReply ==
    ASSUME HubInv, HubInv', ShareInv, ForwardNoReply
    PROVE  ShareInv'
<1>. USE DEF ShareInv
<1>1. /\ job.op = "inhibit" /\ active' = active /\ plan' = plan /\ lastState' = lastState
      /\ aborted' = aborted \cup {job.id} /\ held' \ orphans' \subseteq held \ orphans
      /\ asked' = asked /\ cut' = cut
  BY DEF ForwardNoReply, Forwarding, helperVars
<1>2. job'.op = "inhibit" /\ job'.org = job.org /\ job'.id = job.id /\ job'.type = job.type
  BY <1>1 DEF ForwardNoReply, HubInv, TypeInv, TypeOK, Job
<1>3. \A id \in ForwardIds(Target, job.name) : id \in Id
  BY TargetFacts, ForwardIdFacts
     DEF ForwardNoReply, Forwarding, HubInv, TypeInv, JobOK, Target, TypeOK, Job
<1>4. \A j \in Ifaces : lastCookie'[j] >= lastCookie[j]
  <2>1. \A j \in Ifaces : lastCookie[j] \in Nat
    BY DEF HubInv, TypeInv, TypeOK
  <2>. QED
    BY <1>3, <2>1, CookieAfterFacts DEF ForwardNoReply, HubInv, TypeInv
<1>5. ActiveTypes' /\ AskedActive' /\ ReleasedGone' /\ Justified'
  BY <1>1, <1>2, <1>4, ShareQuiet
<1>6. JobAgrees'
  BY <1>1, <1>2 DEF JobAgrees, Handling
<1>7. Progress' /\ ForwardedAll' /\ Carried' /\ HeldActive' /\ StateKept'
  BY <1>1, <1>2, ShareAbort
<1>. QED
  BY <1>5, <1>6, <1>7

LEMMA ShareThrow ==
    ASSUME HubInv, HubInv', ShareInv, ForwardThrow
    PROVE  ShareInv'
<1>. USE DEF ShareInv
<1>1. /\ job.op = "inhibit" /\ active' = active /\ plan' = plan /\ lastState' = lastState
      /\ aborted' = aborted \cup {job.id} /\ held' = held /\ orphans' = orphans
      /\ lastCookie' = lastCookie /\ asked' = asked /\ cut' = cut
      /\ job' = Thrown
  BY DEF ForwardThrow, Forwarding, helperVars
<1>2. job'.op \in {"idle", "undefined"} /\ job'.pend = NoId
  BY <1>1, ThrownFacts
<1>3. \A j \in Ifaces : lastCookie'[j] >= lastCookie[j]
  BY <1>1 DEF HubInv, TypeInv, TypeOK
<1>4. ActiveTypes' /\ AskedActive' /\ ReleasedGone' /\ Justified'
  BY <1>1, <1>2, <1>3, ShareQuiet
<1>5. JobAgrees'
  BY <1>2 DEF JobAgrees, Handling
<1>6. Progress' /\ ForwardedAll' /\ Carried' /\ HeldActive' /\ StateKept'
  BY <1>1, <1>2, ShareAbort
<1>. QED
  BY <1>4, <1>5, <1>6

\* callEvent of an interface when nothing was registered since.
LEMMA EventKeepsState ==
    ASSUME TypeOK, StateKept, active' = active, NEW i \in Ifaces, lastState' = CallEvent(active, i)
    PROVE  StateKept'
<1>. SUFFICES ASSUME NEW j \in Ifaces, NativeTypes(j) = {}
              PROVE  lastState'[j] = InhibitedBy(active, j)
  BY DEF StateKept, NativeTypes, Supported, InhibitedBy
<1>1. lastState'[j] = IF j = i THEN InhibitedBy(active, i) ELSE lastState[j]
  BY CallEventFacts
<1>. QED
  BY <1>1 DEF StateKept

LEMMA ShareFinish ==
    ASSUME HubInv, HubInv', ShareInv, FinishInhibit
    PROVE  ShareInv'
<1>. USE DEF ShareInv
<1>1. /\ job.op = "inhibit" /\ active' = active /\ plan' = plan /\ aborted' = aborted
      /\ held' = held /\ orphans' = orphans /\ lastCookie' = lastCookie
      /\ asked' = asked /\ cut' = cut
      /\ lastState' = CallEvent(active, job.org)
      /\ job'.op = "idle" /\ job'.pend = NoId
  BY DEF FinishInhibit, Idle, helperVars
<1>2. job.org \in Ifaces /\ job.k > Len(Order) /\ job.k \in Nat /\ job.org = job.id.inst
  BY <1>1 DEF FinishInhibit, HubInv, TypeInv, JobOK, JobAgrees, Handling
<1>3. \A j : ~Ahead(j)
  BY <1>2, OrderLength DEF Ahead
<1>4. ActiveTypes' /\ AskedActive' /\ ReleasedGone' /\ Justified'
  <2>1. \A j \in Ifaces : lastCookie'[j] >= lastCookie[j]
    BY <1>1 DEF HubInv, TypeInv, TypeOK
  <2>. QED
    BY <1>1, <2>1, ShareQuiet
<1>5. JobAgrees' /\ Progress'
  BY <1>1 DEF JobAgrees, Progress, Handling
<1>6. ForwardedAll'
  <2>. SUFFICES ASSUME NEW key \in DOMAIN asked \ aborted, NEW j \in Ifaces,
                       j # key.inst, Accepts(j, asked[key])
                PROVE  ForwardedTo(key, j)
    BY <1>1, Rigid DEF ForwardedAll, ForwardedTo
  <2>1. CASE key = job.id
    BY <1>1, <1>2, <1>3, <2>1 DEF Progress, Handling
  <2>2. CASE key # job.id
    BY <1>1, <2>2 DEF ForwardedAll, Ended
  <2>. QED
    BY <2>1, <2>2
<1>9. Carried'
  <2>. SUFFICES ASSUME NEW key \in DOMAIN asked \ (aborted \cup cut), NEW j \in Ifaces,
                       NEW b \in asked[key], Tracked(j), j # key.inst, b \in Supported(j)
                PROVE  CarriedTo(key, j, b)
    BY <1>1, Rigid DEF Carried, CarriedTo
  <2>. QED
    BY <1>1, <1>3 DEF Carried, Ended
<1>7. HeldActive'
  BY <1>1, Rigid DEF HeldActive
<1>8. StateKept'
  BY <1>1, <1>2, EventKeepsState DEF HubInv, TypeInv
<1>. QED
  BY <1>4, <1>5, <1>6, <1>7, <1>8, <1>9

LEMMA ShareRelease ==
    ASSUME HubInv, HubInv', ShareInv, ReleaseStep
    PROVE  ShareInv'
<1>. USE DEF ShareInv
<1>. DEFINE r == plan[job.id][job.k]
            gone == {r} \cap DOMAIN active
<1>1. /\ job.op = "uninhibit" /\ job.id \in DOMAIN plan /\ job.k \in 1..Len(plan[job.id])
      /\ plan' = plan /\ aborted' = aborted /\ orphans' = orphans /\ lastCookie' = lastCookie
      /\ asked' = asked /\ cut' = cut
  BY DEF ReleaseStep, Releasing, HubInv, TypeInv, JobOK, helperVars
<1>2. r \in Id /\ r.inst \in Ifaces /\ r.own # "app"
  BY <1>1, EntryType DEF HubInv, TypeInv, PlanOK
<1>15. Withdraw(gone)
  BY DEF ReleaseStep
<1>. HIDE DEF gone
<1>16. /\ DOMAIN active' = DOMAIN active \ gone /\ \A x \in DOMAIN active' : active'[x] = active[x]
       /\ held' = held \ gone
  BY <1>15, WithdrawFacts
<1>. USE DEF gone
<1>3. /\ DOMAIN active' = DOMAIN active \ {r} /\ \A x \in DOMAIN active' : active'[x] = active[x]
      /\ held' = held \ gone
  BY <1>16
<1>4. /\ job'.op = "uninhibit" /\ job'.id = job.id /\ job'.type = job.type
      /\ job'.org = job.org /\ job'.k = job.k + 1 /\ job.k \in Nat
  BY DEF ReleaseStep, Releasing, HubInv, TypeInv, TypeOK, Job
<1>5. \A key \in DOMAIN plan : \A n \in 1..Len(plan[key]) :
        Undone(key, n)' => Undone(key, n) \/ (key = job.id /\ n = job.k)
  BY <1>1, <1>4 DEF Undone
<1>6. job.id \notin DOMAIN asked
  BY <1>1 DEF JobAgrees, AskedActive
<1>7. ActiveTypes' /\ AskedActive'
  BY <1>1, <1>2, <1>3, Rigid DEF ActiveTypes, AskedActive
<1>8. JobAgrees' /\ Progress'
  BY <1>1, <1>3, <1>4 DEF JobAgrees, Progress, Handling
<1>9. ForwardedAll'
  BY <1>1, <1>4, Rigid DEF ForwardedAll, Handling, Ended, ForwardedTo
<1>10. ReleasedGone'
  BY <1>1, <1>3, <1>5 DEF ReleasedGone, r
<1>11. Justified'
  <2>. SUFFICES ASSUME NEW x \in DOMAIN active', x.own # "app"
                PROVE  \E key \in DOMAIN plan' : Causes(key, x)'
    BY DEF Justified
  <2>1. x \in DOMAIN active /\ active'[x] = active[x] /\ x # r
    BY <1>3
  <2>2. PICK key \in DOMAIN plan : Causes(key, x)
    BY <1>1, <2>1 DEF Justified
  <2>3. PICK n \in 1..Len(plan[key]) : plan[key][n] = x /\ ~Undone(key, n)
    BY <2>2 DEF Causes
  <2>4. ~Undone(key, n)'
    BY <1>5, <2>1, <2>3 DEF r
  <2>. QED
    BY <1>1, <1>3, <1>4, <2>1, <2>2, <2>3, <2>4 DEF Causes
<1>12. Carried'
  <2>. SUFFICES ASSUME NEW key \in DOMAIN asked \ (aborted \cup cut), NEW j \in Ifaces,
                       NEW b \in asked[key], Tracked(j), j # key.inst, b \in Supported(j)
                PROVE  CarriedTo(key, j, b)'
    BY <1>1, <1>4, Rigid DEF Carried, Handling
  <2>1. CarriedTo(key, j, b) /\ key # job.id
    BY <1>1, <1>6 DEF Carried, Handling, Ended
  <2>2. key \in DOMAIN plan
    BY <2>1 DEF CarriedTo
  <2>3. \A n \in 1..Len(plan[key]) : Tracked(plan[key][n].inst) => plan[key][n] # r
    BY <1>1, <2>1, <2>2 DEF HubInv, PlanDisjoint
  <2>. QED
    BY <1>1, <1>3, <2>1, <2>2, <2>3, CarriedStays
<1>13. HeldActive'
  BY <1>1, <1>3, <1>4, Rigid DEF HeldActive
<1>14. StateKept'
  BY <1>15, WithdrawnState DEF HubInv, TypeInv
<1>. QED
  BY <1>7, <1>8, <1>9, <1>10, <1>11, <1>12, <1>13, <1>14

\* The release of job.id ends early: cut excepts it.
LEMMA ShareReleaseThrow ==
    ASSUME HubInv, HubInv', ShareInv, ReleaseThrow
    PROVE  ShareInv'
<1>. USE DEF ShareInv
<1>1. /\ job.op = "uninhibit" /\ active' = active /\ plan' = plan /\ lastState' = lastState
      /\ aborted' = aborted /\ held' = held /\ orphans' = orphans /\ lastCookie' = lastCookie
      /\ asked' = asked /\ cut' = cut \cup {job.id} /\ job' = Thrown
  BY DEF ReleaseThrow, Releasing
<1>2. job'.op \in {"idle", "undefined"} /\ job'.pend = NoId
  BY <1>1, ThrownFacts
<1>3. ActiveTypes' /\ AskedActive' /\ StateKept' /\ HeldActive'
  BY <1>1, <1>2, Rigid DEF ActiveTypes, AskedActive, StateKept, InhibitedBy, HeldActive
<1>4. JobAgrees' /\ Progress' /\ ReleasedGone'
  BY <1>2 DEF JobAgrees, Handling, Progress, ReleasedGone, Undone
<1>5. ForwardedAll'
  BY <1>1, <1>2, Rigid DEF ForwardedAll, Handling, Ended, ForwardedTo
<1>6. Carried'
  BY <1>1, <1>2, Rigid DEF Carried, Handling, Ended, CarriedTo
<1>7. Justified'
  BY <1>1, <1>2 DEF Justified, Causes, Undone
<1>. QED
  BY <1>3, <1>4, <1>5, <1>6, <1>7

LEMMA ShareFinishRelease ==
    ASSUME HubInv, HubInv', ShareInv, FinishUnInhibit
    PROVE  ShareInv'
<1>. USE DEF ShareInv
<1>1. /\ job.op = "uninhibit" /\ active' = active /\ held' = held /\ orphans' = orphans
      /\ lastCookie' = lastCookie /\ aborted' = aborted \ {job.id}
      /\ asked' = asked /\ cut' = cut
      /\ lastState' = CallEvent(active, job.org)
      /\ DOMAIN plan' = DOMAIN plan \ {job.id}
      /\ \A key \in DOMAIN plan' : plan'[key] = plan[key]
      /\ ~Releasing
      /\ job'.op = "idle" /\ job'.pend = NoId
  BY DEF FinishUnInhibit, MapErase, Idle, helperVars
<1>2. job.org \in Ifaces /\ job.id \notin DOMAIN asked /\ job.k \in Nat
  BY <1>1 DEF HubInv, TypeInv, JobOK, JobAgrees, AskedActive
<1>4. ActiveTypes' /\ AskedActive' /\ JobAgrees' /\ Progress' /\ ReleasedGone'
  BY <1>1, Rigid DEF ActiveTypes, AskedActive, JobAgrees, Progress, Handling, ReleasedGone, Undone
<1>5. ForwardedAll'
  <2>. SUFFICES ASSUME NEW key \in DOMAIN asked \ aborted', NEW j \in Ifaces,
                       j # key.inst, Accepts(j, asked[key])
                PROVE  ForwardedTo(key, j)'
    BY <1>1, Rigid DEF ForwardedAll
  <2>1. key # job.id /\ key \in DOMAIN asked \ aborted
    BY <1>1, <1>2
  <2>2. ForwardedTo(key, j)
    BY <1>1, <2>1 DEF ForwardedAll, Handling, Ended
  <2>. QED
    BY <1>1, <2>1, <2>2 DEF ForwardedTo
<1>6. Justified'
  <2>. SUFFICES ASSUME NEW x \in DOMAIN active, x.own # "app"
                PROVE  \E key \in DOMAIN plan' : Causes(key, x)'
    BY <1>1 DEF Justified
  <2>1. PICK key \in DOMAIN plan : Causes(key, x)
    BY <1>1 DEF Justified
  <2>2. PICK n \in 1..Len(plan[key]) : plan[key][n] = x /\ ~Undone(key, n)
    BY <2>1 DEF Causes
  <2>3. key # job.id
    <3>. SUFFICES ASSUME key = job.id PROVE FALSE
      OBVIOUS
    <3>1. Len(plan[key]) \in Nat
      BY DEF HubInv, TypeInv, TypeOK
    <3>. QED
      BY <1>1, <1>2, <2>2, <3>1 DEF Undone, Releasing
  <2>4. key \in DOMAIN plan'
    BY <1>1, <2>3
  <2>. QED
    BY <1>1, <2>1, <2>2, <2>4 DEF Causes, Undone
<1>7. Carried'
  <2>. SUFFICES ASSUME NEW key \in DOMAIN asked \ (aborted' \cup cut), NEW j \in Ifaces,
                       NEW b \in asked[key], Tracked(j), j # key.inst, b \in Supported(j)
                PROVE  CarriedTo(key, j, b)'
    BY <1>1, Rigid DEF Carried, Handling
  <2>1. key # job.id /\ key \notin aborted
    BY <1>1, <1>2
  <2>2. CarriedTo(key, j, b)
    BY <1>1, <2>1 DEF Carried, Handling, Ended
  <2>3. key \in DOMAIN plan'
    BY <1>1, <2>1, <2>2 DEF CarriedTo
  <2>. QED
    BY <1>1, <2>2, <2>3, CarriedStays
<1>8. HeldActive'
  BY <1>1, Rigid DEF HeldActive
<1>9. StateKept'
  BY <1>1, <1>2, EventKeepsState DEF HubInv, TypeInv
<1>. QED
  BY <1>4, <1>5, <1>6, <1>7, <1>8, <1>9

\* handleExit, whether or not a release in it throws.
LEMMA ShareEnd ==
    ASSUME HubInv, HubInv', ShareInv, job.op \notin Ended, job'.op \in {"exited", "terminated"},
           job'.pend = job.pend, UNCHANGED <<asked, cut, aborted, orphans, lastCookie>>,
           NEW gone, Withdraw(gone), \A id \in gone : id.own # "app"
    PROVE  /\ ActiveTypes' /\ AskedActive' /\ JobAgrees' /\ Progress' /\ ForwardedAll'
           /\ ReleasedGone' /\ Carried' /\ HeldActive' /\ StateKept'
<1>. USE DEF ShareInv
<1>1. /\ DOMAIN active' = DOMAIN active \ gone /\ \A x \in DOMAIN active' : active'[x] = active[x]
      /\ held' = held \ gone
  BY WithdrawFacts
<1>2. ActiveTypes' /\ AskedActive'
  BY <1>1, Rigid DEF ActiveTypes, AskedActive
<1>3. JobAgrees' /\ Progress' /\ ForwardedAll' /\ Carried' /\ ReleasedGone'
  BY DEF JobAgrees, Progress, Handling, ForwardedAll, Carried, Ended, ReleasedGone, Undone
<1>4. HeldActive'
  BY <1>1, Rigid DEF HeldActive
<1>5. StateKept'
  BY WithdrawnState DEF HubInv, TypeInv
<1>. QED
  BY <1>2, <1>3, <1>4, <1>5

LEMMA ShareExit ==
    ASSUME HubInv, HubInv', ShareInv, Sigint
    PROVE  ShareInv'
<1>. USE DEF ShareInv
<1>. DEFINE gone == DOMAIN active \cap Planned(plan)
<1>1. Withdraw(gone) /\ job.op \notin Ended /\ DOMAIN plan' = {}
      /\ UNCHANGED <<asked, cut, aborted, orphans, lastCookie>>
  BY DEF Sigint, EmptyMap, helperVars
<1>2. job'.op = "exited" /\ job'.pend = job.pend
  BY DEF Sigint, HubInv, TypeInv, TypeOK, Job
<1>3. \A key \in DOMAIN plan, x \in DOMAIN active : Causes(key, x) => x \in gone
  BY DEF Causes, Planned
<1>4. \A id \in gone : id.own # "app"
  BY PlannedFacts DEF HubInv, PlanOK
<1>. HIDE DEF gone
<1>5. /\ ActiveTypes' /\ AskedActive' /\ JobAgrees' /\ Progress' /\ ForwardedAll'
      /\ ReleasedGone' /\ Carried' /\ HeldActive' /\ StateKept'
  BY <1>1, <1>2, <1>4, ShareEnd
<1>6. DOMAIN active' = DOMAIN active \ gone /\ \A x \in DOMAIN active' : active'[x] = active[x]
  BY <1>1, WithdrawFacts
<1>7. Justified'
  BY <1>1, <1>2, <1>3, <1>6 DEF Justified, Ended
<1>. QED
  BY <1>5, <1>7

LEMMA ShareTerminate ==
    ASSUME HubInv, HubInv', ShareInv, SigintThrow
    PROVE  ShareInv'
<1>. USE DEF ShareInv
<1>0. PICK key \in DOMAIN plan :
        \E keys \in SUBSET (DOMAIN plan \ {key}), n \in 1..Len(plan[key]) :
            Withdraw(UndoneBefore(keys, key, n))
  BY DEF SigintThrow
<1>1. PICK keys \in SUBSET (DOMAIN plan \ {key}), n \in 1..Len(plan[key]) :
        Withdraw(UndoneBefore(keys, key, n))
  BY <1>0
<1>. DEFINE gone == UndoneBefore(keys, key, n)
<1>2. \A id \in gone : id.own # "app"
  <2>1. n \in 1..Len(plan[key]) /\ \A m \in 1..(n - 1) : m \in 1..Len(plan[key])
    BY LenProperties DEF HubInv, TypeInv, TypeOK
  <2>. QED
    BY <2>1, PlannedFacts DEF UndoneBefore, HubInv, PlanOK
<1>. HIDE DEF gone
<1>3. /\ job.op \notin Ended /\ plan' = plan
      /\ UNCHANGED <<asked, cut, aborted, orphans, lastCookie>>
  BY DEF SigintThrow, helperVars
<1>4. job'.op = "terminated" /\ job'.pend = job.pend
  BY DEF SigintThrow, HubInv, TypeInv, TypeOK, Job
<1>5. Withdraw(gone)
  BY <1>1 DEF gone
<1>6. /\ ActiveTypes' /\ AskedActive' /\ JobAgrees' /\ Progress' /\ ForwardedAll'
      /\ ReleasedGone' /\ Carried' /\ HeldActive' /\ StateKept'
  BY <1>2, <1>3, <1>4, <1>5, ShareEnd
<1>7. DOMAIN active' = DOMAIN active \ gone /\ \A x \in DOMAIN active' : active'[x] = active[x]
  BY <1>5, WithdrawFacts
<1>8. Justified'
  BY <1>3, <1>4, <1>7 DEF Justified, Causes, Undone, Ended
<1>. QED
  BY <1>6, <1>8

LEMMA ShareHelperDies ==
    ASSUME HubInv, HubInv', ShareInv, NEW j \in Ifaces, HelperDies(j)
    PROVE  ShareInv'
<1>. USE DEF ShareInv
<1>1. /\ active' = active /\ plan' = plan /\ lastState' = lastState /\ aborted' = aborted
      /\ held' \subseteq held /\ orphans' = orphans /\ lastCookie' = lastCookie
      /\ asked' = asked /\ cut' = cut /\ job' = job
  BY DEF HelperDies
<1>2. ActiveTypes' /\ AskedActive' /\ StateKept' /\ HeldActive'
  BY <1>1, Rigid DEF ActiveTypes, AskedActive, StateKept, InhibitedBy, HeldActive
<1>3. JobAgrees' /\ ReleasedGone'
  BY <1>1, Rigid DEF JobAgrees, Handling, ReleasedGone, Undone, Target
<1>4. Progress' /\ ForwardedAll'
  BY <1>1, Rigid DEF Progress, ForwardedAll, Handling, ForwardedTo, Ahead
<1>5. Carried'
  BY <1>1, Rigid DEF Carried, Handling, CarriedTo, Ahead
<1>6. Justified'
  BY <1>1 DEF Justified, Causes, Undone
<1>. QED
  BY <1>2, <1>3, <1>4, <1>5, <1>6

LEMMA ShareStep == HubInv /\ HubInv' /\ ShareInv /\ [Next]_vars => ShareInv'
<1>. SUFFICES ASSUME HubInv, HubInv', ShareInv, [Next]_vars PROVE ShareInv'
  OBVIOUS
<1>1. ASSUME NEW i \in Ifaces, NEW n \in Apps, RegisterInhibit(i, n) PROVE ShareInv'
  BY <1>1, ShareRegister
<1>2. ASSUME NEW id \in DOMAIN active, RegisterUnInhibit(id) PROVE ShareInv'
  BY <1>2, ShareUnregister
<1>3. ASSUME NEW j \in Ifaces, HelperDies(j) PROVE ShareInv'
  BY <1>3, ShareHelperDies
<1>4. CASE UNCHANGED vars
  <2>. USE <1>4 DEF vars, ShareInv
  <2>1. ActiveTypes' /\ AskedActive' /\ ReleasedGone' /\ HeldActive' /\ StateKept'
    BY Rigid DEF ActiveTypes, AskedActive, ReleasedGone, Undone, HeldActive, StateKept, InhibitedBy
  <2>2. JobAgrees' /\ Progress' /\ ForwardedAll'
    BY Rigid DEF JobAgrees, Progress, ForwardedAll, Handling, ForwardedTo, Ahead, Target
  <2>3. Carried'
    BY Rigid DEF Carried, Handling, CarriedTo, Ahead
  <2>4. Justified'
    BY DEF Justified, Causes, Undone
  <2>. QED
    BY <2>1, <2>2, <2>3, <2>4
<1>. QED
  BY <1>1, <1>2, <1>3, <1>4, ShareSkip, ShareCall, ShareActivate, SharePlan, ShareNoReply, ShareThrow,
     ShareFinish, ShareRelease, ShareReleaseThrow, ShareFinishRelease, ShareExit, ShareTerminate
     DEF Next, Proceed

LEMMA ShareInvariant == Spec => [](HubInv /\ ShareInv)
BY HubInit, HubStep, ShareInit, ShareStep, PTL DEF Spec

----------------------------------------------------------------------------
(* What follows from it.                                                   *)

\* Nothing that inhibit() activated is lost to releasePlan, on no interface:
\* not even where one id stands for several forwards.
THEOREM NothingStrays == Spec => []NoStrayForward
<1>1. ShareInv => NoStrayForward
  BY DEF ShareInv, Justified, Causes, NoStrayForward, Planned
<1>. QED
  BY <1>1, ShareInvariant, PTL

\* Every lock that another program holds for us is one releasePlan knows of, or
\* the forward in progress, or one of the two that the code cannot know.
THEOREM HeldPlanned == Spec => []HeldIsPlanned
<1>1. ShareInv => NoStrayForward
  BY DEF ShareInv, Justified, Causes, NoStrayForward, Planned
<1>2. ShareInv => HeldIsPlanned
  BY <1>1 DEF ShareInv, HeldActive, HeldIsPlanned, NoStrayForward
<1>. QED
  BY <1>2, ShareInvariant, PTL

\* Between two handlers whatever is active is of types that are asked for, or an
\* exception cut short the release that would have ended it.
LEMMA ActiveAsked ==
    ASSUME HubInv, ShareInv, job.op = "idle", NEW id \in DOMAIN active
    PROVE  LeftBehind(id) \/ \A b \in active[id] : Asked(b)
<1>1. CASE id.own = "app"
  BY <1>1 DEF ShareInv, ActiveTypes, Asked
<1>2. CASE id.own # "app"
  <2>1. PICK key \in DOMAIN plan : Causes(key, id)
    BY <1>2 DEF ShareInv, Justified
  <2>2. CASE key \in cut
    BY <2>1, <2>2 DEF Causes, LeftBehind
  <2>3. CASE key \notin cut
    <3>1. key \in DOMAIN asked
      BY <2>3, CauseAsked DEF ShareInv
    <3>. QED
      BY <2>1, <2>3, <3>1 DEF Causes, Asked
  <2>. QED
    BY <2>2, <2>3
<1>. QED
  BY <1>1, <1>2

\* No inhibit of a type that no application asks for any more stays on any
\* interface, but for those that a release cut short left in its plan.
THEOREM CauseOutlives == Spec => []NothingOutlivesCause
<1>1. HubInv /\ ShareInv => NothingOutlivesCause
  BY ActiveAsked DEF NothingOutlivesCause
<1>. QED
  BY <1>1, ShareInvariant, PTL

\* No other program keeps a lock for us of a type that nobody asks for, with the
\* same exception.
THEOREM OutsideIsShared == Spec => []OutsideShared
<1>1. HubInv /\ ShareInv => OutsideShared
  <2>. SUFFICES ASSUME HubInv, ShareInv, job.op = "idle", NEW id \in held \ orphans,
                       Kind[id.inst] # "cinnamon"
                PROVE  id \in DOMAIN active /\ (LeftBehind(id) \/ \A b \in active[id] : Asked(b))
    BY DEF OutsideShared
  <2>1. id \in DOMAIN active
    BY DEF ShareInv, HeldActive
  <2>. QED
    BY <2>1, ActiveAsked
<1>. QED
  BY <1>1, ShareInvariant, PTL

\* inhibitCB reaches every interface that takes the type, unless an error or a
\* time-out cut it short.
THEOREM ForwardsAll == Spec => []ForwardedUnlessAborted
<1>1. ShareInv => ForwardedUnlessAborted
  BY DEF ShareInv, ForwardedAll, ForwardedUnlessAborted, Handling, Ended, ForwardedTo
<1>. QED
  BY <1>1, ShareInvariant, PTL

ExitedPlan == job.op = "exited" => DOMAIN plan = {}

LEMMA ExitedStep == HubInv /\ ExitedPlan /\ [Next]_vars => ExitedPlan'
<1>. SUFFICES ASSUME HubInv, ExitedPlan, [Next]_vars PROVE ExitedPlan'
  OBVIOUS
<1>1. CASE job.op = "exited"
  <2>1. plan' = plan
    BY <1>1 DEF Next, Proceed, vars, RegisterInhibit, RegisterUnInhibit, ForwardSkip, ForwardCall,
                ForwardActivate, ForwardPlan, ForwardNoReply, ForwardThrow, Forwarding,
                FinishInhibit, ReleaseStep, ReleaseThrow, Releasing, FinishUnInhibit,
                HelperDies, Sigint, SigintThrow, Ended
  <2>. QED
    BY <1>1, <2>1 DEF ExitedPlan
<1>2. CASE Sigint
  BY <1>2 DEF Sigint, EmptyMap, ExitedPlan
<1>3. CASE job.op # "exited" /\ ~Sigint
  <2>1. job \in Job
    BY DEF HubInv, TypeInv, TypeOK
  <2>2. ASSUME NEW i \in Ifaces, NEW n \in Apps, RegisterInhibit(i, n)
        PROVE  job'.op # "exited"
    BY <2>2 DEF RegisterInhibit
  <2>3. ASSUME NEW id \in DOMAIN active, RegisterUnInhibit(id)
        PROVE  job'.op # "exited"
    BY <2>3 DEF RegisterUnInhibit, Idle
  <2>4. ASSUME FinishInhibit \/ FinishUnInhibit \/ UNCHANGED vars
        PROVE  job'.op # "exited"
    BY <1>3, <2>4 DEF Idle, FinishInhibit, FinishUnInhibit, vars
  <2>5. ASSUME \/ ForwardSkip \/ ForwardCall \/ ForwardActivate \/ ForwardPlan
               \/ ForwardNoReply \/ ReleaseStep \/ SigintThrow
        PROVE  job'.op # "exited"
    BY <1>3, <2>1, <2>5 DEF ForwardSkip, ForwardCall, ForwardActivate, ForwardPlan, ForwardNoReply,
                            Forwarding, ReleaseStep, Releasing, SigintThrow, Job
  <2>7. ASSUME ForwardThrow \/ ReleaseThrow
        PROVE  job'.op # "exited"
    BY <2>7, ThrownFacts DEF ForwardThrow, ReleaseThrow
  <2>8. ASSUME NEW j \in Ifaces, HelperDies(j)
        PROVE  job'.op # "exited"
    BY <1>3, <2>8 DEF HelperDies
  <2>6. job'.op # "exited"
    BY <1>3, <2>2, <2>3, <2>4, <2>5, <2>7, <2>8 DEF Next, Proceed
  <2>. QED
    BY <2>6 DEF ExitedPlan
<1>. QED
  BY <1>1, <1>2, <1>3

\* handleExit gives everything back but the forward that SIGINT fell into and
\* what the code cannot know of, unless a release in it throws.
THEOREM ExitIsClean == Spec => []ExitClean
<1>1. HubInv /\ ShareInv /\ ExitedPlan => ExitClean
  <2>. SUFFICES ASSUME HubInv, ShareInv, ExitedPlan, job.op = "exited" PROVE ExitClean
    BY DEF ExitClean
  <2>1. \A id \in DOMAIN active : id.own # "app" => job.pend = id
    BY DEF ShareInv, Justified, ExitedPlan
  <2>2. ASSUME NEW id \in held
        PROVE  id \in orphans \/ id = job.pend \/ Kind[id.inst] = "cinnamon"
    BY <2>1 DEF ShareInv, HeldActive
  <2>3. ASSUME NEW j \in Ifaces, Kind[j] \in {"sink", "usercmd"}
        PROVE  lastState[j] = {} \/ job.pend.inst = j
    <3>1. NativeTypes(j) = {}
      BY <2>3 DEF NativeTypes
    <3>2. lastState[j] = InhibitedBy(active, j)
      BY <3>1 DEF ShareInv, StateKept
    <3>3. \A id \in DOMAIN active : id.inst = j => id.own # "app"
      BY <3>1 DEF ShareInv, ActiveTypes
    <3>. QED
      BY <2>1, <3>2, <3>3 DEF InhibitedBy
  <2>. QED
    BY <2>2, <2>3 DEF ExitClean
<1>2. Init => ExitedPlan
  BY DEF Init, Idle, ExitedPlan
<1>3. Spec => []ExitedPlan
  BY <1>2, HubInvariant, ExitedStep, PTL DEF Spec
<1>. QED
  BY <1>1, <1>3, ShareInvariant, PTL

----------------------------------------------------------------------------
(* That every interface reports what applications ask for needs ids that   *)
(* do not come again: where they do (wake locks, tokens, lock programs,    *)
(* SimulateUserActivity) it is false, and runs show how it fails.  It holds *)
(* for each interface that numbers its ids, whatever the others are.       *)

NumberedReported ==
    job.op \in {"idle", "uninhibit"} /\ Smooth =>
        \A j \in Ifaces, b \in Bits :
            Tracked(j) /\ b \in Supported(j) /\ Asked(b) => b \in InhibitedBy(active, j)

\* A vector of interfaces that all number their ids: uinhibitd with the D-Bus
\* services and the user commands only.
AllNumbered == \A j \in Ifaces : Tracked(j)

LEMMA NumberedReports == HubInv /\ ShareInv => NumberedReported
<1>. SUFFICES ASSUME HubInv, ShareInv, job.op \in {"idle", "uninhibit"}, aborted = {}, cut = {},
                     NEW j \in Ifaces, NEW b \in Bits, Tracked(j), b \in Supported(j),
                     NEW key \in DOMAIN asked, b \in asked[key]
              PROVE  b \in InhibitedBy(active, j)
  BY DEF NumberedReported, Asked, Smooth
<1>1. CASE key.inst = j
  <2>1. key \in DOMAIN active /\ key.own = "app"
    BY DEF ShareInv, AskedActive
  <2>2. Kind[j] \notin FdKinds
    BY DEF Tracked, FdKinds
  <2>3. b \in active[key]
    BY <1>1, <2>1, <2>2 DEF ShareInv, ActiveTypes
  <2>. QED
    BY <1>1, <2>1, <2>3 DEF InhibitedBy
<1>2. CASE key.inst # j
  <2>1. job.op \notin Ended /\ ~Handling
    BY DEF Ended, Handling
  <2>2. CarriedTo(key, j, b)
    BY <1>2, <2>1 DEF ShareInv, Carried
  <2>. QED
    BY <2>2 DEF CarriedTo, InhibitedBy
<1>. QED
  BY <1>1, <1>2

\* Each interface that numbers its ids reports, between two handlers and as long
\* as no forward and no release failed, exactly what applications have asked for.
THEOREM NumberedAreShared == Spec => []NumberedShared
<1>1. HubInv /\ ShareInv => NumberedShared
  <2>. SUFFICES ASSUME HubInv, ShareInv PROVE NumberedShared
    OBVIOUS
  <2>1. NumberedReported
    BY NumberedReports
  <2>2. \A j \in Ifaces : \A b \in InhibitedBy(active, j) :
            job.op = "idle" /\ cut = {} => Asked(b)
    BY ActiveAsked DEF InhibitedBy, LeftBehind
  <2>. QED
    BY <2>1, <2>2 DEF NumberedReported, NumberedShared, Smooth
<1>. QED
  BY <1>1, ShareInvariant, PTL

\* "All interfaces effectively share the same state", when all number their ids.
THEOREM StateIsShared ==
    ASSUME AllNumbered
    PROVE  Spec => []SharedState
<1>1. NumberedShared => SharedState
  <2>1. \A j \in Ifaces : Tracked(j) /\ Reported(j) = Supported(j)
    BY DEF AllNumbered, Tracked, Reported
  <2>. QED
    BY <2>1 DEF NumberedShared, SharedState
<1>. QED
  BY <1>1, NumberedAreShared, PTL

\* unInhibitCB takes no type away from an interface that numbers its ids while
\* an application still asks for it, as long as no forward and no release failed.
THEOREM NumberedNeverEarly == Spec => NoEarlyRelease
<1>1. (HubInv /\ ShareInv)' => NumberedReported'
  BY NumberedReports, PTL
<1>2. HubInv /\ ShareInv /\ (HubInv /\ ShareInv)' /\ [Next]_vars =>
        [job'.op = "uninhibit" /\ Smooth =>
            \A j \in Ifaces : Tracked(j) =>
                \A b \in InhibitedBy(active, j) \ InhibitedBy(active', j) : ~Asked(b)']_vars
  <2>. SUFFICES ASSUME HubInv, ShareInv, NumberedReported', Next, job'.op = "uninhibit", Smooth,
                       NEW j \in Ifaces, Tracked(j),
                       NEW b \in InhibitedBy(active, j), b \notin InhibitedBy(active', j)
                PROVE  ~Asked(b)'
    BY <1>1
  <2>1. aborted' = aborted /\ cut' = cut
    <3>1. CASE \/ ForwardThrow \/ ReleaseThrow
      BY <3>1, ThrownFacts DEF ForwardThrow, ReleaseThrow
    <3>2. CASE ~(ForwardThrow \/ ReleaseThrow)
      BY <3>2 DEF Next, Proceed, RegisterInhibit, RegisterUnInhibit, ForwardSkip, ForwardCall,
           ForwardActivate, ForwardPlan, ForwardNoReply, Forwarding, Idle, FinishInhibit,
           ReleaseStep, FinishUnInhibit, HelperDies, Sigint, SigintThrow, helperVars,
           HubInv, TypeInv, TypeOK, Job
    <3>. QED
      BY <3>1, <3>2
  <2>2. b \in Bits /\ b \in Supported(j)
    BY DEF InhibitedBy, ShareInv, ActiveTypes
  <2>3. /\ (Tracked(j) <=> Tracked(j)') /\ Supported(j)' = Supported(j)
        /\ InhibitedBy(active, j)' = InhibitedBy(active', j)
    BY DEF Tracked, Supported, InhibitedBy
  <2>4. Smooth'
    BY <2>1 DEF Smooth
  <2>. QED
    BY <2>2, <2>3, <2>4 DEF NumberedReported
<1>. QED
  BY <1>2, ShareInvariant, PTL DEF Spec, NoEarlyRelease

=============================================================================
