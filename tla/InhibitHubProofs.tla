-------------------------- MODULE InhibitHubProofs --------------------------
(***************************************************************************)
(* Proofs about the hub, for every vector of interfaces, every choice of   *)
(* monitored ones and every number of applications.                        *)
(***************************************************************************)
EXTENDS InhibitHub, SequenceTheorems, TLAPS

\* What the main thread knows while it runs a handler.
JobOK ==
    /\ job.op \in {"inhibit", "called", "activated"} =>
        /\ job.org \in Ifaces /\ job.k \in Nat \ {0}
        /\ job.id \in DOMAIN active /\ job.id.own = "app"
    /\ job.op \in {"called", "activated"} =>
        /\ job.k <= Len(Order)
        /\ job.pend \in Id /\ job.pend.inst = Target
        /\ Tracked(Target) => job.pend.own = "us"
        /\ job.pend.own # "app"
    /\ job.op = "activated" => job.pend \in DOMAIN active
    /\ job.op = "uninhibit" => job.id \in Id /\ job.org \in Ifaces /\ job.k \in Nat \ {0}

LEMMA OrderLength == Len(Order) \in Nat
BY OrderAssumption, LenProperties

LEMMA TargetFacts ==
    ASSUME NEW k \in Nat \ {0}, k <= Len(Order)
    PROVE  Order[k] \in Ifaces /\ Order[k] # NoName
BY OrderAssumption DEF Ifaces

LEMMA ForwardIdFacts ==
    ASSUME TypeOK, NEW j \in Ifaces, NEW n \in Apps \cup {NoName},
           NEW id \in ForwardIds(j, n)
    PROVE  /\ id \in Id
           /\ id.inst = j
           /\ id.own # "app"
           /\ Tracked(j) => id.own = "us" /\ id.cookie = lastCookie[j] + 1
<1>1. lastCookie[j] \in Nat /\ {0} \cup Lowest(FreeFds(j)) \subseteq Nat
  BY DEF TypeOK, FreeFds, Lowest
<1>2. CASE Kind[j] \in NameKinds
  <2>1. ForwardIds(j, n) = {[inst |-> j, own |-> "us", name |-> n, cookie |-> 0]}
    BY <1>2 DEF ForwardIds, NameKinds, EmptyKinds, FdKinds
  <2>. QED
    BY <1>2, <2>1 DEF Id, NameKinds, Tracked
<1>3. CASE Kind[j] \in EmptyKinds
  <2>1. ForwardIds(j, n) = {[inst |-> j, own |-> "none", name |-> NoName, cookie |-> 0]}
    BY <1>3 DEF ForwardIds, NameKinds, EmptyKinds, FdKinds
  <2>. QED
    BY <1>3, <2>1 DEF Id, EmptyKinds, Tracked
<1>4. CASE Kind[j] \in FdKinds /\ j \in Monitored
  <2>1. PICK c \in {0} \cup Lowest(FreeFds(j)) :
            id = [inst |-> j, own |-> "us", name |-> NoName, cookie |-> c]
    BY <1>4 DEF ForwardIds, NameKinds, EmptyKinds, FdKinds
  <2>. QED
    BY <1>1, <1>4, <2>1 DEF Id, FdKinds, Tracked
<1>5. CASE Kind[j] \notin NameKinds \cup EmptyKinds /\ ~(Kind[j] \in FdKinds /\ j \in Monitored)
  <2>1. id = [inst |-> j, own |-> "us", name |-> NoName, cookie |-> lastCookie[j] + 1]
    BY <1>5 DEF ForwardIds
  <2>. QED
    BY <1>1, <2>1 DEF Id
<1>. QED
  BY <1>2, <1>3, <1>4, <1>5

LEMMA NativeIdFacts ==
    ASSUME TypeOK, NEW i \in Ifaces, NEW n \in Apps, NEW id \in NativeIds(i, n)
    PROVE  id \in Id /\ id.inst = i /\ id.own = "app"
<1>1. lastCookie[i] \in Nat /\ 0 \in Nat /\ lastCookie[i] + 1 \in Nat
  BY DEF TypeOK
<1>2. \A c \in 1..(lastCookie[i] + 1) : c \in Nat
  BY <1>1
<1>3. PICK m \in Apps \cup {NoName}, c \in Nat :
        id = [inst |-> i, own |-> "app", name |-> m, cookie |-> c]
  BY <1>1, <1>2 DEF NativeIds
<1>. QED
  BY <1>3 DEF Id

LEMMA NativeTypeFacts ==
    ASSUME NEW i \in Ifaces, NEW t \in NativeTypes(i)
    PROVE  t \in InhibitType
<1>1. Supported(i) \in InhibitType
  BY DEF Supported, InhibitType, Bits, SCREENSAVER, SUSPEND
<1>2. {SUSPEND} \in InhibitType
  BY DEF InhibitType, Bits
<1>. QED
  BY <1>1, <1>2 DEF NativeTypes

LEMMA CookieAfterFacts ==
    ASSUME TypeOK, NEW id \in Id
    PROVE  /\ CookieAfter(id) \in [Ifaces -> Nat]
           /\ CookieAfter(id)[id.inst] >= id.cookie
           /\ \A j \in Ifaces : CookieAfter(id)[j] >= lastCookie[j]
BY DEF CookieAfter, TypeOK, Id

LEMMA InhibitedFacts ==
    ASSUME NEW act, NEW j
    PROVE  InhibitedBy(act, j) \in InhibitType /\ InhibitedByAny(act) \in InhibitType
BY DEF InhibitedBy, InhibitedByAny, InhibitType

LEMMA IdleFacts == Idle \in Job /\ NoId \notin Id
BY OrderAssumption DEF Idle, Job, Ops, Ended, InhibitType, NoId, Id, Ifaces, NoName

LEMMA ThrownFacts ==
    Thrown \in Job /\ Thrown.op \in {"idle", "undefined"} /\ Thrown.pend = NoId
<1>1. CASE Kind[job.org] \in NameKinds
  <2>1. Thrown = [Idle EXCEPT !.op = "undefined"]
    BY <1>1 DEF Thrown
  <2>. QED
    BY <2>1, IdleFacts DEF Idle, Job, Ops, Ended
<1>2. CASE Kind[job.org] \notin NameKinds
  <2>1. Thrown = [Idle EXCEPT !.op = "idle"]
    BY <1>2 DEF Thrown
  <2>. QED
    BY <2>1, IdleFacts DEF Idle, Job, Ops, Ended
<1>. QED
  BY <1>1, <1>2

\* A bit-wise or keeps the map's types.
LEMMA UniteFacts ==
    ASSUME NEW f, NEW key, NEW t \in InhibitType,
           \A x \in DOMAIN f : f[x] \in InhibitType
    PROVE  /\ DOMAIN MapUnite(f, key, t) = DOMAIN f \cup {key}
           /\ \A x \in DOMAIN f \cup {key} : MapUnite(f, key, t)[x] \in InhibitType
           /\ \A x \in DOMAIN f \ {key} : MapUnite(f, key, t)[x] = f[x]
           /\ MapUnite(f, key, t)[key] = (IF key \in DOMAIN f THEN f[key] ELSE {}) \cup t
BY DEF MapUnite, InhibitType

\* unInhibit changes nothing but what it withdraws.
LEMMA WithdrawFacts ==
    ASSUME NEW gone, Withdraw(gone)
    PROVE  /\ DOMAIN active' = DOMAIN active \ gone
           /\ \A x \in DOMAIN active' : active'[x] = active[x]
           /\ held' = held \ gone
           /\ TypeOK => lastState' \in [Ifaces -> InhibitType]
BY InhibitedFacts DEF Withdraw, TypeOK

\* The types of the variables are kept by every step.  (The handler's own
\* bookkeeping, JobOK, is needed to know that it indexes Order within bounds.)
TypeInv == TypeOK /\ JobOK

LEMMA TypeInit == Init => TypeInv
<1>. SUFFICES ASSUME Init PROVE TypeInv
  OBVIOUS
<1>1. job.op = "idle"
  BY DEF Init, Idle
<1>2. TypeOK
  BY IdleFacts DEF Init, TypeOK, EmptyMap, InhibitType
<1>. QED
  BY <1>1, <1>2 DEF TypeInv, JobOK

LEMMA TypeStep == TypeInv /\ [Next]_vars => TypeInv'
<1>. SUFFICES ASSUME TypeInv, [Next]_vars PROVE TypeInv'
  OBVIOUS
<1>. USE DEF TypeInv
<1>1. ASSUME NEW i \in Ifaces, NEW n \in Apps, RegisterInhibit(i, n)
      PROVE  TypeInv'
  <2>1. PICK t \in NativeTypes(i), id \in NativeIds(i, n) :
            /\ active' = MapInsert(active, id, t)
            /\ asked' = MapUnite(asked, id, t)
            /\ lastCookie' = CookieAfter(id)
            /\ job' = [op |-> "inhibit", org |-> i, id |-> id, type |-> t,
                       name |-> n, k |-> 1, pend |-> NoId]
    BY <1>1 DEF RegisterInhibit
  <2>2. id \in Id /\ id.own = "app"
    BY NativeIdFacts
  <2>3. t \in InhibitType
    BY NativeTypeFacts
  <2>4. DOMAIN active' = DOMAIN active \cup {id} /\ \A x \in DOMAIN active' : active'[x] \in InhibitType
    BY <2>1, <2>3 DEF TypeOK, MapInsert
  <2>5. job' \in Job
    BY <2>1, <2>2, <2>3 DEF Job, Ops, Ended
  <2>8. DOMAIN asked' \subseteq Id /\ \A x \in DOMAIN asked' : asked'[x] \in InhibitType
    <3>1. /\ DOMAIN asked' = DOMAIN asked \cup {id}
          /\ \A x \in DOMAIN asked \cup {id} : asked'[x] \in InhibitType
      BY <2>1, <2>3, UniteFacts DEF TypeOK
    <3>. QED
      BY <2>2, <3>1 DEF TypeOK
  <2>6. TypeOK'
    BY <1>1, <2>1, <2>2, <2>4, <2>5, <2>8, CookieAfterFacts DEF TypeOK, RegisterInhibit, helperVars
  <2>7. JobOK'
    BY <2>1, <2>2, <2>4 DEF JobOK
  <2>. QED
    BY <2>6, <2>7
<1>2. ASSUME NEW id \in DOMAIN active, RegisterUnInhibit(id)
      PROVE  TypeInv'
  <2>1. id \in Id /\ id.inst \in Ifaces /\ active[id] \in InhibitType
    BY DEF TypeOK, Id
  <2>2. job' = [Idle EXCEPT !.op = "uninhibit", !.org = id.inst, !.id = id,
                            !.type = active[id], !.k = 1]
    BY <1>2 DEF RegisterUnInhibit
  <2>3. job' \in Job /\ job'.op = "uninhibit" /\ job'.id = id /\ job'.org = id.inst /\ job'.k = 1
    BY <2>1, <2>2, IdleFacts DEF Idle, Job, Ops, Ended
  <2>4. /\ DOMAIN active' \subseteq Id /\ \A x \in DOMAIN active' : active'[x] \in InhibitType
        /\ DOMAIN asked' \subseteq Id /\ \A x \in DOMAIN asked' : asked'[x] \in InhibitType
    BY <1>2 DEF RegisterUnInhibit, TypeOK, MapErase
  <2>5. TypeOK'
    BY <1>2, <2>3, <2>4 DEF TypeOK, RegisterUnInhibit, helperVars
  <2>. QED
    BY <2>1, <2>3, <2>5 DEF JobOK
<1>3. CASE ForwardSkip
  <2>1. job' \in Job /\ job'.op = "inhibit" /\ job'.k = job.k + 1 /\ job'.id = job.id /\ job'.org = job.org
    BY <1>3 DEF ForwardSkip, Forwarding, TypeOK, Job
  <2>. QED
    BY <1>3, <2>1 DEF TypeOK, JobOK, ForwardSkip, Forwarding, helperVars
<1>4. CASE ForwardCall
  <2>1. Target \in Ifaces /\ job.k \in Nat \ {0} /\ job.k <= Len(Order) /\ job.name \in Apps \cup {NoName}
    BY <1>4, TargetFacts DEF ForwardCall, Forwarding, JobOK, Target, TypeOK, Job
  <2>3. PICK id \in ForwardIds(Target, job.name) :
            /\ job' = [job EXCEPT !.op = "called", !.pend = id]
            /\ lastCookie' = CookieAfter(id)
            /\ held' = IF Locks(id) THEN held \cup {id} ELSE held
    BY <1>4 DEF ForwardCall
  <2>2. id \in Id /\ id.inst = Target /\ id.own # "app" /\ (Tracked(Target) => id.own = "us")
    BY <2>1, ForwardIdFacts
  <2>4. /\ job' \in Job /\ job'.op = "called" /\ job'.pend = id /\ job'.k = job.k
        /\ job'.id = job.id /\ job'.org = job.org
    BY <2>2, <2>3 DEF TypeOK, Job, Ops, Ended
  <2>5. lastCookie' = CookieAfter(id) /\ held' \subseteq held \cup {id} /\ active' = active
    BY <1>4, <2>3 DEF ForwardCall
  <2>6. TypeOK'
    BY <1>4, <2>2, <2>4, <2>5, CookieAfterFacts DEF TypeOK, ForwardCall, helperVars
  <2>7. Target' = Target
    BY <2>4 DEF Target
  <2>8. JobOK'
    BY <1>4, <2>1, <2>2, <2>4, <2>5, <2>7 DEF JobOK, ForwardCall, Forwarding, Tracked
  <2>. QED
    BY <2>6, <2>8
<1>5. CASE ForwardActivate
  <2>1. Target \in Ifaces /\ job.pend \in Id /\ job.op = "called"
    BY <1>5, TargetFacts DEF ForwardActivate, JobOK, Target
  <2>2. Granted(Target, job.type) \in InhibitType
    BY DEF TypeOK, Job, Granted, InhibitType
  <2>3. /\ DOMAIN active' = DOMAIN active \cup {job.pend}
        /\ \A x \in DOMAIN active' : active'[x] \in InhibitType
    BY <1>5, <2>2 DEF ForwardActivate, TypeOK, MapInsert
  <2>4. job' = [job EXCEPT !.op = "activated"]
    BY <1>5 DEF ForwardActivate
  <2>5. /\ job' \in Job /\ job'.op = "activated" /\ job'.pend = job.pend /\ job'.k = job.k
        /\ job'.id = job.id /\ job'.org = job.org
    BY <2>4 DEF TypeOK, Job, Ops, Ended
  <2>6. lastState' \in [Ifaces -> InhibitType]
    BY <1>5, <2>1, InhibitedFacts DEF ForwardActivate, CallEvent, TypeOK
  <2>7. TypeOK'
    BY <1>5, <2>1, <2>3, <2>5, <2>6 DEF TypeOK, ForwardActivate, helperVars
  <2>8. Target' = Target
    BY <2>5 DEF Target
  <2>9. JobOK'
    BY <2>1, <2>3, <2>5, <2>8 DEF JobOK, Tracked
  <2>. QED
    BY <2>7, <2>9
<1>6. CASE ForwardPlan
  <2>1. job.id \in Id /\ job.pend \in Id /\ job.op = "activated"
    BY <1>6 DEF ForwardPlan, JobOK, TypeOK
  <2>2. job' = [job EXCEPT !.op = "inhibit", !.k = job.k + 1, !.pend = NoId]
    BY <1>6 DEF ForwardPlan
  <2>3. job' \in Job /\ job'.op = "inhibit" /\ job'.k = job.k + 1 /\ job'.id = job.id /\ job'.org = job.org
    <3>1. job \in Job /\ job.k + 1 \in Nat
      BY DEF TypeOK, Job
    <3>. QED
      BY <2>2, <3>1 DEF Job, Ops, Ended
  <2>4. DOMAIN plan' = DOMAIN plan \cup {job.id}
    BY <1>6 DEF ForwardPlan, MapPush
  <2>5. \A key \in DOMAIN plan' : plan'[key] \in Seq(Id)
    <3>1. plan' = MapPush(plan, job.id, job.pend)
      BY <1>6 DEF ForwardPlan
    <3>2. \A s \in Seq(Id) : Append(s, job.pend) \in Seq(Id)
      BY <2>1
    <3>3. <<>> \in Seq(Id)
      OBVIOUS
    <3>. QED
      BY <2>4, <3>1, <3>2, <3>3 DEF TypeOK, MapPush
  <2>6. TypeOK'
    BY <1>6, <2>1, <2>3, <2>4, <2>5 DEF TypeOK, ForwardPlan, helperVars
  <2>7. JobOK'
    BY <1>6, <2>1, <2>3 DEF JobOK, ForwardPlan
  <2>. QED
    BY <2>6, <2>7
<1>7. CASE ForwardNoReply
  <2>1. Target \in Ifaces /\ job.name \in Apps \cup {NoName} /\ job.id \in Id
    BY <1>7, TargetFacts DEF ForwardNoReply, Forwarding, JobOK, Target, TypeOK, Job
  <2>2. \A id \in ForwardIds(Target, job.name) : id \in Id
    BY <2>1, ForwardIdFacts
  <2>3. job' = [job EXCEPT !.k = Len(Order) + 1] /\ job.op = "inhibit"
    BY <1>7 DEF ForwardNoReply, Forwarding
  <2>4. /\ job' \in Job /\ job'.op = "inhibit" /\ job'.k = Len(Order) + 1
        /\ job'.id = job.id /\ job'.org = job.org
    BY <2>3, OrderLength DEF TypeOK, Job
  <2>5. \/ lastCookie' = lastCookie /\ held' = held /\ orphans' = orphans
        \/ \E id \in ForwardIds(Target, job.name) :
             lastCookie' = CookieAfter(id) /\ held' = held \cup {id} /\ orphans' = orphans \cup {id}
    BY <1>7 DEF ForwardNoReply
  <2>6. lastCookie' \in [Ifaces -> Nat] /\ held' \subseteq Id /\ orphans' \subseteq Id
    BY <2>2, <2>5, CookieAfterFacts DEF TypeOK
  <2>7. TypeOK'
    BY <1>7, <2>1, <2>4, <2>6 DEF TypeOK, ForwardNoReply, helperVars
  <2>8. JobOK'
    BY <1>7, <2>3, <2>4, OrderLength DEF JobOK, ForwardNoReply
  <2>. QED
    BY <2>7, <2>8
<1>8. CASE ForwardThrow
  <2>1. job.id \in Id
    BY <1>8 DEF ForwardThrow, Forwarding, JobOK, TypeOK
  <2>2. job' \in Job /\ job'.op \in {"idle", "undefined"}
    BY <1>8, ThrownFacts DEF ForwardThrow
  <2>. QED
    BY <1>8, <2>1, <2>2 DEF TypeOK, JobOK, ForwardThrow, helperVars
<1>9. CASE FinishInhibit
  <2>1. job' = Idle /\ job'.op = "idle"
    BY <1>9 DEF FinishInhibit, Idle
  <2>2. lastState' \in [Ifaces -> InhibitType] /\ announced' \in InhibitType
    BY <1>9, InhibitedFacts DEF FinishInhibit, CallEvent, TypeOK
  <2>. QED
    BY <1>9, <2>1, <2>2, IdleFacts DEF TypeOK, JobOK, FinishInhibit, helperVars
<1>10. CASE ReleaseStep
  <2>. DEFINE gone == {plan[job.id][job.k]} \cap DOMAIN active
  <2>1. /\ DOMAIN active' = DOMAIN active \ gone
        /\ \A x \in DOMAIN active' : active'[x] = active[x]
        /\ held' = held \ gone
        /\ lastState' \in [Ifaces -> InhibitType]
    BY <1>10, WithdrawFacts DEF ReleaseStep
  <2>. HIDE DEF gone
  <2>2. job' \in Job /\ job'.op = "uninhibit" /\ job'.k = job.k + 1 /\ job'.id = job.id /\ job'.org = job.org
    <3>1. job' = [job EXCEPT !.k = job.k + 1] /\ job.op = "uninhibit" /\ job \in Job
      BY <1>10 DEF ReleaseStep, Releasing, TypeOK
    <3>. QED
      BY <3>1 DEF Job
  <2>3. TypeOK'
    BY <1>10, <2>1, <2>2 DEF TypeOK, ReleaseStep, helperVars
  <2>4. JobOK'
    BY <1>10, <2>2 DEF JobOK, ReleaseStep, Releasing
  <2>. QED
    BY <2>3, <2>4
<1>14. CASE ReleaseThrow
  <2>1. job.id \in Id
    BY <1>14 DEF ReleaseThrow, Releasing, JobOK
  <2>2. job' \in Job /\ job'.op \in {"idle", "undefined"}
    BY <1>14, ThrownFacts DEF ReleaseThrow
  <2>. QED
    BY <1>14, <2>1, <2>2 DEF TypeOK, JobOK, ReleaseThrow
<1>15. ASSUME NEW j \in Ifaces, HelperDies(j) PROVE TypeInv'
  BY <1>15 DEF HelperDies, TypeOK, JobOK, Target
<1>11. CASE FinishUnInhibit
  <2>1. job' = Idle /\ job'.op = "idle"
    BY <1>11 DEF FinishUnInhibit, Idle
  <2>2. lastState' \in [Ifaces -> InhibitType] /\ announced' \in InhibitType
    BY <1>11, InhibitedFacts DEF FinishUnInhibit, CallEvent, TypeOK
  <2>3. DOMAIN plan' \subseteq Id /\ \A key \in DOMAIN plan' : plan'[key] \in Seq(Id)
    BY <1>11 DEF FinishUnInhibit, TypeOK, MapErase
  <2>4. aborted' \subseteq Id
    BY <1>11 DEF FinishUnInhibit, TypeOK
  <2>. QED
    BY <1>11, <2>1, <2>2, <2>3, <2>4, IdleFacts DEF TypeOK, JobOK, FinishUnInhibit, helperVars
<1>12. CASE Sigint
  <2>. DEFINE gone == DOMAIN active \cap Planned(plan)
  <2>1. /\ DOMAIN active' = DOMAIN active \ gone
        /\ \A x \in DOMAIN active' : active'[x] = active[x]
        /\ held' = held \ gone
        /\ lastState' \in [Ifaces -> InhibitType]
    BY <1>12, WithdrawFacts DEF Sigint
  <2>. HIDE DEF gone
  <2>2. job' \in Job /\ job'.op = "exited"
    BY <1>12 DEF Sigint, TypeOK, Job, Ops, Ended
  <2>3. DOMAIN plan' = {}
    BY <1>12 DEF Sigint, EmptyMap
  <2>. QED
    BY <1>12, <2>1, <2>2, <2>3 DEF TypeOK, JobOK, Sigint, helperVars
<1>16. CASE SigintThrow
  <2>1. PICK gone : Withdraw(gone)
    BY <1>16 DEF SigintThrow
  <2>2. /\ DOMAIN active' = DOMAIN active \ gone
        /\ \A x \in DOMAIN active' : active'[x] = active[x]
        /\ held' = held \ gone
        /\ lastState' \in [Ifaces -> InhibitType]
    BY <2>1, WithdrawFacts
  <2>3. job' \in Job /\ job'.op = "terminated"
    BY <1>16 DEF SigintThrow, TypeOK, Job, Ops, Ended
  <2>. QED
    BY <1>16, <2>2, <2>3 DEF TypeOK, JobOK, SigintThrow, helperVars
<1>13. CASE UNCHANGED vars
  BY <1>13 DEF vars, TypeOK, JobOK, Target
<1>. QED
  BY <1>1, <1>2, <1>3, <1>4, <1>5, <1>6, <1>7, <1>8, <1>9, <1>10, <1>11, <1>12, <1>13,
     <1>14, <1>15, <1>16
     DEF Next, Proceed

\* activeInhibits, releasePlan and the handler's state keep their types in
\* every run of the hub.
THEOREM TypeCorrect == Spec => []TypeOK
<1>1. Spec => []TypeInv
  BY TypeInit, TypeStep, PTL DEF Spec
<1>2. TypeInv => TypeOK
  BY DEF TypeInv
<1>. QED
  BY <1>1, <1>2, PTL

----------------------------------------------------------------------------
(* What was forwarded belongs to one application's inhibit, and lasts      *)
(* exactly as long.  ForwardTracksCause is not inductive: it needs that no *)
(* two plans share an entry (PlanDisjoint), and that the id a forward is   *)
(* about to be planned under was never used before, which rests on the     *)
(* counters being above every id they handed out.                          *)

PlanOK ==
    \A key \in DOMAIN plan :
        /\ key.own = "app"
        /\ \A n \in 1..Len(plan[key]) :
            /\ plan[key][n].own # "app"
            /\ Tracked(plan[key][n].inst) =>
                plan[key][n].cookie <= lastCookie[plan[key][n].inst]

ActiveOK ==
    \A id \in DOMAIN active :
        Tracked(id.inst) /\ id.own # "app" => id.cookie <= lastCookie[id.inst]

PendOK ==
    job.op \in {"called", "activated"} /\ Tracked(Target) =>
        /\ job.pend.cookie <= lastCookie[Target]
        /\ job.op = "called" => job.pend \notin DOMAIN active
        /\ \A key \in DOMAIN plan : \A n \in 1..Len(plan[key]) : plan[key][n] # job.pend

\* A release that was cut short stays so: its plan keeps an entry that is active,
\* that unInhibitCB has not passed and never will, for no helper comes back.
CutStays ==
    \A key \in cut :
        key \in DOMAIN plan /\ \E n \in 1..Len(plan[key]) : Fails(plan[key][n]) /\ ~Undone(key, n)

DeadHelped == \A j \in dead : Helped(j)

HubInv ==
    /\ TypeInv
    /\ PlanOK /\ ActiveOK /\ PendOK
    /\ CutStays /\ DeadHelped
    /\ ForwardTracksCause /\ PlanDisjoint

LEMMA EntryType ==
    ASSUME TypeOK
    PROVE  \A key \in DOMAIN plan : \A n \in 1..Len(plan[key]) :
               /\ plan[key][n] \in Id /\ plan[key][n].inst \in Ifaces
               /\ plan[key][n].cookie \in Nat
               /\ lastCookie[plan[key][n].inst] \in Nat
<1>. SUFFICES ASSUME NEW key \in DOMAIN plan, NEW n \in 1..Len(plan[key])
              PROVE  /\ plan[key][n] \in Id /\ plan[key][n].inst \in Ifaces
                     /\ plan[key][n].cookie \in Nat
                     /\ lastCookie[plan[key][n].inst] \in Nat
  OBVIOUS
<1>1. plan[key] \in Seq(Id)
  BY DEF TypeOK
<1>2. plan[key][n] \in Id
  BY <1>1, ElementOfSeq
<1>3. \A id \in Id : id.inst \in Ifaces /\ id.cookie \in Nat /\ lastCookie[id.inst] \in Nat
  BY DEF TypeOK, Id
<1>. QED
  BY <1>2, <1>3

LEMMA ActiveType ==
    ASSUME TypeOK
    PROVE  \A id \in DOMAIN active :
               /\ id \in Id /\ id.inst \in Ifaces /\ id.cookie \in Nat
               /\ lastCookie[id.inst] \in Nat
BY DEF TypeOK, Id

LEMMA PlannedFacts ==
    ASSUME NEW p, NEW id
    PROVE  id \in Planned(p) <=>
               \E key \in DOMAIN p : \E n \in 1..Len(p[key]) : p[key][n] = id
BY DEF Planned

\* Steps of inhibitCB that change no interface and no plan.
LEMMA QuietStep ==
    ASSUME HubInv, TypeInv', active' = active, plan' = plan,
           \A j \in Ifaces : lastCookie'[j] >= lastCookie[j],
           UNCHANGED helperVars,
           job.op = "inhibit", job'.op \in {"inhibit", "idle", "undefined"}
    PROVE  HubInv'
<1>. USE DEF HubInv, TypeInv, helperVars
<1>1. \A j \in Ifaces : lastCookie[j] \in Nat /\ lastCookie'[j] \in Nat
  BY DEF TypeOK
<1>2. PlanOK'
  BY <1>1, EntryType DEF PlanOK, Tracked
<1>3. ActiveOK'
  BY <1>1, ActiveType DEF ActiveOK, Tracked
<1>4. PendOK'
  BY DEF PendOK
<1>5. CutStays'
  BY DEF CutStays, Fails, Undone
<1>6. DeadHelped'
  BY DEF DeadHelped, Helped
<1>7. ForwardTracksCause'
  <2>1. \A key \in cut : \E n \in 1..Len(plan[key]) : Fails(plan[key][n])
    BY DEF CutStays
  <2>. QED
    BY <2>1 DEF ForwardTracksCause, Fails, Undone, Tracked
<1>8. PlanDisjoint'
  BY DEF PlanDisjoint, Tracked
<1>. QED
  BY <1>2, <1>3, <1>4, <1>5, <1>6, <1>7, <1>8

LEMMA HubInit == Init => HubInv
<1>. SUFFICES ASSUME Init PROVE HubInv
  OBVIOUS
<1>1. TypeInv
  BY TypeInit
<1>2. DOMAIN plan = {} /\ DOMAIN active = {} /\ job.op = "idle" /\ cut = {} /\ dead = {}
  BY DEF Init, EmptyMap, Idle
<1>. QED
  BY <1>1, <1>2 DEF HubInv, CutStays, DeadHelped, PlanOK, ActiveOK, PendOK, ForwardTracksCause,
                    PlanDisjoint

LEMMA HubRegister ==
    ASSUME HubInv, TypeInv', NEW i \in Ifaces, NEW n \in Apps, RegisterInhibit(i, n)
    PROVE  HubInv'
<1>. USE DEF HubInv, TypeInv
<1>1. PICK t \in NativeTypes(i), id \in NativeIds(i, n) :
        /\ active' = MapInsert(active, id, t)
        /\ lastCookie' = CookieAfter(id)
        /\ job' = [op |-> "inhibit", org |-> i, id |-> id, type |-> t,
                   name |-> n, k |-> 1, pend |-> NoId]
  BY DEF RegisterInhibit
<1>2. id \in Id /\ id.own = "app"
  BY NativeIdFacts
<1>3. \A j \in Ifaces : lastCookie'[j] >= lastCookie[j] /\ lastCookie[j] \in Nat
                                                        /\ lastCookie'[j] \in Nat
  BY <1>1, <1>2, CookieAfterFacts DEF TypeOK
<1>4. DOMAIN active' = DOMAIN active \cup {id} /\ plan' = plan /\ dead' = dead /\ cut' = cut
  BY <1>1 DEF MapInsert, RegisterInhibit, helperVars
<1>5. job.op = "idle" /\ job'.op = "inhibit"
  BY <1>1 DEF RegisterInhibit
<1>6. PlanOK'
  BY <1>3, <1>4, EntryType DEF PlanOK, Tracked
<1>7. ActiveOK'
  BY <1>2, <1>3, <1>4, ActiveType DEF ActiveOK, Tracked
<1>8. PendOK'
  BY <1>5 DEF PendOK
<1>9. ForwardTracksCause'
  <2>1. \A key \in DOMAIN plan : \A m \in 1..Len(plan[key]) : plan[key][m] # id
    BY <1>2 DEF PlanOK
  <2>2. \A key \in cut : \E m \in 1..Len(plan[key]) : Fails(plan[key][m])'
    BY <1>4 DEF CutStays, Fails
  <2>. QED
    BY <1>4, <1>5, <2>1, <2>2 DEF ForwardTracksCause, Undone, Tracked
<1>10. PlanDisjoint'
  BY <1>4 DEF PlanDisjoint, Tracked
<1>11. CutStays' /\ DeadHelped'
  BY <1>4, <1>5 DEF CutStays, DeadHelped, Helped, Fails, Undone
<1>. QED
  BY <1>6, <1>7, <1>8, <1>9, <1>10, <1>11

LEMMA HubUnregister ==
    ASSUME HubInv, TypeInv', NEW id \in DOMAIN active, RegisterUnInhibit(id)
    PROVE  HubInv'
<1>. USE DEF HubInv, TypeInv
<1>1. /\ DOMAIN active' = DOMAIN active \ {id} /\ plan' = plan /\ lastCookie' = lastCookie
      /\ dead' = dead /\ cut' = cut
  BY DEF RegisterUnInhibit, MapErase, helperVars
<1>2. job.op = "idle" /\ job'.op = "uninhibit" /\ job'.id = id /\ job'.k = 1
  BY DEF RegisterUnInhibit, Idle
<1>3. id.own = "app" \/ (~Tracked(id.inst) /\ id.inst \notin dead)
  BY DEF RegisterUnInhibit, Tracked, DeadHelped, Helped, FdKinds
<1>4. PlanOK'
  BY <1>1 DEF PlanOK, Tracked
<1>5. ActiveOK'
  BY <1>1 DEF ActiveOK, Tracked
<1>6. PendOK'
  BY <1>2 DEF PendOK
<1>9. \A key \in DOMAIN plan : \A n \in 1..Len(plan[key]) :
        Tracked(plan[key][n].inst) \/ plan[key][n].inst \in dead => plan[key][n] # id
  BY <1>3 DEF PlanOK
<1>10. CutStays' /\ DeadHelped'
  BY <1>1, <1>2, <1>9 DEF CutStays, DeadHelped, Helped, Fails, Undone
<1>7. ForwardTracksCause'
  <2>1. \A key \in cut : \E n \in 1..Len(plan[key]) : Fails(plan[key][n])'
    BY <1>1, <1>10 DEF CutStays
  <2>. SUFFICES ASSUME NEW key \in DOMAIN plan
                PROVE  /\ key \in DOMAIN active' \/ key \in cut \/ job'.id = key
                       /\ key \notin cut => \A n \in 1..Len(plan[key]) :
                            Tracked(plan[key][n].inst) => plan[key][n] \in DOMAIN active'
    BY <1>1, <1>2, <2>1 DEF ForwardTracksCause, Undone, Tracked
  <2>2. key \in DOMAIN active \/ key \in cut
    BY <1>2 DEF ForwardTracksCause
  <2>3. key \notin cut => \A n \in 1..Len(plan[key]) :
            Tracked(plan[key][n].inst) => plan[key][n] \in DOMAIN active
    BY <1>2 DEF ForwardTracksCause, Undone
  <2>. QED
    BY <1>1, <1>2, <1>9, <2>2, <2>3
<1>8. PlanDisjoint'
  BY <1>1 DEF PlanDisjoint, Tracked
<1>. QED
  BY <1>4, <1>5, <1>6, <1>7, <1>8, <1>10

LEMMA HubCall ==
    ASSUME HubInv, TypeInv', ForwardCall
    PROVE  HubInv'
<1>. USE DEF HubInv, TypeInv
<1>1. Target \in Ifaces /\ job.name \in Apps \cup {NoName} /\ job.op = "inhibit"
  BY TargetFacts DEF ForwardCall, Forwarding, JobOK, Target, TypeOK, Job
<1>3. PICK id \in ForwardIds(Target, job.name) :
        /\ job' = [job EXCEPT !.op = "called", !.pend = id]
        /\ lastCookie' = CookieAfter(id)
  BY DEF ForwardCall
<1>13. active' = active /\ plan' = plan /\ dead' = dead /\ cut' = cut
  BY DEF ForwardCall, helperVars
<1>2. /\ id \in Id /\ id.inst = Target /\ id.own # "app"
      /\ Tracked(Target) => id.cookie = lastCookie[Target] + 1
  BY <1>1, ForwardIdFacts
<1>4. job'.op = "called" /\ job'.pend = id /\ Target' = Target
  BY <1>3 DEF TypeOK, Job, Target
<1>5. \A j \in Ifaces : lastCookie'[j] >= lastCookie[j] /\ lastCookie[j] \in Nat
                                                        /\ lastCookie'[j] \in Nat
  BY <1>2, <1>3, CookieAfterFacts DEF TypeOK
<1>6. lastCookie'[Target] >= id.cookie
  BY <1>2, <1>3, CookieAfterFacts
<1>7. PlanOK'
  BY <1>5, <1>13, EntryType DEF PlanOK, Tracked
<1>8. ActiveOK'
  BY <1>5, <1>13, ActiveType DEF ActiveOK, Tracked
<1>9. ASSUME Tracked(Target)
      PROVE  /\ id \notin DOMAIN active
             /\ \A key \in DOMAIN plan : \A n \in 1..Len(plan[key]) : plan[key][n] # id
  <2>1. id.cookie = lastCookie[Target] + 1 /\ lastCookie[Target] \in Nat
    BY <1>1, <1>2, <1>5, <1>9
  <2>2. id \notin DOMAIN active
    BY <1>2, <1>9, <2>1, ActiveType DEF ActiveOK
  <2>3. \A key \in DOMAIN plan : \A n \in 1..Len(plan[key]) : plan[key][n] # id
    BY <1>2, <1>9, <2>1, EntryType DEF PlanOK
  <2>. QED
    BY <2>2, <2>3
<1>10. PendOK'
  <2>1. id.cookie \in Nat
    BY <1>2 DEF Id
  <2>. QED
    BY <1>1, <1>4, <1>5, <1>6, <1>9, <1>13, <2>1 DEF PendOK, Tracked
<1>11. ForwardTracksCause'
  <2>1. \A key \in cut : \E n \in 1..Len(plan[key]) : Fails(plan[key][n])
    BY DEF CutStays
  <2>. QED
    BY <1>1, <1>4, <1>13, <2>1 DEF ForwardTracksCause, Fails, Undone, Tracked
<1>12. PlanDisjoint'
  BY <1>13 DEF PlanDisjoint, Tracked
<1>14. CutStays' /\ DeadHelped'
  BY <1>1, <1>4, <1>13 DEF CutStays, DeadHelped, Helped, Fails, Undone
<1>. QED
  BY <1>7, <1>8, <1>10, <1>11, <1>12, <1>14

LEMMA HubActivate ==
    ASSUME HubInv, TypeInv', ForwardActivate
    PROVE  HubInv'
<1>. USE DEF HubInv, TypeInv
<1>1. /\ DOMAIN active' = DOMAIN active \cup {job.pend} /\ job.op = "called"
      /\ plan' = plan /\ lastCookie' = lastCookie /\ dead' = dead /\ cut' = cut
  BY DEF ForwardActivate, MapInsert, helperVars
<1>2. job'.op = "activated" /\ job'.pend = job.pend /\ job'.id = job.id /\ Target' = Target
  BY DEF ForwardActivate, TypeOK, Job, Target
<1>3. job.pend \in Id /\ job.pend.inst = Target /\ job.pend.own # "app"
  BY <1>1 DEF JobOK
<1>4. PlanOK'
  BY <1>1 DEF PlanOK, Tracked
<1>5. ActiveOK'
  BY <1>1, <1>3 DEF ActiveOK, PendOK, Tracked
<1>6. PendOK'
  BY <1>1, <1>2 DEF PendOK, Tracked
<1>7. ForwardTracksCause'
  <2>1. \A key \in DOMAIN plan \ cut : \A n \in 1..Len(plan[key]) :
            Tracked(plan[key][n].inst) => plan[key][n] \in DOMAIN active
    BY <1>1 DEF ForwardTracksCause, Undone
  <2>2. \A key \in DOMAIN plan : key \in DOMAIN active \/ key \in cut
    BY <1>1 DEF ForwardTracksCause
  <2>3. \A key \in cut : \E n \in 1..Len(plan[key]) : Fails(plan[key][n])'
    BY <1>1 DEF CutStays, Fails
  <2>. QED
    BY <1>1, <1>2, <2>1, <2>2, <2>3 DEF ForwardTracksCause, Undone, Tracked
<1>8. PlanDisjoint'
  BY <1>1 DEF PlanDisjoint, Tracked
<1>9. CutStays' /\ DeadHelped'
  BY <1>1, <1>2 DEF CutStays, DeadHelped, Helped, Fails, Undone
<1>. QED
  BY <1>4, <1>5, <1>6, <1>7, <1>8, <1>9

\* push_back: the plan of the inhibit being forwarded grows by one entry.
LEMMA PushedEntries ==
    ASSUME TypeOK, job.id \in Id, job.pend \in Id, plan' = MapPush(plan, job.id, job.pend)
    PROVE  /\ DOMAIN plan' = DOMAIN plan \cup {job.id}
           /\ \A key \in DOMAIN plan \ {job.id} : plan'[key] = plan[key]
           /\ job.id \in DOMAIN plan =>
                /\ Len(plan'[job.id]) = Len(plan[job.id]) + 1
                /\ Len(plan[job.id]) \in Nat
                /\ \A n \in 1..Len(plan[job.id]) : plan'[job.id][n] = plan[job.id][n]
           /\ job.id \notin DOMAIN plan => Len(plan'[job.id]) = 1
           /\ plan'[job.id][Len(plan'[job.id])] = job.pend
<1>1. DOMAIN plan' = DOMAIN plan \cup {job.id}
  BY DEF MapPush
<1>2. \A key \in DOMAIN plan \ {job.id} : plan'[key] = plan[key]
  BY DEF MapPush
<1>3. CASE job.id \in DOMAIN plan
  <2>1. plan'[job.id] = Append(plan[job.id], job.pend) /\ plan[job.id] \in Seq(Id)
    BY <1>3 DEF MapPush, TypeOK
  <2>. QED
    BY <1>1, <1>2, <1>3, <2>1, AppendProperties, LenProperties
<1>4. CASE job.id \notin DOMAIN plan
  <2>1. plan'[job.id] = Append(<<>>, job.pend)
    BY <1>4 DEF MapPush
  <2>2. plan'[job.id] = <<job.pend>>
    BY <2>1
  <2>. QED
    BY <1>1, <1>2, <1>4, <2>2
<1>. QED
  BY <1>3, <1>4

LEMMA PushedPlan ==
    ASSUME TypeOK, job.id \in Id, job.pend \in Id, plan' = MapPush(plan, job.id, job.pend)
    PROVE  LET last == Len(plan'[job.id])
           IN  /\ DOMAIN plan' = DOMAIN plan \cup {job.id} /\ last \in Nat /\ last >= 1
               /\ plan'[job.id][last] = job.pend
               /\ \A key \in DOMAIN plan' : \A n \in 1..Len(plan'[key]) :
                    \/ key = job.id /\ n = last
                    \/ /\ key \in DOMAIN plan /\ n \in 1..Len(plan[key])
                       /\ plan'[key][n] = plan[key][n]
               /\ \A key \in DOMAIN plan : \A n \in 1..Len(plan[key]) :
                    n \in 1..Len(plan'[key]) /\ plan'[key][n] = plan[key][n]
<1>. DEFINE last == Len(plan'[job.id])
<1>1. /\ DOMAIN plan' = DOMAIN plan \cup {job.id} /\ plan'[job.id][last] = job.pend
      /\ \A key \in DOMAIN plan \ {job.id} : plan'[key] = plan[key]
  BY PushedEntries
<1>2. CASE job.id \in DOMAIN plan
  <2>1. /\ last = Len(plan[job.id]) + 1 /\ Len(plan[job.id]) \in Nat
        /\ \A n \in 1..Len(plan[job.id]) : plan'[job.id][n] = plan[job.id][n]
    BY <1>2, PushedEntries
  <2>. QED
    BY <1>1, <1>2, <2>1
<1>3. CASE job.id \notin DOMAIN plan
  <2>1. last = 1
    BY <1>3, PushedEntries
  <2>2. \A n \in 1..last : n = last
    BY <2>1
  <2>. QED
    BY <1>1, <1>3, <2>1, <2>2
<1>. QED
  BY <1>2, <1>3

LEMMA HubPlan ==
    ASSUME HubInv, TypeInv', ForwardPlan
    PROVE  HubInv'
<1>. USE DEF HubInv, TypeInv
<1>1. /\ job.op = "activated" /\ active' = active /\ lastCookie' = lastCookie
      /\ plan' = MapPush(plan, job.id, job.pend) /\ dead' = dead /\ cut' = cut
  BY DEF ForwardPlan, helperVars
<1>2. job'.op = "inhibit"
  BY DEF ForwardPlan, TypeOK, Job
<1>3. /\ job.id \in Id /\ job.pend \in Id /\ job.id.own = "app" /\ job.id \in DOMAIN active
      /\ job.pend \in DOMAIN active /\ job.pend.own # "app" /\ job.pend.inst = Target
  BY <1>1 DEF JobOK, TypeOK
<1>. DEFINE last == Len(plan'[job.id])
<1>4. /\ DOMAIN plan' = DOMAIN plan \cup {job.id} /\ last \in Nat /\ last >= 1
      /\ plan'[job.id][last] = job.pend
      /\ \A key \in DOMAIN plan' : \A n \in 1..Len(plan'[key]) :
            \/ key = job.id /\ n = last
            \/ /\ key \in DOMAIN plan /\ n \in 1..Len(plan[key])
               /\ plan'[key][n] = plan[key][n]
      /\ \A key \in DOMAIN plan : \A n \in 1..Len(plan[key]) :
            n \in 1..Len(plan'[key]) /\ plan'[key][n] = plan[key][n]
  BY <1>1, <1>3, PushedPlan
<1>. HIDE DEF last
<1>5. CutStays' /\ DeadHelped'
  <2>1. CutStays'
    BY <1>1, <1>2, <1>4 DEF CutStays, Fails, Undone
  <2>2. DeadHelped'
    BY <1>1 DEF DeadHelped, Helped
  <2>. QED
    BY <2>1, <2>2
<1>6. PlanOK'
  BY <1>1, <1>3, <1>4 DEF PlanOK, PendOK, Tracked
<1>7. ActiveOK'
  BY <1>1 DEF ActiveOK, Tracked
<1>8. PendOK'
  BY <1>2 DEF PendOK
<1>9. ForwardTracksCause'
  <2>1. \A key \in DOMAIN plan \ cut : \A n \in 1..Len(plan[key]) :
            Tracked(plan[key][n].inst) => plan[key][n] \in DOMAIN active
    BY <1>1 DEF ForwardTracksCause, Undone
  <2>2. \A key \in DOMAIN plan : key \in DOMAIN active \/ key \in cut
    BY <1>1 DEF ForwardTracksCause
  <2>3. \A key \in cut' : (\E n \in 1..Len(plan[key]) : Fails(plan[key][n]))'
    BY <1>1, <1>5 DEF CutStays
  <2>. SUFFICES ASSUME NEW key \in DOMAIN plan'
                PROVE  /\ key \in DOMAIN active' \/ key \in cut
                       /\ key \notin cut => \A n \in 1..Len(plan'[key]) :
                            Tracked(plan'[key][n].inst) => plan'[key][n] \in DOMAIN active'
    BY <1>1, <1>2, <2>3 DEF ForwardTracksCause, Undone, Tracked
  <2>4. key \in DOMAIN active' \/ key \in cut
    BY <1>1, <1>3, <1>4, <2>2
  <2>5. ASSUME key \notin cut, NEW n \in 1..Len(plan'[key]), Tracked(plan'[key][n].inst)
        PROVE  plan'[key][n] \in DOMAIN active'
    <3>1. CASE key = job.id /\ n = last
      BY <1>1, <1>3, <1>4, <3>1
    <3>2. CASE ~(key = job.id /\ n = last)
      <4>1. /\ key \in DOMAIN plan /\ n \in 1..Len(plan[key])
            /\ plan'[key][n] = plan[key][n]
        BY <1>4, <3>2
      <4>. QED
        BY <1>1, <2>1, <2>5, <4>1
    <3>. QED
      BY <3>1, <3>2
  <2>. QED
    BY <2>4, <2>5
<1>10. PlanDisjoint'
  <2>1. Tracked(Target) => \A key \in DOMAIN plan : \A n \in 1..Len(plan[key]) : plan[key][n] # job.pend
    BY <1>1 DEF PendOK
  <2>. SUFFICES ASSUME NEW k1 \in DOMAIN plan', NEW k2 \in DOMAIN plan',
                       NEW m \in 1..Len(plan'[k1]), NEW n \in 1..Len(plan'[k2]),
                       plan'[k1][m] = plan'[k2][n], Tracked(plan'[k1][m].inst)
                PROVE  k1 = k2 /\ m = n
    BY DEF PlanDisjoint, Tracked
  <2>2. CASE k1 = job.id /\ m = last
    BY <1>3, <1>4, <2>1, <2>2
  <2>3. CASE k2 = job.id /\ n = last
    BY <1>3, <1>4, <2>1, <2>3
  <2>4. CASE ~(k1 = job.id /\ m = last) /\ ~(k2 = job.id /\ n = last)
    <3>1. /\ k1 \in DOMAIN plan /\ m \in 1..Len(plan[k1]) /\ plan'[k1][m] = plan[k1][m]
          /\ k2 \in DOMAIN plan /\ n \in 1..Len(plan[k2]) /\ plan'[k2][n] = plan[k2][n]
      BY <1>4, <2>4
    <3>2. plan[k1][m] = plan[k2][n] /\ Tracked(plan[k1][m].inst)
      BY <3>1
    <3>. QED
      BY <3>1, <3>2 DEF PlanDisjoint
  <2>. QED
    BY <2>2, <2>3, <2>4
<1>. QED
  BY <1>5, <1>6, <1>7, <1>8, <1>9, <1>10

LEMMA HubRelease ==
    ASSUME HubInv, TypeInv', ReleaseStep
    PROVE  HubInv'
<1>. USE DEF HubInv, TypeInv
<1>. DEFINE r == plan[job.id][job.k]
<1>1. /\ job.op = "uninhibit" /\ job.id \in DOMAIN plan /\ job.k \in 1..Len(plan[job.id])
      /\ job.k \in Nat
  BY DEF ReleaseStep, Releasing, JobOK
<1>2. r \in Id /\ r.own # "app"
  BY <1>1, EntryType DEF PlanOK
<1>. HIDE DEF r
<1>3. /\ plan' = plan /\ lastCookie' = lastCookie /\ DOMAIN active' = DOMAIN active \ {r}
      /\ dead' = dead /\ cut' = cut
  <2>1. Withdraw({r} \cap DOMAIN active)
    BY DEF ReleaseStep, r
  <2>2. DOMAIN active' = DOMAIN active \ ({r} \cap DOMAIN active)
    BY <2>1, WithdrawFacts
  <2>. QED
    BY <2>2 DEF ReleaseStep, helperVars
<1>4. job'.op = "uninhibit" /\ job'.id = job.id /\ job'.k = job.k + 1
  BY DEF ReleaseStep, Releasing, TypeOK, Job
<1>10. ~Fails(r)
  BY DEF ReleaseStep, r
<1>11. CutStays' /\ DeadHelped'
  <2>1. ASSUME NEW key \in cut
        PROVE  (key \in DOMAIN plan /\ \E n \in 1..Len(plan[key]) : Fails(plan[key][n]) /\ ~Undone(key, n))'
    <3>1. PICK n \in 1..Len(plan[key]) : Fails(plan[key][n]) /\ ~Undone(key, n)
      BY DEF CutStays
    <3>2. plan[key][n] # r /\ (key = job.id => n >= job.k /\ n # job.k)
      BY <1>1, <1>10, <3>1 DEF Undone, r
    <3>3. Fails(plan[key][n])' /\ ~Undone(key, n)'
      BY <1>1, <1>3, <1>4, <3>1, <3>2 DEF Fails, Undone
    <3>. QED
      BY <1>3, <3>3 DEF CutStays
  <2>. QED
    BY <1>3, <2>1 DEF CutStays, DeadHelped, Helped
<1>5. PlanOK'
  BY <1>3 DEF PlanOK, Tracked
<1>6. ActiveOK'
  BY <1>3 DEF ActiveOK, Tracked
<1>7. PendOK'
  BY <1>4 DEF PendOK
<1>8. ForwardTracksCause'
  <2>3. \A key \in cut : \E n \in 1..Len(plan[key]) : Fails(plan[key][n])'
    BY <1>3, <1>11 DEF CutStays
  <2>. SUFFICES ASSUME NEW key \in DOMAIN plan
                PROVE  /\ key \in DOMAIN active' \/ key \in cut \/ job.id = key
                       /\ key \notin cut => \A n \in 1..Len(plan[key]) :
                            Tracked(plan[key][n].inst) =>
                                (plan[key][n] \in DOMAIN active' <=> ~(job.id = key /\ n < job.k + 1))
    BY <1>3, <1>4, <2>3 DEF ForwardTracksCause, Undone, Tracked
  <2>1. key \in DOMAIN active' \/ key \in cut \/ job.id = key
    BY <1>1, <1>2, <1>3 DEF ForwardTracksCause, PlanOK
  <2>2. ASSUME NEW n \in 1..Len(plan[key]), Tracked(plan[key][n].inst), key \notin cut
        PROVE  plan[key][n] \in DOMAIN active' <=> ~(job.id = key /\ n < job.k + 1)
    <3>1. plan[key][n] \in DOMAIN active <=> ~(job.id = key /\ n < job.k)
      BY <1>1, <2>2 DEF ForwardTracksCause, Undone
    <3>2. plan[key][n] = r <=> key = job.id /\ n = job.k
      BY <1>1, <2>2 DEF PlanDisjoint, r
    <3>. QED
      BY <1>1, <1>3, <3>1, <3>2
  <2>. QED
    BY <2>1, <2>2
<1>9. PlanDisjoint'
  BY <1>3 DEF PlanDisjoint, Tracked
<1>. QED
  BY <1>5, <1>6, <1>7, <1>8, <1>9, <1>11

\* The plan stays, with the entry that threw.
LEMMA HubReleaseThrow ==
    ASSUME HubInv, TypeInv', ReleaseThrow
    PROVE  HubInv'
<1>. USE DEF HubInv, TypeInv
<1>1. /\ job.op = "uninhibit" /\ job.id \in DOMAIN plan /\ job.k \in 1..Len(plan[job.id])
      /\ Fails(plan[job.id][job.k])
  BY DEF ReleaseThrow, Releasing, JobOK
<1>2. /\ active' = active /\ plan' = plan /\ lastCookie' = lastCookie /\ dead' = dead
      /\ cut' = cut \cup {job.id}
  BY DEF ReleaseThrow
<1>3. job'.op \in {"idle", "undefined"}
  BY ThrownFacts DEF ReleaseThrow
<1>4. PlanOK' /\ ActiveOK' /\ PendOK' /\ PlanDisjoint' /\ DeadHelped'
  BY <1>2, <1>3 DEF PlanOK, ActiveOK, PendOK, PlanDisjoint, DeadHelped, Helped, Tracked
<1>5. CutStays'
  BY <1>1, <1>2, <1>3 DEF CutStays, Fails, Undone
<1>6. ForwardTracksCause'
  <2>1. \A key \in cut' : \E n \in 1..Len(plan[key]) : Fails(plan[key][n])'
    BY <1>2, <1>5 DEF CutStays
  <2>. QED
    BY <1>1, <1>2, <1>3, <2>1 DEF ForwardTracksCause, Undone, Tracked
<1>. QED
  BY <1>4, <1>5, <1>6

LEMMA HubHelperDies ==
    ASSUME HubInv, TypeInv', NEW j \in Ifaces, HelperDies(j)
    PROVE  HubInv'
<1>. USE DEF HubInv, TypeInv
<1>1. /\ active' = active /\ plan' = plan /\ lastCookie' = lastCookie /\ job' = job
      /\ dead' = dead \cup {j} /\ cut' = cut /\ Helped(j)
  BY DEF HelperDies
<1>2. PlanOK' /\ ActiveOK' /\ PendOK' /\ PlanDisjoint'
  BY <1>1 DEF PlanOK, ActiveOK, PendOK, PlanDisjoint, Tracked, Target
<1>3. CutStays' /\ DeadHelped'
  BY <1>1 DEF CutStays, DeadHelped, Helped, Fails, Undone
<1>4. ForwardTracksCause'
  BY <1>1 DEF ForwardTracksCause, Fails, Undone, Tracked
<1>. QED
  BY <1>2, <1>3, <1>4

LEMMA HubFinishRelease ==
    ASSUME HubInv, TypeInv', FinishUnInhibit
    PROVE  HubInv'
<1>. USE DEF HubInv, TypeInv
<1>1. /\ job.op = "uninhibit" /\ active' = active /\ lastCookie' = lastCookie
      /\ DOMAIN plan' = DOMAIN plan \ {job.id}
      /\ \A key \in DOMAIN plan' : plan'[key] = plan[key]
      /\ job'.op = "idle" /\ dead' = dead /\ cut' = cut
  BY DEF FinishUnInhibit, MapErase, Idle, helperVars
<1>2. PlanOK'
  BY <1>1 DEF PlanOK, Tracked
<1>3. ActiveOK'
  BY <1>1 DEF ActiveOK, Tracked
<1>4. PendOK'
  BY <1>1 DEF PendOK
<1>5. job.id \notin cut
  <2>. SUFFICES ASSUME job.id \in cut PROVE FALSE
    OBVIOUS
  <2>1. PICK n \in 1..Len(plan[job.id]) : ~Undone(job.id, n)
    BY DEF CutStays
  <2>2. job.id \in DOMAIN plan /\ n >= job.k
    BY <1>1, <2>1 DEF CutStays, Undone, JobOK
  <2>3. Len(plan[job.id]) \in Nat /\ job.k <= Len(plan[job.id])
    BY <1>1, <2>1, <2>2, LenProperties DEF TypeOK, JobOK
  <2>. QED
    BY <1>1, <2>2, <2>3 DEF FinishUnInhibit, Releasing
<1>6. CutStays' /\ DeadHelped'
  BY <1>1, <1>5 DEF CutStays, DeadHelped, Helped, Fails, Undone
<1>7. ForwardTracksCause'
  <2>1. \A key \in cut' : (\E n \in 1..Len(plan[key]) : Fails(plan[key][n]))'
    BY <1>1, <1>6 DEF CutStays
  <2>. QED
    BY <1>1, <2>1 DEF ForwardTracksCause, Undone, Tracked
<1>8. PlanDisjoint'
  BY <1>1 DEF PlanDisjoint, Tracked
<1>. QED
  BY <1>2, <1>3, <1>4, <1>6, <1>7, <1>8

LEMMA HubExit ==
    ASSUME HubInv, TypeInv', Sigint
    PROVE  HubInv'
<1>. USE DEF HubInv, TypeInv
<1>1. /\ DOMAIN active' \subseteq DOMAIN active /\ DOMAIN plan' = {}
      /\ lastCookie' = lastCookie /\ dead' = dead /\ cut' = cut
  BY WithdrawFacts DEF Sigint, EmptyMap, helperVars
<1>2. job'.op = "exited" /\ job'.pend = job.pend
  BY DEF Sigint, TypeOK, Job
<1>3. ActiveOK' /\ DeadHelped'
  BY <1>1 DEF ActiveOK, Tracked, DeadHelped, Helped
<1>4. cut = {}
  <2>. SUFFICES ASSUME NEW key \in cut PROVE FALSE
    OBVIOUS
  <2>1. PICK n \in 1..Len(plan[key]) : Fails(plan[key][n]) /\ key \in DOMAIN plan
    BY DEF CutStays
  <2>2. plan[key][n] \in Planned(plan)
    BY <2>1, PlannedFacts
  <2>. QED
    BY <2>1, <2>2 DEF Sigint
<1>. QED
  BY <1>1, <1>2, <1>3, <1>4 DEF PlanOK, PendOK, CutStays, ForwardTracksCause, PlanDisjoint

LEMMA HubTerminate ==
    ASSUME HubInv, TypeInv', SigintThrow
    PROVE  HubInv'
<1>. USE DEF HubInv, TypeInv
<1>1. PICK gone : /\ Withdraw(gone)
                  /\ \A id \in gone : ~Fails(id)
  BY DEF SigintThrow
<1>2. /\ DOMAIN active' = DOMAIN active \ gone /\ plan' = plan
      /\ lastCookie' = lastCookie /\ dead' = dead /\ cut' = cut
  BY <1>1, WithdrawFacts DEF SigintThrow, helperVars
<1>3. job'.op = "terminated"
  BY DEF SigintThrow, TypeOK, Job
<1>4. PlanOK' /\ ActiveOK' /\ PendOK' /\ PlanDisjoint' /\ DeadHelped'
  BY <1>2, <1>3 DEF PlanOK, ActiveOK, PendOK, PlanDisjoint, DeadHelped, Helped, Tracked
<1>5. CutStays'
  BY <1>1, <1>2, <1>3 DEF CutStays, Fails, Undone
<1>6. ForwardTracksCause'
  BY <1>3 DEF ForwardTracksCause
<1>. QED
  BY <1>4, <1>5, <1>6

LEMMA HubStep == HubInv /\ [Next]_vars => HubInv'
<1>. SUFFICES ASSUME HubInv, [Next]_vars PROVE HubInv'
  OBVIOUS
<1>1. TypeInv' /\ TypeInv
  BY TypeStep DEF HubInv
<1>2. \A j \in Ifaces : lastCookie[j] \in Nat
  BY <1>1 DEF TypeInv, TypeOK
<1>3. ASSUME NEW i \in Ifaces, NEW n \in Apps, RegisterInhibit(i, n) PROVE HubInv'
  BY <1>1, <1>3, HubRegister
<1>4. ASSUME NEW id \in DOMAIN active, RegisterUnInhibit(id) PROVE HubInv'
  BY <1>1, <1>4, HubUnregister
<1>5. CASE ForwardSkip
  <2>1. job'.op = "inhibit" /\ job.op = "inhibit"
    BY <1>1, <1>5 DEF ForwardSkip, Forwarding, TypeInv, TypeOK, Job
  <2>. QED
    BY <1>1, <1>2, <1>5, <2>1, QuietStep DEF ForwardSkip
<1>6. CASE ForwardCall
  BY <1>1, <1>6, HubCall
<1>7. CASE ForwardActivate
  BY <1>1, <1>7, HubActivate
<1>8. CASE ForwardPlan
  BY <1>1, <1>8, HubPlan
<1>9. CASE ForwardNoReply
  <2>1. job'.op = "inhibit" /\ job.op = "inhibit"
    BY <1>1, <1>9 DEF ForwardNoReply, Forwarding, TypeInv, TypeOK, Job
  <2>2. \A id \in ForwardIds(Target, job.name) : id \in Id
    BY <1>1, <1>9, TargetFacts, ForwardIdFacts
       DEF ForwardNoReply, Forwarding, TypeInv, JobOK, Target, TypeOK, Job
  <2>3. \A j \in Ifaces : lastCookie'[j] >= lastCookie[j]
    BY <1>1, <1>2, <1>9, <2>2, CookieAfterFacts DEF ForwardNoReply, TypeInv
  <2>. QED
    BY <1>1, <1>9, <2>1, <2>3, QuietStep DEF ForwardNoReply
<1>10. CASE ForwardThrow
  <2>1. job'.op \in {"idle", "undefined"} /\ job.op = "inhibit"
    BY <1>10, ThrownFacts DEF ForwardThrow, Forwarding
  <2>. QED
    BY <1>1, <1>2, <1>10, <2>1, QuietStep DEF ForwardThrow
<1>11. CASE FinishInhibit
  <2>1. job'.op = "idle" /\ job.op = "inhibit"
    BY <1>11 DEF FinishInhibit, Idle
  <2>. QED
    BY <1>1, <1>2, <1>11, <2>1, QuietStep DEF FinishInhibit
<1>12. CASE ReleaseStep
  BY <1>1, <1>12, HubRelease
<1>13. CASE FinishUnInhibit
  BY <1>1, <1>13, HubFinishRelease
<1>14. CASE Sigint
  BY <1>1, <1>14, HubExit
<1>16. CASE ReleaseThrow
  BY <1>1, <1>16, HubReleaseThrow
<1>17. ASSUME NEW j \in Ifaces, HelperDies(j) PROVE HubInv'
  BY <1>1, <1>17, HubHelperDies
<1>18. CASE SigintThrow
  BY <1>1, <1>18, HubTerminate
<1>15. CASE UNCHANGED vars
  BY <1>1, <1>15 DEF HubInv, vars, PlanOK, ActiveOK, PendOK, ForwardTracksCause, Undone,
                     CutStays, DeadHelped, Helped, Fails, PlanDisjoint, Tracked, Target
<1>. QED
  BY <1>3, <1>4, <1>5, <1>6, <1>7, <1>8, <1>9, <1>10, <1>11, <1>12, <1>13, <1>14, <1>15,
     <1>16, <1>17, <1>18
     DEF Next, Proceed

LEMMA HubInvariant == Spec => []HubInv
BY HubInit, HubStep, PTL DEF Spec

\* What inhibitCB forwarded stays active exactly until unInhibitCB reaches it
\* on behalf of the inhibit it was forwarded for.
THEOREM ForwardTracking == Spec => []ForwardTracksCause
<1>1. HubInv => ForwardTracksCause
  BY DEF HubInv
<1>. QED
  BY <1>1, HubInvariant, PTL

\* Releasing one application's inhibit never releases another's.
THEOREM PlansDisjoint == Spec => []PlanDisjoint
<1>1. HubInv => PlanDisjoint
  BY DEF HubInv
<1>. QED
  BY <1>1, HubInvariant, PTL

=============================================================================
