------------------------ MODULE HubRefinementProofs -------------------------
(***************************************************************************)
(* Proof that the hub implements UnifiedInhibit, for every vector of       *)
(* interfaces: each step of it is a step of the promise or changes nothing *)
(* the promise speaks of.                                                  *)
(***************************************************************************)
EXTENDS HubRefinement, HubSharingProofs

\* f was forwarded for key, by a plan or by the inhibitCB in progress.
Forward(key, f) ==
    \/ key \in DOMAIN plan /\ \E n \in 1..Len(plan[key]) : plan[key][n] = f
    \/ job.op = "activated" /\ job.id = key /\ job.pend = f

\* f is a copy of key that is in force.
Copied(key, f) == Forward(key, f) /\ f \in DOMAIN active /\ Tracked(f.inst)

Stopped == job.op \in Ended

\* InForce, read as the copies one by one.
InForceMeans == \A c : c \in InForce <=> \E key, f : Copied(key, f) /\ c = <<key, f.inst>>

LEMMA InForceIs == InForceMeans
BY DEF InForceMeans, InForce, ForwardsOf, Copied, Forward

\* A step that leaves the copies as they are.
LEMMA SameCopies ==
    ASSUME \A key, f : Copied(key, f)' <=> Copied(key, f)
    PROVE  InForce' = InForce
<1>1. InForceMeans'
  BY InForceIs, PTL
<1>. QED
  BY <1>1, InForceIs DEF InForceMeans

LEMMA AbstractInit == Init => Abstract!Start
<1>. SUFFICES ASSUME Init PROVE Abstract!Start
  OBVIOUS
<1>1. DOMAIN active = {} /\ DOMAIN plan = {} /\ job.op = "idle"
  BY DEF Init, EmptyMap, Idle
<1>2. Asking = {} /\ InForce = {}
  BY <1>1 DEF Asking, InForce
<1>. QED
  BY <1>1, <1>2 DEF Abstract!Start, Ended

\* What is copied and what was let go, as a step of the promise sees it.
AbstractStep == Abstract!Step \/ UNCHANGED Abstract!absVars

LEMMA Stutters ==
    ASSUME Asking' = Asking, InForce' = InForce, Stopped' <=> Stopped
    PROVE  AbstractStep
BY DEF AbstractStep, Abstract!absVars, Stopped

LEMMA AbstractRegister ==
    ASSUME HubInv, NEW i \in Ifaces, NEW n \in Apps, RegisterInhibit(i, n)
    PROVE  AbstractStep
<1>1. PICK t \in NativeTypes(i), id \in NativeIds(i, n) :
        active' = MapInsert(active, id, t) /\ job'.op = "inhibit"
  BY DEF RegisterInhibit
<1>2. id.own = "app" /\ job.op = "idle" /\ plan' = plan
  BY NativeIdFacts DEF HubInv, TypeInv, RegisterInhibit
<1>3. DOMAIN active' = DOMAIN active \cup {id}
  BY <1>1 DEF MapInsert
<1>4. ~Stopped /\ ~Stopped'
  BY <1>1, <1>2 DEF Stopped, Ended
<1>5. InForce' = InForce
  <2>1. \A key \in DOMAIN plan : \A m \in 1..Len(plan[key]) : plan[key][m] # id
    BY <1>2 DEF HubInv, PlanOK
  <2>2. ASSUME NEW key, NEW f PROVE Copied(key, f)' <=> Copied(key, f)
    BY <1>1, <1>2, <1>3, <2>1 DEF Copied, Forward, Tracked
  <2>. QED
    BY <2>2, SameCopies
<1>6. Asking' = Asking \cup {id}
  BY <1>2, <1>3 DEF Asking
<1>7. CASE id \in Asking
  BY <1>4, <1>5, <1>6, <1>7, Stutters
<1>8. CASE id \notin Asking
  BY <1>4, <1>5, <1>6, <1>8 DEF AbstractStep, Abstract!Step, Abstract!Ask, Stopped
<1>. QED
  BY <1>7, <1>8

LEMMA AbstractUnregister ==
    ASSUME HubInv, NEW id \in DOMAIN active, RegisterUnInhibit(id)
    PROVE  AbstractStep
<1>1. /\ DOMAIN active' = DOMAIN active \ {id} /\ plan' = plan
      /\ job.op = "idle" /\ job'.op = "uninhibit"
      /\ id.own = "app" \/ (id.own = "us" /\ ~Tracked(id.inst))
  BY DEF RegisterUnInhibit, MapErase, Idle, Tracked
<1>2. InForce' = InForce
  <2>1. \A key \in DOMAIN plan : \A m \in 1..Len(plan[key]) : plan[key][m].own # "app"
    BY DEF HubInv, PlanOK
  <2>2. ASSUME NEW key, NEW f PROVE Copied(key, f)' <=> Copied(key, f)
    BY <1>1, <2>1 DEF Copied, Forward, Tracked
  <2>. QED
    BY <2>2, SameCopies
<1>3. ~Stopped /\ ~Stopped'
  BY <1>1 DEF Stopped, Ended
<1>4. CASE id.own = "app"
  <2>1. id \in Asking /\ Asking' = Asking \ {id}
    BY <1>1, <1>4 DEF Asking
  <2>. QED
    BY <1>2, <1>3, <2>1 DEF AbstractStep, Abstract!Step, Abstract!LetGo, Stopped
<1>5. CASE id.own # "app"
  <2>1. Asking' = Asking
    BY <1>1, <1>5 DEF Asking
  <2>. QED
    BY <1>2, <1>3, <2>1, Stutters
<1>. QED
  BY <1>4, <1>5

\* Steps of a handler that register nothing and plan nothing.
LEMMA AbstractQuiet ==
    ASSUME job.op \in {"inhibit", "uninhibit"},
           job'.op \in {"inhibit", "called", "idle", "undefined"},
           active' = active, plan' = plan
    PROVE  AbstractStep
<1>1. Asking' = Asking /\ ~Stopped
  BY DEF Asking, Stopped, Ended
<1>2. InForce' = InForce
  <2>1. ASSUME NEW key, NEW f PROVE Copied(key, f)' <=> Copied(key, f)
    BY DEF Copied, Forward, Tracked
  <2>. QED
    BY <2>1, SameCopies
<1>3. CASE Stopped'
  BY <1>1, <1>2, <1>3 DEF AbstractStep, Abstract!Step, Abstract!Stop, Stopped
<1>4. CASE ~Stopped'
  BY <1>1, <1>2, <1>4, Stutters
<1>. QED
  BY <1>3, <1>4

LEMMA AbstractActivate ==
    ASSUME HubInv, ShareInv, ForwardActivate
    PROVE  AbstractStep
<1>1. /\ job.op = "called" /\ plan' = plan /\ DOMAIN active' = DOMAIN active \cup {job.pend}
  BY DEF ForwardActivate, MapInsert
<1>2. job'.op = "activated" /\ job'.id = job.id /\ job'.pend = job.pend
  BY DEF ForwardActivate, HubInv, TypeInv, TypeOK, Job
<1>3. /\ job.pend.inst = Target /\ job.pend.own # "app"
      /\ job.id \in Asking /\ Target # job.id.inst
  BY <1>1 DEF HubInv, TypeInv, JobOK, Asking, ShareInv, JobAgrees, Handling, AskedActive
<1>4. ~Stopped /\ ~Stopped' /\ Asking' = Asking
  BY <1>1, <1>2, <1>3 DEF Stopped, Ended, Asking
<1>5. Tracked(Target) =>
        \A key \in DOMAIN plan : \A n \in 1..Len(plan[key]) : plan[key][n] # job.pend
  BY <1>1 DEF HubInv, PendOK
<1>6. ASSUME NEW key, NEW f
      PROVE  Copied(key, f)' <=>
                Copied(key, f) \/ (Tracked(Target) /\ key = job.id /\ f = job.pend)
  BY <1>1, <1>2, <1>3, <1>5 DEF Copied, Forward, Tracked
<1>7. CASE Tracked(Target)
  <2>. DEFINE c == <<job.id, Target>>
  <2>1. InForce' = InForce \cup {c}
    <3>1. InForceMeans'
      BY InForceIs, PTL
    <3>. QED
      BY <1>3, <1>6, <1>7, <3>1, InForceIs DEF InForceMeans
  <2>2. CASE c \in InForce
    BY <1>4, <2>1, <2>2, Stutters
  <2>3. CASE c \notin InForce
    <3>1. c \in InForce' \ InForce /\ c[1] \in Asking /\ c[2] # c[1].inst
      BY <1>3, <2>1, <2>3
    <3>. QED
      BY <1>4, <2>1, <3>1 DEF AbstractStep, Abstract!Step, Abstract!Copy, Stopped
  <2>. QED
    BY <2>2, <2>3
<1>8. CASE ~Tracked(Target)
  BY <1>4, <1>6, <1>8, SameCopies, Stutters
<1>. QED
  BY <1>7, <1>8

LEMMA AbstractPlan ==
    ASSUME HubInv, ForwardPlan
    PROVE  AbstractStep
<1>1. /\ job.op = "activated" /\ active' = active /\ plan' = MapPush(plan, job.id, job.pend)
  BY DEF ForwardPlan
<1>2. job'.op = "inhibit"
  BY DEF ForwardPlan, HubInv, TypeInv, TypeOK, Job
<1>3. job.id \in Id /\ job.pend \in Id
  BY <1>1 DEF HubInv, TypeInv, JobOK, TypeOK
<1>. DEFINE last == Len(plan'[job.id])
<1>4. /\ DOMAIN plan' = DOMAIN plan \cup {job.id} /\ last \in Nat /\ last >= 1
      /\ plan'[job.id][last] = job.pend
      /\ \A key \in DOMAIN plan' : \A n \in 1..Len(plan'[key]) :
            \/ key = job.id /\ n = last
            \/ /\ key \in DOMAIN plan /\ n \in 1..Len(plan[key])
               /\ plan'[key][n] = plan[key][n]
      /\ \A key \in DOMAIN plan : \A n \in 1..Len(plan[key]) :
            n \in 1..Len(plan'[key]) /\ plan'[key][n] = plan[key][n]
  BY <1>1, <1>3, PushedPlan DEF HubInv, TypeInv
<1>5. last \in 1..Len(plan'[job.id])
  BY <1>4
<1>. HIDE DEF last
<1>6. ASSUME NEW key, NEW f PROVE Forward(key, f)' <=> Forward(key, f)
  <2>1. ASSUME Forward(key, f) PROVE Forward(key, f)'
    BY <1>1, <1>4, <1>5, <2>1 DEF Forward
  <2>2. ASSUME Forward(key, f)' PROVE Forward(key, f)
    <3>1. key \in DOMAIN plan' /\ \E n \in 1..Len(plan'[key]) : plan'[key][n] = f
      BY <1>2, <2>2 DEF Forward
    <3>2. PICK n \in 1..Len(plan'[key]) : plan'[key][n] = f
      BY <3>1
    <3>. QED
      BY <1>1, <1>4, <3>1, <3>2 DEF Forward
  <2>. QED
    BY <2>1, <2>2
<1>7. InForce' = InForce
  <2>1. ASSUME NEW key, NEW f PROVE Copied(key, f)' <=> Copied(key, f)
    BY <1>1, <1>6 DEF Copied, Tracked
  <2>. QED
    BY <2>1, SameCopies
<1>8. Asking' = Asking /\ ~Stopped /\ ~Stopped'
  BY <1>1, <1>2 DEF Asking, Stopped, Ended
<1>. QED
  BY <1>7, <1>8, Stutters

LEMMA AbstractRelease ==
    ASSUME HubInv, ShareInv, ReleaseStep
    PROVE  AbstractStep
<1>. DEFINE r == plan[job.id][job.k]
            c == <<job.id, r.inst>>
<1>1. /\ job.op = "uninhibit" /\ job.id \in DOMAIN plan /\ job.k \in 1..Len(plan[job.id])
      /\ plan' = plan /\ DOMAIN active' = DOMAIN active \ {r}
  <2>1. job.op = "uninhibit" /\ job.id \in DOMAIN plan /\ job.k \in 1..Len(plan[job.id])
    BY DEF ReleaseStep, Releasing, HubInv, TypeInv, JobOK
  <2>2. plan' = plan /\ DOMAIN active' = DOMAIN active \ {r}
    BY DEF ReleaseStep, Withdraw
  <2>. QED
    BY <2>1, <2>2
<1>2. job'.op = "uninhibit"
  BY DEF ReleaseStep, Releasing, HubInv, TypeInv, TypeOK, Job
<1>3. r.own # "app" /\ job.id \notin DOMAIN active
  BY <1>1 DEF HubInv, PlanOK, ShareInv, JobAgrees
<1>4. Asking' = Asking /\ ~Stopped /\ ~Stopped' /\ job.id \notin Asking
  BY <1>1, <1>2, <1>3 DEF Asking, Stopped, Ended
<1>5. \A key \in DOMAIN plan : \A n \in 1..Len(plan[key]) :
        plan[key][n] = r /\ Tracked(r.inst) => key = job.id
  BY <1>1 DEF HubInv, PlanDisjoint
<1>. HIDE DEF r
<1>6. ASSUME NEW key, NEW f PROVE Copied(key, f)' <=> Copied(key, f) /\ f # r
  BY <1>1, <1>2 DEF Copied, Forward, Tracked
<1>7. ASSUME NEW key, Copied(key, r) PROVE key = job.id
  BY <1>1, <1>5, <1>7 DEF Copied, Forward
<1>8. InForce' = InForce \/ (c \in InForce /\ InForce' = InForce \ {c})
  <2>1. InForceMeans'
    BY InForceIs, PTL
  <2>2. InForce' \subseteq InForce
    BY <1>6, <2>1, InForceIs DEF InForceMeans
  <2>3. InForce \ {c} \subseteq InForce'
    BY <1>6, <1>7, <2>1, InForceIs DEF InForceMeans
  <2>. QED
    BY <2>2, <2>3
<1>9. c[1] = job.id
  OBVIOUS
<1>. HIDE DEF c
<1>. QED
  BY <1>4, <1>8, <1>9, Stutters DEF AbstractStep, Abstract!Step, Abstract!Withdraw, Stopped

LEMMA AbstractFinish ==
    ASSUME HubInv, FinishUnInhibit
    PROVE  AbstractStep
<1>1. /\ job.op = "uninhibit" /\ job'.op = "idle" /\ active' = active
      /\ DOMAIN plan' = DOMAIN plan \ {job.id}
      /\ \A key \in DOMAIN plan' : plan'[key] = plan[key]
      /\ job.id \in DOMAIN plan => job.k > Len(plan[job.id])
  <2>1. job.id \in DOMAIN plan => job.k \in Nat /\ Len(plan[job.id]) \in Nat
    BY LenProperties DEF HubInv, TypeInv, TypeOK, Job
  <2>. QED
    BY <2>1 DEF FinishUnInhibit, Releasing, MapErase, Idle
<1>2. ASSUME NEW n \in 1..Len(plan[job.id]), job.id \in DOMAIN plan,
             Tracked(plan[job.id][n].inst)
      PROVE  plan[job.id][n] \notin DOMAIN active
  <2>1. Len(plan[job.id]) \in Nat /\ job.k \in Nat
    BY <1>1, <1>2 DEF HubInv, TypeInv, TypeOK, JobOK
  <2>2. \A m \in 1..Len(plan[job.id]) : m < job.k
    BY <1>1, <1>2, <2>1
  <2>3. job.id \notin cut
    BY <1>1, <2>2 DEF HubInv, CutStays, Undone
  <2>. QED
    BY <1>1, <1>2, <2>2, <2>3 DEF HubInv, ForwardTracksCause, Undone
<1>3. InForce' = InForce
  <2>1. ASSUME NEW key, NEW f PROVE Copied(key, f)' <=> Copied(key, f)
    BY <1>1, <1>2 DEF Copied, Forward, Tracked
  <2>. QED
    BY <2>1, SameCopies
<1>4. Asking' = Asking /\ ~Stopped /\ ~Stopped'
  BY <1>1 DEF Asking, Stopped, Ended
<1>. QED
  BY <1>3, <1>4, Stutters

LEMMA AbstractExit ==
    ASSUME HubInv, Sigint
    PROVE  AbstractStep
<1>1. /\ DOMAIN active' = DOMAIN active \ Planned(plan) /\ DOMAIN plan' = {}
      /\ job.op \notin Ended
  BY DEF Sigint, Withdraw, EmptyMap
<1>2. job'.op = "exited"
  BY DEF Sigint, HubInv, TypeInv, TypeOK, Job
<1>3. \A id \in Planned(plan) : id.own # "app"
  BY DEF Planned, HubInv, PlanOK
<1>4. Asking' = Asking
  BY <1>1, <1>3 DEF Asking
<1>5. InForce' \subseteq InForce
  <2>1. InForceMeans'
    BY InForceIs, PTL
  <2>2. ASSUME NEW key, NEW f PROVE ~Copied(key, f)'
    BY <1>1, <1>2 DEF Copied, Forward
  <2>. QED
    BY <2>1, <2>2 DEF InForceMeans
<1>. QED
  BY <1>1, <1>2, <1>4, <1>5 DEF AbstractStep, Abstract!Step, Abstract!Stop, Ended

\* A handleExit that throws withdraws what it can, and ends.
LEMMA AbstractTerminate ==
    ASSUME HubInv, SigintThrow
    PROVE  AbstractStep
<1>0. PICK key \in DOMAIN plan :
        \E keys \in SUBSET (DOMAIN plan \ {key}), n \in 1..Len(plan[key]) :
            Withdraw(UndoneBefore(keys, key, n))
  BY DEF SigintThrow
<1>1. PICK keys \in SUBSET (DOMAIN plan \ {key}), n \in 1..Len(plan[key]) :
        Withdraw(UndoneBefore(keys, key, n))
  BY <1>0
<1>. DEFINE gone == UndoneBefore(keys, key, n)
<1>2. \A id \in gone : id.own # "app"
  <2>1. n \in 1..Len(plan[key]) /\ \A m \in 1..(n - 1) : m \in 1..Len(plan[key])
    BY LenProperties DEF HubInv, TypeInv, TypeOK
  <2>. QED
    BY <2>1, PlannedFacts DEF UndoneBefore, HubInv, PlanOK
<1>. HIDE DEF gone
<1>3. job.op \notin Ended /\ plan' = plan
  BY DEF SigintThrow
<1>4. job'.op = "terminated"
  BY DEF SigintThrow, HubInv, TypeInv, TypeOK, Job
<1>5. DOMAIN active' = DOMAIN active \ gone
  <2>1. Withdraw(gone)
    BY <1>1 DEF gone
  <2>. QED
    BY <2>1, WithdrawFacts
<1>6. Asking' = Asking
  BY <1>2, <1>5 DEF Asking
<1>7. InForce' \subseteq InForce
  <2>1. InForceMeans'
    BY InForceIs, PTL
  <2>2. ASSUME NEW k, NEW f, Copied(k, f)' PROVE Copied(k, f)
    BY <1>3, <1>4, <1>5, <2>2 DEF Copied, Forward, Tracked
  <2>. QED
    BY <2>1, <2>2, InForceIs DEF InForceMeans
<1>. QED
  BY <1>3, <1>4, <1>6, <1>7 DEF AbstractStep, Abstract!Step, Abstract!Stop, Ended

LEMMA AbstractNext == HubInv /\ ShareInv /\ [Next]_vars => AbstractStep
<1>. SUFFICES ASSUME HubInv, ShareInv, [Next]_vars PROVE AbstractStep
  OBVIOUS
<1>1. CASE ForwardSkip
  <2>1. job.op = "inhibit" /\ job'.op = "inhibit" /\ active' = active /\ plan' = plan
    BY <1>1 DEF ForwardSkip, Forwarding, HubInv, TypeInv, TypeOK, Job
  <2>. QED
    BY <2>1, AbstractQuiet
<1>2. CASE ForwardCall
  <2>1. job.op = "inhibit" /\ job'.op = "called" /\ active' = active /\ plan' = plan
    BY <1>2 DEF ForwardCall, Forwarding, HubInv, TypeInv, TypeOK, Job
  <2>. QED
    BY <2>1, AbstractQuiet
<1>3. CASE ForwardNoReply
  <2>1. job.op = "inhibit" /\ job'.op = "inhibit" /\ active' = active /\ plan' = plan
    BY <1>3 DEF ForwardNoReply, Forwarding, HubInv, TypeInv, TypeOK, Job
  <2>. QED
    BY <2>1, AbstractQuiet
<1>4. CASE ForwardThrow
  <2>1. job.op = "inhibit" /\ job'.op \in {"idle", "undefined"} /\ active' = active /\ plan' = plan
    BY <1>4, ThrownFacts DEF ForwardThrow, Forwarding
  <2>. QED
    BY <2>1, AbstractQuiet
<1>5. CASE FinishInhibit
  <2>1. job.op = "inhibit" /\ job'.op = "idle" /\ active' = active /\ plan' = plan
    BY <1>5 DEF FinishInhibit, Idle
  <2>. QED
    BY <2>1, AbstractQuiet
<1>7. CASE ReleaseThrow
  <2>1. job.op = "uninhibit" /\ job'.op \in {"idle", "undefined"} /\ active' = active /\ plan' = plan
    BY <1>7, ThrownFacts DEF ReleaseThrow, Releasing
  <2>. QED
    BY <2>1, AbstractQuiet
<1>8. ASSUME NEW j \in Ifaces, HelperDies(j) PROVE AbstractStep
  <2>1. active' = active /\ plan' = plan /\ job' = job
    BY <1>8 DEF HelperDies
  <2>2. \A key, f : Copied(key, f)' <=> Copied(key, f)
    BY <2>1 DEF Copied, Forward, Tracked
  <2>3. Asking' = Asking /\ (Stopped' <=> Stopped)
    BY <2>1 DEF Asking, Stopped
  <2>. QED
    BY <2>2, <2>3, SameCopies, Stutters
<1>6. CASE UNCHANGED vars
  <2>1. \A key, f : Copied(key, f)' <=> Copied(key, f)
    BY <1>6 DEF vars, Copied, Forward, Tracked
  <2>2. Asking' = Asking /\ (Stopped' <=> Stopped)
    BY <1>6 DEF vars, Asking, Stopped
  <2>. QED
    BY <2>1, <2>2, SameCopies, Stutters
<1>. QED
  BY <1>1, <1>2, <1>3, <1>4, <1>5, <1>6, <1>7, <1>8, AbstractRegister, AbstractUnregister,
     AbstractActivate, AbstractPlan, AbstractRelease, AbstractFinish, AbstractExit,
     AbstractTerminate DEF Next, Proceed

\* The hub keeps what UnifiedInhibit promises: what an application asks for is
\* copied to other interfaces only, and while the daemon runs a copy is
\* withdrawn only after the application let go.
THEOREM HubKeepsPromise == Spec => KeepsPromise
<1>1. HubInv /\ ShareInv /\ [Next]_vars => [Abstract!Step]_(Abstract!absVars)
  BY AbstractNext DEF AbstractStep
<1>. QED
  BY <1>1, AbstractInit, ShareInvariant, PTL DEF Spec, KeepsPromise, Abstract!Promise

=============================================================================
