--------------------------- MODULE HubRefinement ----------------------------
(***************************************************************************)
(* The hub implements UnifiedInhibit.  Copies are counted on the           *)
(* interfaces that number what is forwarded to them (Tracked): a lock      *)
(* program, the wake lock file, sxmo and cinnamon do not keep the promise  *)
(* (see README.md).                                                        *)
(***************************************************************************)
EXTENDS InhibitHub

\* The inhibits that applications hold.
Asking == {id \in DOMAIN active : id.own = "app"}

\* The ids forwarded for key: its plan, and the forward not yet appended.
ForwardsOf(key) ==
    (IF key \in DOMAIN plan THEN {plan[key][n] : n \in 1..Len(plan[key])} ELSE {})
        \cup (IF job.op = "activated" /\ job.id = key THEN {job.pend} ELSE {})

InForce ==
    UNION {{<<key, id.inst>> : id \in {f \in ForwardsOf(key) :
                                        f \in DOMAIN active /\ Tracked(f.inst)}} :
           key \in DOMAIN plan \cup (IF job.op = "activated" THEN {job.id} ELSE {})}

Abstract == INSTANCE UnifiedInhibit
    WITH asked <- Asking, copies <- InForce,
         stopped <- job.op \in Ended

\* The promise, as a property of the hub: what an application asks for is copied
\* elsewhere and never back, and unInhibitCB withdraws copies of nothing but an
\* inhibit that was let go.
KeepsPromise == Abstract!Promise

\* Some copy of an inhibit that was let go is still in force, though its release
\* was not cut short.
Leftover == \E c \in InForce : c[1] \notin Asking \cup cut

\* What unInhibitCB began it completes: once an application lets go, its copies
\* go too, unless it asks again or the daemon stops first, the release meets a
\* dead helper (CutStays in InhibitHubProofs says what then remains) or a call
\* that never returns.
CopiesWithdrawn == Leftover ~> (~Leftover \/ job.op \in Ended \/ []Waiting)

=============================================================================
