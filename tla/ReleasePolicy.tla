---------------------------- MODULE ReleasePolicy ----------------------------
(***************************************************************************)
(* What the production release pipeline promises, without its files, locks *)
(* and half-finished commands: which release serves the site, which        *)
(* migrations the database holds, which candidates were recorded against   *)
(* which release, and which of them are committed.  ReleaseControl is the  *)
(* detailed specification that implements this one.                        *)
(***************************************************************************)
CONSTANTS
    Releases,    \* every release that can be active, candidates included
    Candidates,  \* the versions that are prepared and deployed
    Baseline,    \* the release that is active at the start
    Sql          \* Sql[r]: the migrations in r's Flyway directory

VARIABLES
    active,      \* the release the current link selects
    applied,     \* the migrations applied to the production database
    plan,        \* plan[v]: the release a recorded candidate v was recorded against
    committed    \* the candidates marked deployed

policyVars == <<active, applied, plan, committed>>

PolicyInit ==
    /\ active = Baseline
    /\ applied = Sql[Baseline]
    /\ plan = [v \in {} |-> Baseline]
    /\ committed = {}

\* A candidate is recorded once, against a release the database can serve.
Record(v) ==
    /\ v \notin DOMAIN plan
    /\ \E base \in Releases :
        /\ Sql[base] \subseteq applied
        /\ plan' = [w \in DOMAIN plan \union {v} |->
                        IF w = v THEN base ELSE plan[w]]
    /\ UNCHANGED <<active, applied, committed>>

\* Migrations are only ever added, each one for a recorded candidate that is
\* not committed yet.
Migrate ==
    /\ \E v \in DOMAIN plan \ committed :
        \E m \in Sql[v] : applied' = applied \union {m}
    /\ UNCHANGED <<active, plan, committed>>

\* A candidate becomes active only in place of the release it was recorded
\* against, and only when the database holds all of its migrations.
Activate(v) ==
    /\ v \in DOMAIN plan \ committed
    /\ plan[v] = active
    /\ Sql[v] \subseteq applied
    /\ active' = v
    /\ UNCHANGED <<applied, plan, committed>>

\* An uncommitted candidate may be taken back, to the release it replaced.
Revert(v) ==
    /\ v \in DOMAIN plan \ committed
    /\ active = v
    /\ active' = plan[v]
    /\ UNCHANGED <<applied, plan, committed>>

Commit(v) ==
    /\ active = v
    /\ committed' = committed \union {v}
    /\ UNCHANGED <<active, applied, plan>>

PolicyNext ==
    \/ Migrate
    \/ \E v \in Candidates : Record(v) \/ Activate(v) \/ Revert(v) \/ Commit(v)

PolicySpec == PolicyInit /\ [][PolicyNext]_policyVars
==============================================================================
