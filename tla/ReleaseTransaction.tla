------------------------ MODULE ReleaseTransaction ------------------------
(***************************************************************************)
(* deploy-release.sh, the release transaction of the LLM Manager, with the *)
(* migration runner, the healthcheck, and rollback.sh.  The scripts run    *)
(* one at a time (the workflow's concurrency group); any of them can be    *)
(* killed, and is then run again, for the same release or another one.     *)
(*                                                                         *)
(* The scripts are not under `set -e`: only what is followed by `|| die`   *)
(* ends a transaction.  Release r brings the migrations 1 .. r, none of    *)
(* them destructive.                                                       *)
(***************************************************************************)
EXTENDS Naturals

CONSTANTS
    MaxRelease,     \* Bound: releases are 1 .. MaxRelease, the first one is deployed
    MaxScripts      \* Bound on deployments and rollbacks

ASSUME ReleaseAssumption == MaxRelease \in Nat \ {0} /\ MaxScripts \in Nat

VARIABLES
    tree,           \* /opt/llm-manager/releases/<sha>: absent, partial or complete
    current,        \* the symlink /opt/llm-manager/current
    units,          \* the release whose unit files are in /etc/systemd/system
    running,        \* the release whose code a service runs, or why it runs none
    schema,         \* schema_migrations: the last version applied
    pc, script,     \* the script that runs, or the last one
    outcome,        \* how that one ended
    kept,           \* what it failed to replace, unnoticed: the symlink, services
    scripts

releaseVars == <<tree, current, units, running, schema, pc, script, outcome, kept, scripts>>

Releases  == 1 .. MaxRelease
NoRelease == 0
Services  == {"web", "collector", "recovery"}  \* llm-manager-emporia is as the collector

\* A stopped service stays down, one that failed is restarted by systemd.
Down    == MaxRelease + 1
Failed  == MaxRelease + 2

Steps == {"idle", "verify", "suppress", "install", "units", "validate", "migrate",
          "arm", "activate", "web", "collector", "recovery", "smoke"}

ReleaseTypeOK ==
    /\ tree \in [Releases -> {"absent", "partial", "complete"}]
    /\ current \in Releases /\ units \in Releases /\ schema \in Releases
    /\ running \in [Services -> Releases \cup {Down, Failed}]
    /\ pc \in Steps
    /\ script \in [kind : {"deploy", "undo", "rollback"}, rel : Releases,
                   prev : Releases \cup {NoRelease}, skip : BOOLEAN]
    /\ outcome \in {"none", "accepted", "back", "degraded", "impossible", "abort", "killed"}
    /\ kept \subseteq Services \cup {"link"}
    /\ scripts \in 0 .. MaxScripts

ReleaseInit ==
    /\ tree = [r \in Releases |-> IF r = 1 THEN "complete" ELSE "absent"]
    /\ current = 1 /\ units = 1 /\ schema = 1
    /\ running = [s \in Services |-> 1]
    /\ pc = "idle" /\ outcome = "none" /\ kept = {} /\ scripts = 0
    /\ script = [kind |-> "deploy", rel |-> 1, prev |-> NoRelease, skip |-> FALSE]

---------------------------------------------------------------------------
(* deploy-release.sh *)

At(p) == pc = p
GoTo(p) == pc' = p
Ends(how) == pc' = "idle" /\ outcome' = how

Begins(p, s) ==
    /\ At("idle") /\ scripts < MaxScripts
    /\ scripts' = scripts + 1
    /\ GoTo(p) /\ script' = s /\ outcome' = "none" /\ kept' = {}

\* preflight.sh wants an answer of /healthz; when any of its checks fails nothing was
\* done yet.
PreflightPasses == running["web"] \in Releases

\* The snapshot does not know a release whose directory is gone: that is a first
\* promotion.
Preflight(r, skip) ==
    /\ PreflightPasses
    /\ Begins("verify",
              [kind |-> "deploy", rel |-> r, skip |-> skip,
               prev |-> IF tree[current] = "absent" THEN NoRelease ELSE current])
    /\ UNCHANGED <<tree, current, units, running, schema>>

VerifyArtifact ==
    /\ At("verify")
    /\ GoTo("suppress")
    /\ UNCHANGED <<tree, current, units, running, schema, script, outcome, kept, scripts>>

\* is-active is false of a service that systemd is about to restart, and a stop that
\* fails is not noticed.
StopRecovery ==
    /\ At("suppress")
    /\ \E s \in IF running["recovery"] \in Releases
                THEN {Down, running["recovery"]} ELSE {running["recovery"]} :
          running' = [running EXCEPT !["recovery"] = s]
    /\ GoTo("install")
    /\ UNCHANGED <<tree, current, units, schema, script, outcome, kept, scripts>>

\* cp, venv and pip may fail half way unnoticed.
InstallCandidate ==
    /\ At("install")
    /\ tree' \in IF tree[script.rel] # "absent" THEN {tree}
                 ELSE {[tree EXCEPT ![script.rel] = t] : t \in {"partial", "complete"}}
    /\ GoTo("units")
    /\ UNCHANGED <<current, units, running, schema, script, outcome, kept, scripts>>

InstallUnits ==
    /\ At("units")
    /\ units' = script.rel /\ GoTo("validate")
    /\ UNCHANGED <<tree, current, running, schema, script, outcome, kept, scripts>>

ValidateCandidate ==
    /\ At("validate")
    /\ GoTo(IF script.skip THEN "activate" ELSE "migrate")
    /\ UNCHANGED <<tree, current, units, running, schema, script, outcome, kept, scripts>>

\* die in the artifact's verification, in prisma generate, in the validation.
Aborts ==
    /\ pc \in {"verify", "units", "validate"}
    /\ Ends("abort")
    /\ UNCHANGED <<tree, current, units, running, schema, script, kept, scripts>>

\* migrate.py apply: every version in a transaction of its own.
ApplyMigration ==
    /\ At("migrate") /\ schema < script.rel
    /\ schema' = schema + 1
    /\ UNCHANGED <<tree, current, units, running, pc, script, outcome, kept, scripts>>

\* Nothing is pending, or a partial tree has no migrations.
MigrationsEnd ==
    /\ At("migrate") /\ (schema >= script.rel \/ tree[script.rel] = "partial")
    /\ GoTo("arm")
    /\ UNCHANGED <<tree, current, units, running, schema, script, outcome, kept, scripts>>

\* ARM's own database is not that of `schema`.
ArmMigrations ==
    /\ At("arm")
    /\ GoTo("activate")
    /\ UNCHANGED <<tree, current, units, running, schema, script, outcome, kept, scripts>>

\* rm -rf of the candidate, which may be the current release.
MigrationFails ==
    /\ pc \in {"migrate", "arm"}
    /\ tree' = [tree EXCEPT ![script.rel] = "absent"]
    /\ Ends("abort")
    /\ UNCHANGED <<current, units, running, schema, script, kept, scripts>>

Target == IF script.kind = "undo" THEN script.prev ELSE script.rel

\* Fault: the automatic rollback links the candidate once more.
ActivateCandidate ==
    /\ At("activate")
    /\ current' = script.rel /\ GoTo("web")
    /\ UNCHANGED <<tree, units, running, schema, script, outcome, kept, scripts>>

\* ln and mv have no `|| die`: when one fails the symlink stays and the script goes on.
Activate ==
    /\ At("activate")
    /\ GoTo("web")
    /\ \/ current' = Target /\ UNCHANGED kept
       \/ kept' = kept \cup {"link"} /\ UNCHANGED current
    /\ UNCHANGED <<tree, units, running, schema, script, outcome, scripts>>

After(s) == IF s = "web" THEN "collector" ELSE IF s = "collector" THEN "recovery" ELSE "smoke"

Starts == IF tree[current] = "absent" THEN {Failed} ELSE {current, Failed}

\* systemctl stops the old process and starts the service from current/, or refuses and
\* leaves the service as it was.  Nothing reads FAILHERE.
Restart(s) ==
    /\ At(s)
    /\ GoTo(After(s))
    /\ \/ /\ \E r \in Starts : running' = [running EXCEPT ![s] = r]
          /\ UNCHANGED kept
       \/ kept' = kept \cup {s} /\ UNCHANGED running
    /\ UNCHANGED <<tree, current, units, schema, script, outcome, scripts>>

\* healthcheck.sh: every service is active and current/ has a manifest, of whatever
\* release.
Healthy == tree[current] # "absent" /\ \A s \in Services : running[s] \in Releases

SmokePasses ==
    /\ At("smoke") /\ Healthy
    /\ Ends(IF script.kind = "deploy" THEN "accepted" ELSE "back")
    /\ UNCHANGED <<tree, current, units, running, schema, script, kept, scripts>>

\* It may also fail for what the pages answer.
SmokeFails ==
    /\ At("smoke")
    /\ IF script.kind # "deploy" THEN Ends("degraded") /\ UNCHANGED <<script, kept>>
       ELSE IF script.prev = NoRelease \/ tree[script.prev] = "absent"
            THEN Ends("impossible") /\ UNCHANGED <<script, kept>>
            ELSE /\ script' = [script EXCEPT !.kind = "undo"] /\ kept' = {}
                 /\ GoTo("activate") /\ UNCHANGED outcome
    /\ UNCHANGED <<tree, current, units, running, schema, scripts>>

Deploy ==
    \/ VerifyArtifact \/ StopRecovery \/ InstallCandidate \/ InstallUnits
    \/ ValidateCandidate \/ Aborts \/ ApplyMigration \/ MigrationsEnd \/ ArmMigrations
    \/ MigrationFails \/ Activate \/ SmokePasses \/ SmokeFails
    \/ \E s \in Services : Restart(s)

---------------------------------------------------------------------------
(* rollback.sh, and what happens around the scripts *)

\* The stop also ends systemd's attempts.
RollbackTo(r) ==
    /\ tree[r] # "absent" /\ r # current
    /\ Begins("activate", [kind |-> "rollback", rel |-> r, prev |-> current, skip |-> FALSE])
    /\ \E s \in {Down, running["recovery"]} : running' = [running EXCEPT !["recovery"] = s]
    /\ UNCHANGED <<tree, current, units, schema>>

Killed ==
    /\ ~At("idle")
    /\ Ends("killed")
    /\ UNCHANGED <<tree, current, units, running, schema, script, kept, scripts>>

ServiceFails(s) ==
    /\ running[s] \in Releases
    /\ running' = [running EXCEPT ![s] = Failed]
    /\ UNCHANGED <<tree, current, units, schema, pc, script, outcome, kept, scripts>>

\* systemd, Restart=on-failure.
SystemdRestarts(s) ==
    /\ running[s] = Failed /\ tree[current] # "absent"
    /\ running' = [running EXCEPT ![s] = current]
    /\ UNCHANGED <<tree, current, units, schema, pc, script, outcome, kept, scripts>>

ReleaseNext ==
    \/ \E r \in Releases, skip \in BOOLEAN : Preflight(r, skip)
    \/ \E r \in Releases : RollbackTo(r)
    \/ \E s \in Services : ServiceFails(s) \/ SystemdRestarts(s)
    \/ Deploy \/ Killed

ReleaseSpec == ReleaseInit /\ [][ReleaseNext]_releaseVars

---------------------------------------------------------------------------
(* Properties *)

\* What the ledger says of the last script is true, whatever script was killed before
\* and whatever service fails.  After "accepted" or a completed rollback the symlink
\* names that release and every service runs what the symlink names, or is on its way
\* to it, except for what ln, mv or systemctl refused to replace in that same script,
\* which nobody notices (deploy-release.sh:204-223); the migrations are done unless they
\* were skipped or the tree is partial.  After an abort the release that was current
\* still is, and its tree is there unless it was itself the candidate.
LedgerIsTrue ==
    pc = "idle" =>
      /\ outcome \in {"accepted", "back"} =>
           /\ tree[current] # "absent"
           /\ "link" \in kept \/ current = Target
           /\ \A s \in Services \ kept : running[s] \in {current, Failed}
      /\ outcome = "accepted" =>
           script.skip \/ tree[script.rel] = "partial" \/ schema >= script.rel
      /\ outcome = "abort" /\ script.prev # NoRelease =>
           current = script.prev /\ (script.rel = current \/ tree[current] # "absent")
=============================================================================
