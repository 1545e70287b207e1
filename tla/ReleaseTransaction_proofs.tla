--------------------- MODULE ReleaseTransaction_proofs ---------------------
(***************************************************************************)
(* The release ledger tells the truth, for any number of releases and of   *)
(* scripts, killed ones included.                                          *)
(***************************************************************************)
EXTENDS ReleaseTransaction, TLAPS

---------------------------------------------------------------------------
(* Types *)

\* An automatic rollback has a release to go back to.
UndoInv == script.kind = "undo" => script.prev # NoRelease

TypeInv == ReleaseTypeOK /\ UndoInv

\* Every step of a script keeps the types.
LEMMA DeployTypes ==
    ASSUME TypeInv, Deploy
    PROVE  TypeInv'
<1>. USE DEF TypeInv, UndoInv, ReleaseTypeOK, Ends, GoTo, At, Releases, Services, Down,
             Failed, NoRelease
<1>1. CASE \/ VerifyArtifact \/ InstallUnits \/ ValidateCandidate \/ Aborts
           \/ MigrationsEnd \/ ArmMigrations \/ SmokePasses
  BY <1>1
  DEF VerifyArtifact, InstallUnits, ValidateCandidate, Aborts, MigrationsEnd,
      ArmMigrations, SmokePasses, Steps
<1>2. CASE StopRecovery
  BY <1>2 DEF StopRecovery, Steps
<1>3. CASE InstallCandidate
  BY <1>3 DEF InstallCandidate, Steps
<1>4. CASE ApplyMigration
  BY <1>4, ReleaseAssumption DEF ApplyMigration
<1>5. CASE MigrationFails
  BY <1>5 DEF MigrationFails, Steps
<1>6. CASE Activate
  BY <1>6 DEF Activate, Target, Steps
<1>7. CASE SmokeFails
  BY <1>7 DEF SmokeFails, Steps
<1>8. ASSUME NEW s \in Services, Restart(s)  PROVE TypeInv'
  <2>1. After(s) \in Steps
    BY DEF After, Steps
  <2>2. Starts \subseteq Releases \cup {Down, Failed}
    BY DEF Starts
  <2>3. running' \in [Services -> Releases \cup {Down, Failed}]
    BY <1>8, <2>2 DEF Restart
  <2>4. kept' \subseteq Services \cup {"link"} /\ pc' \in Steps
    BY <1>8, <2>1 DEF Restart
  <2>. QED
    BY <1>8, <2>3, <2>4 DEF Restart
<1>. QED
  BY <1>1, <1>2, <1>3, <1>4, <1>5, <1>6, <1>7, <1>8 DEF Deploy

\* Every variable of the release transaction keeps its type, whatever fails and
\* whenever a script is killed (deploy-release.sh, rollback.sh).
THEOREM ReleaseTypeCorrect == ReleaseSpec => []ReleaseTypeOK
<1>1. ReleaseInit => TypeInv
  BY ReleaseAssumption
  DEF ReleaseInit, TypeInv, UndoInv, ReleaseTypeOK, Releases, Services, Down, Failed,
      NoRelease, Steps
<1>2. TypeInv /\ [ReleaseNext]_releaseVars => TypeInv'
  <2>. SUFFICES ASSUME TypeInv, [ReleaseNext]_releaseVars PROVE TypeInv'
    OBVIOUS
  <2>. USE DEF TypeInv, UndoInv, ReleaseTypeOK, Releases, Services, Down, Failed, NoRelease
  <2>1. ASSUME NEW r \in Releases, NEW skip \in BOOLEAN, Preflight(r, skip)
        PROVE  TypeInv'
    BY <2>1, ReleaseAssumption
    DEF Preflight, PreflightPasses, Begins, GoTo, At, Steps
  <2>2. ASSUME NEW r \in Releases, RollbackTo(r)  PROVE TypeInv'
    BY <2>2, ReleaseAssumption
    DEF RollbackTo, Begins, GoTo, At, Steps
  <2>3. ASSUME NEW s \in Services, ServiceFails(s) \/ SystemdRestarts(s)  PROVE TypeInv'
    <3>1. running' \in [Services -> Releases \cup {Down, Failed}]
      BY <2>3 DEF ServiceFails, SystemdRestarts
    <3>2. UNCHANGED <<tree, current, units, schema, pc, script, outcome, kept, scripts>>
      BY <2>3 DEF ServiceFails, SystemdRestarts
    <3>. QED
      BY <3>1, <3>2
  <2>4. CASE Killed
    BY <2>4 DEF Killed, Ends, Steps
  <2>5. CASE UNCHANGED releaseVars
    BY <2>5 DEF releaseVars
  <2>. QED
    BY <2>1, <2>2, <2>3, <2>4, <2>5, DeployTypes DEF ReleaseNext
<1>. QED
  <2>1. ReleaseSpec => []TypeInv
    BY <1>1, <1>2, PTL DEF ReleaseSpec
  <2>2. TypeInv => ReleaseTypeOK
    BY DEF TypeInv
  <2>. QED
    BY <2>1, <2>2, PTL

---------------------------------------------------------------------------
(* The inductive invariant *)

\* Before the activation nothing is switched: a deployment still has the current
\* release it found, and has not removed its tree.
NotYetInv ==
    /\ pc \in {"verify", "suppress", "install", "units", "validate", "migrate", "arm"}
         => script.kind = "deploy"
    /\ pc # "idle" /\ script.kind = "deploy" /\ script.prev # NoRelease
       /\ pc \in {"verify", "suppress", "install", "units", "validate", "migrate", "arm",
                  "activate"}
         => current = script.prev /\ tree[current] # "absent"

\* A deployment past its migrations has them, or was told to do without.
MigratedInv ==
    pc \in {"arm", "activate", "web", "collector", "recovery", "smoke"}
    /\ script.kind = "deploy"
      => script.skip \/ tree[script.rel] = "partial" \/ schema >= script.rel

\* After the activation the symlink names the target, and what was restarted runs what
\* the symlink names or failed, unless the call was refused.
SwitchedInv ==
    /\ pc \in {"web", "collector", "recovery", "smoke"} =>
         "link" \in kept \/ current = Target
    /\ pc \in {"collector", "recovery", "smoke"} /\ "web" \notin kept
         => running["web"] \in {current, Failed}
    /\ pc \in {"recovery", "smoke"} /\ "collector" \notin kept
         => running["collector"] \in {current, Failed}
    /\ pc = "smoke" /\ "recovery" \notin kept => running["recovery"] \in {current, Failed}

LedgerInv == NotYetInv /\ MigratedInv /\ SwitchedInv /\ LedgerIsTrue

\* The step of a script keeps the invariant.
LEMMA DeployLedger ==
    ASSUME ReleaseTypeOK, LedgerInv, Deploy
    PROVE  LedgerInv'
<1>. USE DEF LedgerInv, NotYetInv, MigratedInv, SwitchedInv, LedgerIsTrue,
             Target, Ends, GoTo, At, Services
<1>0. /\ schema \in Nat /\ script.rel \in Nat
      /\ script.skip \in BOOLEAN
  BY DEF ReleaseTypeOK, Releases
<1>1. CASE VerifyArtifact
  BY <1>1 DEF VerifyArtifact
<1>2. CASE StopRecovery
  BY <1>2 DEF StopRecovery
<1>3. CASE InstallCandidate
  <2>1. tree'[current] # "absent" \/ tree[current] = "absent"
    BY <1>3 DEF InstallCandidate, ReleaseTypeOK
  <2>. QED
    BY <1>3, <2>1 DEF InstallCandidate
<1>4. CASE InstallUnits
  BY <1>4 DEF InstallUnits
<1>5. CASE ValidateCandidate
  BY <1>5 DEF ValidateCandidate
<1>6. CASE Aborts
  BY <1>6 DEF Aborts
<1>7. CASE ApplyMigration
  BY <1>7, <1>0 DEF ApplyMigration
<1>8. CASE MigrationsEnd
  BY <1>8 DEF MigrationsEnd
<1>9. CASE ArmMigrations
  BY <1>9 DEF ArmMigrations
<1>10. CASE MigrationFails
  BY <1>10 DEF MigrationFails, ReleaseTypeOK
<1>11. CASE Activate
  BY <1>11 DEF Activate
<1>12. ASSUME NEW s \in Services, Restart(s)  PROVE LedgerInv'
  <2>1. CASE kept' = kept \cup {s} /\ UNCHANGED running
    BY <1>12, <2>1 DEF Restart, After
  <2>2. CASE UNCHANGED kept /\ \E r \in Starts : running' = [running EXCEPT ![s] = r]
    <3>1. PICK r \in {current, Failed} : running' = [running EXCEPT ![s] = r]
      BY <2>2 DEF Starts
    <3>2. \A t \in Services : running'[t] = IF t = s THEN r ELSE running[t]
      BY <3>1 DEF ReleaseTypeOK
    <3>. QED
      BY <1>12, <2>2, <3>2 DEF Restart, After
  <2>. QED
    BY <1>12, <2>1, <2>2 DEF Restart
<1>13. CASE SmokePasses
  BY <1>13 DEF SmokePasses, Healthy, Releases, Failed, Down
<1>14. CASE SmokeFails
  BY <1>14 DEF SmokeFails, ReleaseTypeOK
<1>. QED
  BY <1>1, <1>2, <1>3, <1>4, <1>5, <1>6, <1>7, <1>8, <1>9, <1>10, <1>11, <1>12,
     <1>13, <1>14 DEF Deploy

\* What the ledger says of the last script is true of the symlink, the directories, the
\* services and the schema, except for the symlink and the services that this script was
\* refused to replace: no killed script before it, no failing service and no other error
\* of the scripts makes it false, for any number of releases and scripts
\* (deploy-release.sh, rollback.sh).
THEOREM LedgerHolds == ReleaseSpec => []LedgerIsTrue
<1>1. ReleaseInit => LedgerInv
  BY DEF ReleaseInit, LedgerInv, NotYetInv, MigratedInv, SwitchedInv, LedgerIsTrue
<1>2. ReleaseTypeOK /\ LedgerInv /\ [ReleaseNext]_releaseVars => LedgerInv'
  <2>. SUFFICES ASSUME ReleaseTypeOK, LedgerInv, [ReleaseNext]_releaseVars PROVE LedgerInv'
    OBVIOUS
  <2>. USE DEF LedgerInv, NotYetInv, MigratedInv, SwitchedInv, LedgerIsTrue,
               Target, Ends, GoTo, At
  <2>1. ASSUME NEW r \in Releases, NEW skip \in BOOLEAN, Preflight(r, skip)
        PROVE  LedgerInv'
    BY <2>1 DEF Preflight, Begins
  <2>2. ASSUME NEW r \in Releases, RollbackTo(r)  PROVE LedgerInv'
    BY <2>2 DEF RollbackTo, Begins
  <2>3. ASSUME NEW s \in Services, ServiceFails(s) \/ SystemdRestarts(s)
        PROVE  LedgerInv'
    <3>1. PICK x \in {current, Failed} : running' = [running EXCEPT ![s] = x]
      BY <2>3 DEF ServiceFails, SystemdRestarts
    <3>2. \A t \in Services : running'[t] = IF t = s THEN x ELSE running[t]
      BY <3>1 DEF ReleaseTypeOK
    <3>3. UNCHANGED <<tree, current, schema, pc, script, outcome, kept>>
      BY <2>3 DEF ServiceFails, SystemdRestarts
    <3>. QED
      BY <3>2, <3>3 DEF Services
  <2>4. CASE Killed
    BY <2>4 DEF Killed
  <2>5. CASE UNCHANGED releaseVars
    BY <2>5 DEF releaseVars
  <2>. QED
    BY <2>1, <2>2, <2>3, <2>4, <2>5, DeployLedger DEF ReleaseNext
<1>3. LedgerInv => LedgerIsTrue
  BY DEF LedgerInv
<1>. QED
  BY <1>1, <1>2, <1>3, ReleaseTypeCorrect, PTL DEF ReleaseSpec
=============================================================================
