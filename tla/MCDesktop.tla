----------------------------- MODULE MCDesktop -----------------------------
(***************************************************************************)
(* The desktop for TLC: its audit commands (DesktopAudit) and how the      *)
(* deployment they work with comes to be (Deployment).  A behaviour        *)
(* follows one story; the stories share no state, and within a module each *)
(* leaves out calls the story's properties do not depend on.               *)
(***************************************************************************)
EXTENDS DesktopAudit, Deployment

VARIABLE story

\* The audit commands, with resets, or with checks while the oplog rolls over.
Commands ==
    \/ RecordAuditEvent \/ AuditCloseEpoch \/ MajorityAdvances \/ CommitNext
    \/ story = "resets" /\ \E saved \in BOOLEAN : AuditResetData(saved)
    \/ story = "checks" /\ (OplogRollsOver \/ AuditVerifyReaderMode)

\* The wizard and the containers that start from its files.
Stack ==
    \/ WizardNext \/ StackNext
    \/ \E overwrite \in BOOLEAN : DesktopSetup(NoValue, NoValue, overwrite)
    \/ \E network \in Networks, role \in Roles, deploy \in BOOLEAN, explicit \in {NoValue, Len(chain)} :
          CliSetup(network, role, deploy, explicit)

\* The wizard and the desktop's provisioning and settings, with one setup: setups
\* that are made again are the story of the stack.
Provisioning ==
    \/ WizardNext \/ ProvisionNext \/ SettingsNext \/ ProvisionTestnetContract
    \/ \E explicit \in {NoValue, Len(chain)}, overwrite \in BOOLEAN :
          \E given \in {NoValue, keychain.production} : DesktopSetup(explicit, given, overwrite)

MCInit ==
    /\ AuditInit /\ DeployInit
    /\ \/ story = "checks"
       \/ story \in {"resets", "stack", "provisioning"} /\ contract = [name |-> "own", oplog |-> TRUE]

MCNext ==
    /\ UNCHANGED story
    /\ \/ story \in {"resets", "checks"} /\ Commands /\ UNCHANGED deployVars
       \/ story = "stack" /\ Stack /\ UNCHANGED auditVars
       \/ story = "provisioning" /\ Provisioning /\ count'.setups <= 1 /\ UNCHANGED auditVars

MCSpec == MCInit /\ [][MCNext]_<<auditVars, deployVars, story>>
=============================================================================
