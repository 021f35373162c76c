----------------------------- MODULE Deployment -----------------------------
(***************************************************************************)
(* How an audit deployment comes to be: the setup wizard, the desktop's    *)
(* setup and provisioning commands and its settings, and the stack of      *)
(* containers that runs from the files they leave behind.  Every step that *)
(* submits a transaction or starts a process may fail, and a transaction   *)
(* may also take effect although its answer is lost.                       *)
(*                                                                         *)
(* Contracts are positions of `chain'; the first is the bundled one.  A    *)
(* key is a pair of what it is for and the call that generated it.         *)
(***************************************************************************)
EXTENDS Naturals, Sequences, FiniteSets

CONSTANTS NoValue,        \* nothing there
          Dir,            \* an empty directory where a file belongs
          MaxSetups,      \* runs of the wizard
          MaxProvisions,  \* calls of audit_provision_testnet_contract
          MaxSettings,    \* changes of the settings and the keychain
          MaxUps          \* starts of the stack

VARIABLES
    chain,      \* deployed contracts, in order
    env,        \* .env.audit
    keyFile,    \* attester.key in the stack's directory
    settings,   \* the desktop's audit mode settings
    keychain,   \* its Stellar keys
    setup,      \* the wizard that is running
    prov,       \* the provisioning call that is running
    cfg,        \* the environment the containers were created with
    stack,      \* the publisher's and the attester's container
    mount,      \* what lies at audit/attester.key in the attester's volume
    pidFile,    \* the publisher's PID file, in its volume
    leafKeys,   \* leaf keys the publisher's log was written under
    count       \* how often each bounded call was made

deployVars == <<chain, env, keyFile, settings, keychain, setup, prov, cfg, stack, mount, pidFile, leafKeys, count>>
stackVars == <<cfg, stack, mount, pidFile, leafKeys>>

Bundled == 1
\* dvk: whether the disclosure key was pinned, or the contract made without one.
Blank(by) == [by |-> by, admin |-> NoValue, dvk |-> "none", attesters |-> {}, revoked |-> {}]
NoEnv == [role |-> NoValue, contract |-> Bundled, from |-> "existing", pub |-> NoValue, att |-> NoValue, leaf |-> NoValue]
NoCall == [pc |-> "idle"]
Networks == {"testnet", "mainnet"}
Roles == {"all", "publisher", "attester"}

\* NoValue and Dir are no role, no kind of mount and no key.
ASSUME DeploymentAssumption ==
    /\ MaxSetups \in Nat
    /\ NoValue \notin Roles \cup {"file"} /\ NoValue # <<"bundled", 0>>
    /\ \A n \in 0..MaxSetups : NoValue \notin {<<"pub", n>>, <<"ed", n>>} /\ Dir # <<"ed", n>>

DeployInit ==
    /\ chain = <<[Blank("bundled") EXCEPT !.admin = <<"bundled", 0>>, !.dvk = "pinned"]>>
    /\ env = NoEnv /\ keyFile = NoValue
    /\ settings = [mode |-> "dev", network |-> "testnet", testnet |-> NoValue]
    /\ keychain = [dev |-> NoValue, production |-> NoValue]
    /\ setup = NoCall /\ prov = NoCall
    /\ cfg = NoEnv /\ stack = [publisher |-> "down", attester |-> "down"]
    /\ mount = NoValue /\ pidFile = 0 /\ leafKeys = {}
    /\ count = [setups |-> 0, provisions |-> 0, settings |-> 0, ups |-> 0]

Counted(what, max) == count[what] < max /\ count' = [count EXCEPT ![what] = @ + 1]

-----------------------------------------------------------------------------
\* A transaction: it is confirmed, rejected, or takes effect and its answer is lost.
Outcomes == {"ok", "failed", "lost"}
Applied(outcome) == outcome # "failed"

\* What every step of the wizard does with an error: stop where it is.
StepTo(outcome, step) == setup' = IF outcome = "ok" THEN [setup EXCEPT !.pc = step] ELSE NoCall

(***************************************************************************)
(* setup_audit_config() and the wizard it runs in a container, or the      *)
(* wizard run by hand with another role.                                   *)
(***************************************************************************)
SetupCall(desktop, network, role, deploy, explicit, given) ==
    [pc |-> "fund", desktop |-> desktop, network |-> network, role |-> role, deploy |-> deploy, explicit |-> explicit,
     pub |-> IF role = "attester" THEN NoValue ELSE IF given # NoValue THEN given ELSE <<"pub", count.setups>>,
     att |-> IF role = "publisher" THEN NoValue ELSE <<"att", count.setups>>,
     leaf |-> IF role = "attester" THEN NoValue ELSE <<"leaf", count.setups>>,
     contract |-> NoValue]

\* From the desktop: refused when .env.audit exists, unless to be overwritten;
\* always testnet and all roles, and a deployment unless a contract is given.
DesktopSetup(explicit, given, overwrite) ==
    /\ setup = NoCall
    /\ env = NoEnv \/ overwrite
    /\ Counted("setups", MaxSetups)
    /\ setup' = SetupCall(TRUE, "testnet", "all", explicit = NoValue, explicit, given)
    /\ UNCHANGED <<chain, env, keyFile, settings, keychain, prov, stackVars>>

\* By hand: any role on either network; an attester deploys nothing.
CliSetup(network, role, deploy, explicit) ==
    /\ setup = NoCall
    /\ role = "attester" => ~deploy
    /\ Counted("setups", MaxSetups)
    /\ setup' = SetupCall(FALSE, network, role, deploy, explicit, NoValue)
    /\ UNCHANGED <<chain, env, keyFile, settings, keychain, prov, stackVars>>

\* fund_and_wait_for_testnet_account(), up to twenty looks at Horizon; mainnet skips it.
FundAccounts(outcome) ==
    /\ setup.pc = "fund" /\ outcome \in {"ok", "failed"}
    /\ setup.network = "mainnet" => outcome = "ok"
    /\ StepTo(outcome, "contract")
    /\ UNCHANGED <<chain, env, keyFile, settings, keychain, prov, count, stackVars>>

\* deploy_contract(): upload, wait, instantiate, each with its retries.
DeployContract(outcome) ==
    /\ setup.pc = "contract" /\ setup.deploy
    /\ chain' = IF Applied(outcome) THEN Append(chain, Blank("setup")) ELSE chain
    /\ setup' = IF outcome = "ok" THEN [setup EXCEPT !.pc = "initialize", !.contract = Len(chain) + 1]
                ELSE NoCall
    /\ UNCHANGED <<env, keyFile, settings, keychain, prov, count, stackVars>>

\* Without a deployment: an attester and anyone on mainnet name the contract, whoever
\* owns it; others get the bundled one, even if they named another.
ExistingContract(network, role, explicit) ==
    IF role = "attester" \/ network = "mainnet" THEN explicit ELSE Bundled

SelectContract ==
    /\ setup.pc = "contract" /\ ~setup.deploy
    /\ LET c == ExistingContract(setup.network, setup.role, setup.explicit)
       IN  setup' = IF c = NoValue THEN NoCall
                    ELSE [setup EXCEPT !.contract = c, !.pc = IF setup.role = "publisher" THEN "env" ELSE "key"]
    /\ UNCHANGED <<chain, env, keyFile, settings, keychain, prov, count, stackVars>>

InitializeContract(outcome) ==
    /\ setup.pc = "initialize"
    /\ chain' = IF Applied(outcome) THEN [chain EXCEPT ![setup.contract].admin = setup.pub] ELSE chain
    /\ StepTo(outcome, "register")
    /\ UNCHANGED <<env, keyFile, settings, keychain, prov, count, stackVars>>

\* Only if its file is given, and then an error ends the call like any other.
Registered(given) == IF given THEN "pinned" ELSE "declined"

RegisterDisclosureVk(given, outcome) ==
    /\ setup.pc = "register" /\ (~given => outcome = "ok")
    /\ chain' = IF Applied(outcome) THEN [chain EXCEPT ![setup.contract].dvk = Registered(given)] ELSE chain
    /\ StepTo(outcome, IF setup.role = "publisher" THEN "env" ELSE "key")
    /\ UNCHANGED <<env, keyFile, settings, keychain, prov, count, stackVars>>

\* Mutant: a new signing key on every run of the wizard.
AttesterKey_Always(found) == <<"ed", count.setups>>

\* load_or_generate_attester_key(): an empty directory in its place is removed first.
AttesterKey(found) == IF found \in {NoValue, Dir} THEN <<"ed", count.setups>> ELSE found

LoadAttesterKey ==
    /\ setup.pc = "key"
    /\ keyFile' = AttesterKey(keyFile)
    /\ setup' = [setup EXCEPT !.pc = IF setup.role = "all" THEN "authorize" ELSE "env"]
    /\ UNCHANGED <<chain, env, settings, keychain, prov, count, stackVars>>

\* Only the contract's admin may: on a contract of someone else the wizard ends here.
AuthorizeAttester(outcome) ==
    /\ setup.pc = "authorize"
    /\ LET mine == chain[setup.contract].admin = setup.pub
       IN  /\ outcome = "ok" => mine
           /\ chain' = IF Applied(outcome) /\ mine
                       THEN [chain EXCEPT ![setup.contract].attesters = @ \cup {<<setup.att, keyFile>>}]
                       ELSE chain
    /\ StepTo(outcome, "env")
    /\ UNCHANGED <<env, keyFile, settings, keychain, prov, count, stackVars>>

\* The age identities and the leaf key are new as well; an attester brings its own.
\* `from' is history: whether the run that wrote it deployed the contract it names.
EnvironmentOf(s) == [role |-> s.role, contract |-> s.contract, from |-> IF s.deploy THEN "deployed" ELSE "existing",
                     pub |-> s.pub, att |-> s.att, leaf |-> s.leaf]

\* write_env_file(), the last thing the wizard does.
WriteEnv(outcome) ==
    /\ setup.pc = "env" /\ outcome \in {"ok", "failed"}
    /\ env' = IF outcome = "ok" THEN EnvironmentOf(setup) ELSE env
    /\ setup' = IF outcome = "ok" /\ setup.desktop THEN [setup EXCEPT !.pc = "uris"] ELSE NoCall
    /\ UNCHANGED <<chain, keyFile, settings, keychain, prov, count, stackVars>>

\* persist_dev_mongo_uris() and then the contract's id into the settings, best effort.
SyncSettings(outcome) ==
    /\ setup.pc = "uris" /\ outcome \in {"ok", "failed"}
    /\ settings' = IF outcome = "ok" THEN [settings EXCEPT !.testnet = env.contract] ELSE settings
    /\ setup' = NoCall
    /\ UNCHANGED <<chain, env, keyFile, keychain, prov, count, stackVars>>

WizardNext ==
    \/ SelectContract \/ LoadAttesterKey
    \/ \E o \in Outcomes :
          \/ FundAccounts(o) \/ DeployContract(o) \/ InitializeContract(o)
          \/ \E given \in BOOLEAN : RegisterDisclosureVk(given, o)
          \/ AuthorizeAttester(o) \/ WriteEnv(o) \/ SyncSettings(o)

-----------------------------------------------------------------------------
(***************************************************************************)
(* The desktop's settings, keychain and provisioning.                      *)
(***************************************************************************)
SetAuditMode(mode) ==
    /\ settings.mode # mode /\ Counted("settings", MaxSettings)
    /\ settings' = [settings EXCEPT !.mode = mode]
    /\ UNCHANGED <<chain, env, keyFile, keychain, setup, prov, stackVars>>

SetProductionNetwork(network) ==
    /\ settings.network # network /\ Counted("settings", MaxSettings)
    /\ settings' = [settings EXCEPT !.network = network]
    /\ UNCHANGED <<chain, env, keyFile, keychain, setup, prov, stackVars>>

GenerateStellarAccount ==
    /\ Counted("settings", MaxSettings)
    /\ keychain' = [keychain EXCEPT !.dev = <<"dev", count.settings>>]
    /\ UNCHANGED <<chain, env, keyFile, settings, setup, prov, stackVars>>

ImportProductionKeypair ==
    /\ Counted("settings", MaxSettings)
    /\ keychain' = [keychain EXCEPT !.production = <<"production", 0>>]
    /\ UNCHANGED <<chain, env, keyFile, settings, setup, prov, stackVars>>

ClearProductionKeypair ==
    /\ keychain.production # NoValue /\ Counted("settings", MaxSettings)
    /\ keychain' = [keychain EXCEPT !.production = NoValue]
    /\ UNCHANGED <<chain, env, keyFile, settings, setup, prov, stackVars>>

\* audit_provision_testnet_contract(): the key follows the mode; the trial key
\* is generated, funded and saved when there is none.
ProvisionTestnetContract ==
    /\ prov = NoCall /\ Counted("provisions", MaxProvisions)
    /\ LET mode == settings.mode
           key == IF mode = "dev" /\ keychain.dev = NoValue THEN <<"trial", count.provisions>> ELSE keychain[mode]
       IN  /\ key # NoValue
           /\ keychain' = IF mode = "dev" THEN [keychain EXCEPT !.dev = key] ELSE keychain
           /\ prov' = [pc |-> "validate", key |-> key, contract |-> settings.testnet]
    /\ UNCHANGED <<chain, env, keyFile, settings, setup, stackVars>>

\* The configured contract is kept if this key owns it, refused if another does;
\* one that is not initialised or does not answer is replaced.
ValidateContract(reachable) ==
    /\ prov.pc = "validate"
    /\ prov' = IF prov.contract = NoValue \/ ~reachable \/ chain[prov.contract].admin = NoValue
               THEN [prov EXCEPT !.pc = "deploy"] ELSE NoCall
    /\ UNCHANGED <<chain, env, keyFile, settings, keychain, setup, count, stackVars>>

ProvisionStep(outcome, step) == prov' = IF outcome = "ok" THEN [prov EXCEPT !.pc = step] ELSE NoCall

ProvisionDeploy(outcome) ==
    /\ prov.pc = "deploy"
    /\ chain' = IF Applied(outcome) THEN Append(chain, Blank("desktop")) ELSE chain
    /\ prov' = IF outcome = "ok" THEN [prov EXCEPT !.pc = "initialize", !.contract = Len(chain) + 1] ELSE NoCall
    /\ UNCHANGED <<env, keyFile, settings, keychain, setup, count, stackVars>>

ProvisionInitialize(outcome) ==
    /\ prov.pc = "initialize"
    /\ chain' = IF Applied(outcome) THEN [chain EXCEPT ![prov.contract].admin = prov.key] ELSE chain
    /\ ProvisionStep(outcome, "register")
    /\ UNCHANGED <<env, keyFile, settings, keychain, setup, count, stackVars>>

\* Without the key's file among the resources this only warns and goes on.
ProvisionRegister(given, outcome) ==
    /\ prov.pc = "register" /\ (~given => outcome = "ok")
    /\ chain' = IF Applied(outcome) THEN [chain EXCEPT ![prov.contract].dvk = Registered(given)] ELSE chain
    /\ ProvisionStep(outcome, "save")
    /\ UNCHANGED <<env, keyFile, settings, keychain, setup, count, stackVars>>

\* save_production_network(Testnet, contract): also makes testnet the network.
ProvisionSave ==
    /\ prov.pc = "save"
    /\ settings' = [settings EXCEPT !.network = "testnet", !.testnet = prov.contract]
    /\ prov' = NoCall
    /\ UNCHANGED <<chain, env, keyFile, keychain, setup, count, stackVars>>

ProvisionNext ==
    \/ \E r \in BOOLEAN : ValidateContract(r)
    \/ \E o \in Outcomes : ProvisionDeploy(o) \/ ProvisionInitialize(o)
    \/ \E given \in BOOLEAN, o \in Outcomes : ProvisionRegister(given, o)
    \/ ProvisionSave

\* chain_config() and load_operator_keypair(): what the desktop's admin commands act with.
OperatorContract == IF settings.testnet = NoValue THEN Bundled ELSE settings.testnet
IsOperator == settings.network = "testnet" /\ chain[OperatorContract].admin = keychain[settings.mode]

AuthorizeOnchainAttester(pair) ==
    /\ IsOperator /\ pair \notin chain[OperatorContract].attesters
    /\ Counted("settings", MaxSettings)
    /\ chain' = [chain EXCEPT ![OperatorContract].attesters = @ \cup {pair}]
    /\ UNCHANGED <<env, keyFile, settings, keychain, setup, prov, stackVars>>

RevokeOnchainAttester(pair) ==
    /\ IsOperator /\ pair \in chain[OperatorContract].attesters
    /\ Counted("settings", MaxSettings)
    /\ chain' = [chain EXCEPT ![OperatorContract].attesters = @ \ {pair},
                              ![OperatorContract].revoked = @ \cup {pair}]
    /\ UNCHANGED <<env, keyFile, settings, keychain, setup, prov, stackVars>>

-----------------------------------------------------------------------------

(***************************************************************************)
(* The containers.                                                         *)
(***************************************************************************)
\* heal_stale_attester_key_mount(): an empty directory is removed from the volume.
Heal(m) == IF m = "dir" THEN NoValue ELSE m

KindOf(key) == IF key \in {NoValue, Dir} THEN "dir" ELSE "file"

\* stack_up(): heal as far as Docker lets it, the database, the audit services.
\* Docker makes a directory of a bind mount's missing source.
StackUp(healed, db) ==
    /\ Counted("ups", MaxUps)
    /\ LET m == IF healed THEN Heal(mount) ELSE mount
           fits == m \in {NoValue, KindOf(keyFile)}
       IN  /\ mount' = IF db /\ fits THEN KindOf(keyFile) ELSE m
           /\ stack' = IF ~db THEN stack
                       ELSE [publisher |-> "starting",
                             attester |-> IF fits THEN "starting" ELSE IF healed THEN "badMount" ELSE "unhealed"]
    /\ keyFile' = IF db /\ keyFile = NoValue THEN Dir ELSE keyFile
    /\ cfg' = IF db THEN env ELSE cfg
    /\ UNCHANGED <<chain, env, settings, keychain, setup, prov, pidFile, leafKeys>>

\* In a container the daemon is the only process, and its number is always 1.
OwnPid == 1
IsProcessRunning(pid) == pid = OwnPid

\* cmd_start()'s check of the PID file a former run left behind.
AlreadyRunning(pid) == pid > 0 /\ pid # OwnPid /\ IsProcessRunning(pid)

\* The leaf key is set first, then the log is replayed and every leaf compared.
Replayable(key) == leafKeys \subseteq {key}

\* cmd_start --mode publish: PID file, log, MongoDB, key, server.  An error before
\* the server leaves the PID file behind, and Docker starts the container again.
PublisherStart(mongo, bound) ==
    /\ stack.publisher = "starting"
    /\ LET refused == AlreadyRunning(pidFile)
           up == Replayable(cfg.leaf) /\ mongo /\ cfg.pub # NoValue
       IN  /\ pidFile' = IF refused THEN pidFile ELSE IF up /\ ~bound THEN 0 ELSE OwnPid
           /\ stack' = [stack EXCEPT !.publisher = IF refused THEN "refused" ELSE IF up /\ bound THEN "running" ELSE "crashed"]
    /\ UNCHANGED <<chain, env, keyFile, settings, keychain, setup, prov, cfg, mount, leafKeys, count>>

\* cmd_start --mode attest: the mounted key must be a file, the Stellar key given.
AttesterStart(mongo) ==
    /\ stack.attester = "starting"
    /\ stack' = [stack EXCEPT !.attester =
          IF mongo /\ KindOf(keyFile) = "file" /\ cfg.att # NoValue THEN "running" ELSE "crashed"]
    /\ UNCHANGED <<chain, env, keyFile, settings, keychain, setup, prov, cfg, mount, pidFile, leafKeys, count>>

\* The process dies; `restart: unless-stopped' runs it again.
Crash(s) ==
    /\ stack[s] = "running"
    /\ stack' = [stack EXCEPT ![s] = "crashed"]
    /\ UNCHANGED <<chain, env, keyFile, settings, keychain, setup, prov, cfg, mount, pidFile, leafKeys, count>>

RestartContainer(s) ==
    /\ stack[s] = "crashed"
    /\ stack' = [stack EXCEPT ![s] = "starting"]
    /\ UNCHANGED <<chain, env, keyFile, settings, keychain, setup, prov, cfg, mount, pidFile, leafKeys, count>>

PublishEvent ==
    /\ stack.publisher = "running"
    /\ leafKeys' = leafKeys \cup {cfg.leaf}
    /\ UNCHANGED <<chain, env, keyFile, settings, keychain, setup, prov, cfg, stack, mount, pidFile, count>>

\* stack_down() keeps the volumes, stack_reset_data() does not.
StackDown(volumes) ==
    /\ stack' = [s \in DOMAIN stack |-> "down"]
    /\ IF volumes THEN leafKeys' = {} /\ mount' = NoValue /\ pidFile' = 0
                  ELSE UNCHANGED <<leafKeys, mount, pidFile>>
    /\ UNCHANGED <<chain, env, keyFile, settings, keychain, setup, prov, cfg, count>>

StackNext ==
    \/ \E a, b \in BOOLEAN : StackUp(a, b) \/ PublisherStart(a, b)
    \/ \E a \in BOOLEAN : AttesterStart(a) \/ StackDown(a)
    \/ \E s \in DOMAIN stack : Crash(s) \/ RestartContainer(s)
    \/ PublishEvent

\* The pairs of keys an operator may name: those authorised somewhere, and an auditor's.
AttesterPairs == UNION {c.attesters : c \in {chain[i] : i \in DOMAIN chain}}
OnchainPairs == AttesterPairs \cup {<<<<"auditor", 0>>, <<"auditor", 0>>>>}

SettingsNext ==
    \/ \E m \in {"dev", "production"} : SetAuditMode(m)
    \/ \E n \in Networks : SetProductionNetwork(n)
    \/ GenerateStellarAccount \/ ImportProductionKeypair \/ ClearProductionKeypair
    \/ \E pair \in OnchainPairs : AuthorizeOnchainAttester(pair) \/ RevokeOnchainAttester(pair)

CallNext ==
    \/ ProvisionTestnetContract
    \/ \E explicit \in DOMAIN chain \cup {NoValue}, overwrite \in BOOLEAN :
          \E given \in {NoValue, keychain.production} : DesktopSetup(explicit, given, overwrite)
    \/ \E network \in Networks, role \in Roles, deploy \in BOOLEAN, explicit \in DOMAIN chain \cup {NoValue} :
          CliSetup(network, role, deploy, explicit)

DeployNext == WizardNext \/ ProvisionNext \/ SettingsNext \/ CallNext \/ StackNext

DeploySpec == DeployInit /\ [][DeployNext]_deployVars

-----------------------------------------------------------------------------
(***************************************************************************)
(* Properties.                                                             *)
(***************************************************************************)
Anchors(e) ==
    LET c == chain[e.contract]
    IN  /\ e.from = "deployed" => c.admin = e.pub /\ c.dvk # "none"
        /\ e.role = "all" => <<e.att, keyFile>> \in c.attesters \cup c.revoked

\* Whatever failed, was lost or was run again, the .env.audit that is there and
\* the one the containers were started with are of a wizard that went through: a
\* contract it deployed is administered by the publisher and has its disclosure
\* key if one was given, and with both roles the attester is authorised with the
\* very key in attester.key.  The wizard writes the file last and never replaces
\* the signing key.
EnvironmentAnchors == Anchors(env) /\ Anchors(cfg)

\* A contract id the desktop remembers is initialised, and the registration of its
\* disclosure key did not fail, at every point of the calls that deploy and save it.
SavedContractReady ==
    settings.testnet # NoValue => chain[settings.testnet].admin # NoValue /\ chain[settings.testnet].dvk # "none"

\* Starting the stack before setup leaves a directory where the key belongs, on
\* the host and in the volume; after the repair of stack_up() the attester is
\* never again refused its mount.  A PID file left in the volume never locks
\* the publisher out either.
LeftoversNeverLockOut == stack.attester # "badMount" /\ stack.publisher # "refused"

\* A setup that is run again has a new leaf key while the publisher's log
\* outlives it: no log is ever continued under another key.
LogUnderOneKey == Cardinality(leafKeys) <= 1

\* Setups, provisioning and starts that fail anywhere and are made again never spoil
\* what is there.
LeftoversHarmless == EnvironmentAnchors /\ SavedContractReady /\ LeftoversNeverLockOut /\ LogUnderOneKey
=============================================================================
