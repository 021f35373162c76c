------------------------------ MODULE Profiles ------------------------------
(***************************************************************************)
(* Connection profiles: their form, the store file, the keychain and what  *)
(* a connection sends (src-tauri/src/mongo/profiles.rs, credentials.rs,    *)
(* client_registry.rs, commands/connections.rs; mongo-uri/src/lib.rs).     *)
(*                                                                         *)
(* A command reads the stored profiles, changes its copy and writes all of *)
(* them; the secret lives apart, in the keychain.  Commands overlap, any   *)
(* call may fail and the program may stop between two calls.               *)
(***************************************************************************)
EXTENDS Integers, FiniteSets

CONSTANTS
    Id,         \* profile ids
    ProfileName, \* profile names
    Secret,     \* passwords
    Mechanism,  \* the mechanisms profiles are saved with, of "none", "scram", "x509", "external", "kerberos"
    Form,       \* what the user may fill in and save
    Thread,     \* commands that may be under way at once
    MaxCommands \* bound: save and delete commands

VARIABLES
    store,      \* the profile store in memory, per id
    disk,       \* the store file; one that is cut off reads as empty
    secrets,    \* the keychain, per id
    command,    \* the command of each thread
    commands,   \* how many there were
    alone,      \* history: the thread whose command nothing has overlapped, if there is one
    known,      \* history: per id, the profile last acknowledged alone and what was tried since
    passwords   \* history: per id, the password last acknowledged alone and what was tried since

pvars == <<store, disk, secrets, command, commands, alone, known, passwords>>

NoSecret == "no secret"
Keep == "keep"          \* secret: None in the request
Clear == "clear"        \* secret: ""
Uri(user, password) == [user |-> user, password |-> password]

\* No password is one of the words for none, and a profile has a name.
ASSUME ProfilesAssumption ==
    /\ Secret \cap {NoSecret, Keep, Clear} = {} /\ "" \notin ProfileName
    /\ Form \subseteq [name : ProfileName, uri : [user : BOOLEAN, password : Secret \cup {NoSecret}],
                      mechanism : Mechanism, secret : Secret \cup {Keep, Clear}]

NoProfile == [name |-> "", uri |-> Uri(FALSE, NoSecret), mechanism |-> "none", hasSecret |-> FALSE]
EmptyStore == [p \in Id |-> NoProfile]
NoCommand == [op |-> "idle", id |-> "", secret |-> Keep, profile |-> NoProfile, all |-> <<>>, sent |-> NoSecret]

-----------------------------------------------------------------------------
(* What is sent.                                                           *)

\* strip_password(): a password leaves the URI, a user stays in it.
StripPassword(uri) == Uri(uri.user, NoSecret)

\* Mutant: the URI keeps its password unless there is a field for it.
SplitUriAndSecret_FieldOnly(uri, secret) ==
    IF secret \in {Keep, Clear} /\ uri.password # NoSecret THEN [uri |-> uri, secret |-> secret]
    ELSE [uri |-> StripPassword(uri), secret |-> secret]

\* split_uri_and_secret(): the field, else the URI's password, else keep or clear.
SplitUriAndSecret(uri, secret) ==
    [uri |-> StripPassword(uri),
     secret |-> IF secret \in {Keep, Clear} /\ uri.password # NoSecret THEN uri.password ELSE secret]

\* apply_auth(): the credential of the connection, or that it is refused.
RefusedAuth == [password |-> NoSecret, external |-> FALSE, refused |-> TRUE]
ApplyAuth(uri, mechanism, secret) ==
    LET Credential(password) == [password |-> password, external |-> mechanism \in {"x509", "external"}, refused |-> FALSE]
    IN  CASE mechanism = "kerberos" \/ (mechanism = "none" /\ secret = NoSecret) -> [Credential(uri.password) EXCEPT !.external = FALSE]
          [] mechanism = "none" /\ secret # NoSecret /\ ~uri.user -> RefusedAuth
          [] mechanism = "x509" -> Credential(NoSecret)
          [] OTHER -> Credential(IF secret # NoSecret THEN secret ELSE uri.password)

\* test_profile(): what is in the form, and nothing from the keychain.
TestProfile(uri, mechanism, secret) == ApplyAuth(uri, mechanism, IF secret \in {Keep, Clear} THEN NoSecret ELSE secret)

\* open_connection(): the stored profile with its secret, or the one given; get().
OpenConnection(id, given) == ApplyAuth(store[id].uri, store[id].mechanism, IF given # NoSecret THEN given ELSE secrets[id])

-----------------------------------------------------------------------------
ProfilesInit ==
    /\ store = EmptyStore /\ disk = EmptyStore
    /\ secrets = [p \in Id |-> NoSecret]
    /\ command = [t \in Thread |-> NoCommand] /\ commands = 0 /\ alone = {}
    /\ known = [p \in Id |-> {NoProfile}] /\ passwords = [p \in Id |-> {NoSecret}]

Start(t, c) ==
    /\ command[t] = NoCommand /\ commands < MaxCommands
    /\ command' = [command EXCEPT ![t] = c]
    /\ commands' = commands + 1
    /\ alone' = IF \A u \in Thread : command[u] = NoCommand THEN {t} ELSE {}
End(t) == command' = [command EXCEPT ![t] = NoCommand]

Stored(all) == {p \in Id : all[p] # NoProfile}

\* upsert(): the name is free, or it was this profile's.
NameFree(all, id, name) == all[id].name = name \/ \A p \in Stored(all) \ {id} : all[p].name # name

\* What the user typed for a password, if anything.
TypedPassword(uri, field) == IF field \in {Keep, Clear} THEN uri.password ELSE field

\* save_profile(), up to the first write.  A name that is taken ends it.
SaveLoad(t) ==
    \E id \in Id, form \in Form :
       LET split == SplitUriAndSecret(form.uri, form.secret)
       IN  /\ NameFree(store, id, form.name)
           /\ Start(t, [op |-> "secret", id |-> id, secret |-> split.secret, all |-> store, sent |-> TypedPassword(form.uri, form.secret),
                        profile |-> [name |-> form.name, uri |-> split.uri, mechanism |-> form.mechanism, hasSecret |-> FALSE]])
           /\ UNCHANGED <<store, disk, secrets, known, passwords>>

HasSecret(secret) == secret # NoSecret

\* persist_secret(): the outcomes.  A secret that cannot be deleted is not an error.
PersistSecret(id, secret) ==
    CASE secret = Clear -> {[secrets |-> k, has |-> FALSE, ok |-> TRUE] : k \in {NoSecret, secrets[id]}}
      [] secret = Keep -> {[secrets |-> secrets[id], has |-> HasSecret(secrets[id]), ok |-> o] : o \in BOOLEAN}
      [] OTHER -> {[secrets |-> secret, has |-> TRUE, ok |-> TRUE], [secrets |-> secrets[id], has |-> FALSE, ok |-> FALSE]}

\* What the user asked for: the password typed, none where it was cleared, else the
\* ones before.
Asked(c, before) == IF c.sent # NoSecret THEN {c.sent} ELSE IF c.secret = Clear THEN {NoSecret} ELSE before

SaveSecret(t) ==
    LET c == command[t]
    IN  /\ c.op = "secret"
        /\ \E r \in PersistSecret(c.id, c.secret) :
             /\ secrets' = [secrets EXCEPT ![c.id] = r.secrets]
             /\ IF r.ok THEN command' = [command EXCEPT ![t].op = "save", ![t].profile.hasSecret = r.has] ELSE End(t)
        /\ passwords' = [passwords EXCEPT ![c.id] = @ \cup Asked(c, {})]
        /\ UNCHANGED <<store, disk, commands, alone, known>>

\* save_all(): the store in memory is set, then written.  A write that fails leaves the
\* file as it was or cut off.
WriteStore(outcome) == disk' = CASE outcome = "written" -> store' [] outcome = "failed" -> disk [] outcome = "cut" -> EmptyStore

\* What the file may hold after a write, besides what was known: nothing when cut off.
Lost(outcome) == IF outcome = "cut" THEN {NoProfile} ELSE {}

\* The end of upsert() and of save_profile(), which asks the keychain once more: an
\* error there is the answer to a save that was made.
SaveStore(t) ==
    LET c == command[t]
    IN  /\ c.op = "save"
        /\ store' = [c.all EXCEPT ![c.id] = c.profile]
        /\ \E outcome \in {"written", "failed", "cut"}, answered \in BOOLEAN :
             LET acked == answered /\ outcome = "written" /\ t \in alone
             IN  /\ WriteStore(outcome)
                 /\ known' = [p \in Id |-> Lost(outcome) \cup IF p # c.id THEN known[p] ELSE IF acked THEN {c.profile} ELSE known[p] \cup {c.profile}]
                 /\ passwords' = [passwords EXCEPT ![c.id] = IF acked /\ ~(c.secret = Clear /\ HasSecret(secrets[c.id])) THEN Asked(c, @) ELSE @]
        /\ End(t)
        /\ UNCHANGED <<secrets, commands, alone>>

\* delete(): the profile first, then its secret; a secret left behind is no error.
DeleteLoad(t) ==
    \E id \in Stored(store) :
       /\ Start(t, [NoCommand EXCEPT !.op = "delete", !.id = id, !.all = store])
       /\ UNCHANGED <<store, disk, secrets, known, passwords>>

DeleteStore(t) ==
    LET c == command[t]
    IN  /\ c.op = "delete"
        /\ store' = [c.all EXCEPT ![c.id] = NoProfile]
        /\ \E outcome \in {"written", "failed", "cut"} :
             /\ WriteStore(outcome)
             /\ known' = [p \in Id |-> known[p] \cup Lost(outcome) \cup IF p = c.id THEN {NoProfile} ELSE {}]
             /\ IF outcome = "written" THEN command' = [command EXCEPT ![t].op = "forget"] ELSE End(t)
        /\ UNCHANGED <<secrets, commands, alone, passwords>>

DeleteSecret(t) ==
    LET c == command[t]
    IN  /\ c.op = "forget"
        /\ secrets' \in {secrets, [secrets EXCEPT ![c.id] = NoSecret]}
        /\ known' = [known EXCEPT ![c.id] = IF t \in alone THEN {NoProfile} ELSE @]
        /\ passwords' = [passwords EXCEPT ![c.id] = {NoSecret} \cup IF t \in alone /\ ~HasSecret(secrets'[c.id]) THEN {} ELSE @]
        /\ End(t)
        /\ UNCHANGED <<store, disk, commands, alone>>

\* The store plugin writes what is set on its own.
Autosave ==
    /\ disk # store
    /\ disk' = store
    /\ UNCHANGED <<store, secrets, command, commands, alone, known, passwords>>

\* The program stops and starts again; a write under way may be cut off.
Relaunch ==
    /\ \E outcome \in {"failed"} \cup {o \in {"cut"} : disk # store \/ \E t \in Thread : command[t].op \in {"save", "delete"}} :
         /\ WriteStore(outcome)
         /\ known' = [p \in Id |-> known[p] \cup Lost(outcome)]
    /\ store' = disk'
    /\ command' = [t \in Thread |-> NoCommand]
    /\ UNCHANGED <<secrets, commands, alone, passwords>>

ProfilesNext ==
    \/ \E t \in Thread : SaveLoad(t) \/ SaveSecret(t) \/ SaveStore(t) \/ DeleteLoad(t) \/ DeleteStore(t) \/ DeleteSecret(t)
    \/ Autosave \/ Relaunch

ProfilesSpec == ProfilesInit /\ [][ProfilesNext]_pvars

-----------------------------------------------------------------------------
(* Properties.                                                             *)

AtRest(p) == \A t \in Thread : command[t].id # p

\* The test of a form sends what was typed in it.
TestSendsTyped ==
    \A form \in Form :
       LET test == TestProfile(form.uri, form.mechanism, form.secret)
       IN  form.mechanism \notin {"x509", "kerberos"} /\ ~test.refused => test.password = TypedPassword(form.uri, form.secret)

\* Open sends the password of the last save that nothing overlapped, or one that was
\* typed in a save of this profile since, answered or not: when the keychain took it
\* and the store then failed, the profile that was saved before opens with it.  X.509
\* sends none, and Kerberos takes the password from a URI that no longer has it.
SavedPasswordIsSent ==
    /\ TestSendsTyped
    /\ \A p \in Id :
          store[p].mechanism \notin {"x509", "kerberos"} =>
             LET sent == OpenConnection(p, NoSecret) IN ~sent.refused => sent.password \in passwords[p]

\* The store and its file hold the profile as the last save or delete that nothing
\* overlapped left it, or as one tried since would; a file that was cut off holds
\* none.  Whatever overlaps: no password is in them, and no name twice.
AckedProfilesKept ==
    \A all \in {store, disk} :
       /\ \A p \in Id : all[p] \in known[p] /\ all[p].uri.password = NoSecret
       /\ \A p, q \in Stored(all) : p # q => all[p].name # all[q].name

\* What was acknowledged of a profile and of its password is what is stored and sent,
\* up to what commands that overlapped, failed or were stopped since did.
ProfilesKept == SavedPasswordIsSent /\ AckedProfilesKept

\* Between commands the flag of a stored profile tells whether the keychain has a
\* secret of it ("report whether a secret exists for this profile afterwards",
\* persist_secret() in profiles.rs).  A secret that could not be deleted stays, and one
\* that was put stays when the store then fails.
FlagTellsKeychain ==
    \A p \in Stored(store) : AtRest(p) => store[p].hasSecret = HasSecret(secrets[p])
=============================================================================
