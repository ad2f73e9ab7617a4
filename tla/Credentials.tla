---------------------------- MODULE Credentials ----------------------------
(***************************************************************************)
(* Where a team daemon's secrets live and which one a sync cycle uses: the *)
(* per-repository and the global keys of kv_state, the sealed (encrypted)  *)
(* secret of the setup wizard, the start-up code that seals the old        *)
(* plaintext and gives every repository a key of its own, the handlers     *)
(* that save secrets, and the three readers with three different chains:   *)
(* Scheduler::maybe_run_repo_cycles, SyncEngine::reload_credentials and    *)
(* start_repo_import.                                                      *)
(*                                                                         *)
(* The SVN password and the Git token follow the same code, so one value   *)
(* stands for both: the password an SVN client is given, and the token     *)
(* that is embedded in the URL of the clone's remote.                      *)
(***************************************************************************)
EXTENDS Naturals, FiniteSets, Sequences

CONSTANTS
    Repos,      \* repositories the daemon may come to know
    Parent,     \* [Repos -> Repos \cup {None}]: the parent of a branch pair
    Secrets,    \* values an administrator may save, each at most once
    Legacy,     \* the plaintext an earlier version may have left
    None,       \* no value
    Blank,      \* the empty string
    MaxDeaths   \* bound: how often the daemon dies

ASSUME CredentialsAssumption ==
    /\ Parent \in [Repos -> Repos \cup {None}]
    /\ \A r \in Repos : Parent[r] # None => Parent[Parent[r]] = None
    /\ Legacy \notin Secrets /\ None \notin Secrets \cup Repos
    /\ Blank \notin Secrets /\ Blank # None /\ Legacy \notin {None, Blank}
    /\ "idle" \notin Secrets \cup {Legacy, None, Blank}
    /\ MaxDeaths \in Nat

Values == Secrets \cup {Legacy}
Slots == Values \cup {None, Blank}

VARIABLES
    env,      \* whether the environment provides the daemon's secret
    rows,     \* the repositories table
    own,      \* kv_state: secret_..._{repo_id}
    global,   \* kv_state: secret_...
    sealed,   \* encrypted_secrets
    boot,     \* "down", "seal", "copy" or "up"
    uncopied, \* start-up: repositories whose keys are still to be looked at
    saving,   \* the second statement a saving handler has yet to make
    client,   \* the password of the repository's running cycle, or "idle"
    url,      \* what the remote URL of the clone embeds, or "no clone"
    deaths,
    savedFor, \* history: values saved for each repository
    latest    \* history: the last of them

credVars == <<env, rows, own, global, sealed, boot, uncopied, saving, client,
              url, deaths, savedFor, latest>>

\* A repository and its branch pairs.  A branch pair has none of its own.
Root(r) == IF Parent[r] = None THEN r ELSE Parent[r]

Family(r) == {q \in Repos : Root(q) = Root(r)}

\* The first value of a chain of keys that is there and is not empty.
FirstSet(chain) ==
    IF \E i \in DOMAIN chain : chain[i] \in Values
    THEN chain[CHOOSE i \in DOMAIN chain :
                   /\ chain[i] \in Values
                   /\ \A j \in 1..(i - 1) : chain[j] \notin Values]
    ELSE None

CredInit ==
    /\ env \in BOOLEAN /\ rows = {}
    /\ own = [r \in Repos |-> None]
    /\ global \in {None, Legacy}
    /\ sealed = None /\ boot = "down" /\ uncopied = {} /\ saving = <<>>
    /\ client = [r \in Repos |-> "idle"]
    /\ url = [r \in Repos |-> "no clone"]
    /\ deaths = 0
    /\ savedFor = [r \in Repos |-> {}]
    /\ latest = [r \in Repos |-> None]

-----------------------------------------------------------------------------
(* Start-up: AppConfig::resolve_env_vars, resolve_secrets_from_db, main.   *)

ReadSealed == env \/ sealed \in Values

\* The environment wins, then the sealed secret; only without both is the
\* plaintext looked at: sealed first, blanked in a statement of its own.
ResolveSecrets ==
    /\ boot = "down"
    /\ IF ReadSealed \/ global \notin Values
       THEN boot' = "copy" /\ uncopied' = rows /\ UNCHANGED sealed
       ELSE boot' = "seal" /\ sealed' = global /\ UNCHANGED uncopied
    /\ UNCHANGED <<env, rows, own, global, saving, client, url, deaths,
                   savedFor, latest>>

BlankPlaintext ==
    /\ boot = "seal"
    /\ global' = Blank
    /\ boot' = "copy" /\ uncopied' = rows
    /\ UNCHANGED <<env, rows, own, sealed, saving, client, url, deaths,
                   savedFor, latest>>

SoleParent(r) == {q \in rows : Parent[q] = None} = {r}

CopySource(r) ==
    IF Parent[r] # None THEN FirstSet(<<own[Parent[r]]>>)
    ELSE IF SoleParent(r) THEN FirstSet(<<global>>) ELSE None

Copied(r) ==
    IF own[r] \in Values \/ CopySource(r) = None THEN own[r] ELSE CopySource(r)

\* The repositories come in the order of their names, which are free.
CopyKey(r) ==
    /\ boot = "copy" /\ r \in uncopied
    /\ own' = [own EXCEPT ![r] = Copied(r)]
    /\ uncopied' = uncopied \ {r}
    /\ UNCHANGED <<env, rows, global, sealed, boot, saving, client, url,
                   deaths, savedFor, latest>>

\* An empty repositories table is filled from the configuration file; the
\* keys are given to the new row only if the plaintext is still there.
MigrateConfig(r) ==
    /\ boot = "copy" /\ rows = {} /\ Parent[r] = None
    /\ rows' = {r} /\ uncopied' = {r}
    /\ own' = [own EXCEPT ![r] = FirstSet(<<global>>)]
    /\ UNCHANGED <<env, global, sealed, boot, saving, client, url, deaths,
                   savedFor, latest>>

Started ==
    /\ boot = "copy" /\ uncopied = {}
    /\ boot' = "up"
    /\ UNCHANGED <<env, rows, own, global, sealed, uncopied, saving, client,
                   url, deaths, savedFor, latest>>

Die ==
    /\ boot # "down" /\ deaths < MaxDeaths
    /\ deaths' = deaths + 1
    /\ boot' = "down" /\ uncopied' = {} /\ saving' = <<>>
    /\ client' = [r \in Repos |-> "idle"]
    /\ UNCHANGED <<env, rows, own, global, sealed, url, savedFor, latest>>

-----------------------------------------------------------------------------
(* The web API.                                                            *)

\* The wizard, create_repo and create_branch_pair.
AddRepository(r) ==
    /\ boot = "up" /\ r \notin rows
    /\ Parent[r] \in rows \cup {None}
    /\ rows' = rows \cup {r}
    /\ UNCHANGED <<env, own, global, sealed, boot, uncopied, saving, client,
                   url, deaths, savedFor, latest>>

Unused == Secrets \ (UNION {savedFor[r] : r \in Repos} \cup {sealed})

\* save_credentials: the repository's key, then the global one as well.
SaveCredentials(r, v) ==
    /\ boot = "up" /\ saving = <<>> /\ r \in rows
    /\ own' = [own EXCEPT ![r] = v]
    /\ saving' = <<v>>
    /\ savedFor' = [savedFor EXCEPT ![r] = @ \cup {v}]
    /\ latest' = [latest EXCEPT ![r] = v]
    /\ UNCHANGED <<env, rows, global, sealed, boot, uncopied, client, url, deaths>>

\* apply_config: the sealed secret, then the plaintext is blanked.
ApplyConfig(v) ==
    /\ boot = "up" /\ saving = <<>>
    /\ sealed' = v /\ saving' = <<Blank>>
    /\ UNCHANGED <<env, rows, own, global, boot, uncopied, client, url, deaths,
                   savedFor, latest>>

FinishSaving ==
    /\ saving # <<>>
    /\ global' = saving[1] /\ saving' = <<>>
    /\ UNCHANGED <<env, rows, own, sealed, boot, uncopied, client, url, deaths,
                   savedFor, latest>>

-----------------------------------------------------------------------------
(* Readers.                                                                *)

\* What is embedded for a token: nothing without one, an empty one as well.
Embedded(v) ==
    IF v = None THEN "bare" ELSE IF v = Blank THEN "blank" ELSE "token"

\* ensure_remote_credentials: a URL that has credentials is left alone.
Ensured(u, v) == IF u = "bare" THEN Embedded(v) ELSE u

\* clone_repo embeds the token; where it fails, git init and git remote add
\* make a remote without one, and the next statement embeds it after all.
Remote(r, v) ==
    IF url[r] = "no clone" THEN Embedded(v) ELSE Ensured(url[r], v)

\* The scheduler's chain: own key, parent's, global.
Chain(r) ==
    FirstSet(<<own[r], IF Parent[r] = None THEN None ELSE own[Parent[r]],
               global>>)

StartCycle(r) ==
    /\ boot = "up" /\ r \in rows /\ client[r] = "idle"
    /\ client' = [client EXCEPT ![r] = Chain(r)]
    /\ url' = [url EXCEPT ![r] = Remote(r, Chain(r))]
    /\ UNCHANGED <<env, rows, own, global, sealed, boot, uncopied, saving,
                   deaths, savedFor, latest>>

\* Variant for mutation testing: the global key is asked first.
ReloadedGlobalFirst(r) == FirstSet(<<global, own[r], client[r]>>)

\* The engine's chain has no parent: own key, global, what it was given.
Reloaded(r) == FirstSet(<<own[r], global, client[r]>>)

\* The cycle takes its password and goes on to use it.
RunCycle(r) ==
    /\ client[r] \in Slots
    /\ client' = [client EXCEPT ![r] = "idle"]
    /\ url' = [url EXCEPT ![r] = Ensured(@, FirstSet(<<own[r], global>>))]
    /\ UNCHANGED <<env, rows, own, global, sealed, boot, uncopied, saving,
                   deaths, savedFor, latest>>

\* start_repo_import: own key, global, an empty one included; a reset makes
\* the clone anew.
ImportToken(r) == IF own[r] # None THEN own[r] ELSE global

RepoImport(r, reset) ==
    /\ boot = "up" /\ r \in rows
    /\ url' = [url EXCEPT ![r] =
           IF reset THEN Embedded(ImportToken(r)) ELSE Remote(r, ImportToken(r))]
    /\ UNCHANGED <<env, rows, own, global, sealed, boot, uncopied, saving,
                   client, deaths, savedFor, latest>>

-----------------------------------------------------------------------------

Boot ==
    \/ ResolveSecrets \/ BlankPlaintext \/ Started
    \/ \E r \in Repos : CopyKey(r) \/ MigrateConfig(r)

CredNext ==
    \/ Boot \/ Die \/ FinishSaving
    \/ \E v \in Unused : ApplyConfig(v)
    \/ \E r \in Repos :
          \/ AddRepository(r) \/ StartCycle(r) \/ RunCycle(r)
          \/ \E v \in Unused : SaveCredentials(r, v)
          \/ \E reset \in BOOLEAN : RepoImport(r, reset)

CredSpec == CredInit /\ [][CredNext]_credVars

-----------------------------------------------------------------------------
(* Properties.                                                             *)

\* Every variable has its type.
CredTypeOK ==
    /\ env \in BOOLEAN /\ rows \subseteq Repos
    /\ own \in [Repos -> Values \cup {None}] /\ global \in Slots
    /\ sealed \in Values \cup {None}
    /\ boot \in {"down", "seal", "copy", "up"} /\ uncopied \subseteq rows
    /\ saving \in {<<>>} \cup {<<v>> : v \in Secrets \cup {Blank}}
    /\ client \in [Repos -> Slots \cup {"idle"}]
    /\ url \in [Repos -> {"no clone", "bare", "blank", "token"}]
    /\ deaths \in 0..MaxDeaths
    /\ savedFor \in [Repos -> SUBSET Secrets]
    /\ latest \in [Repos -> Secrets \cup {None}]

\* main.rs: "avoids cross-contamination".  However saves, starts and deaths
\* follow each other, a repository's own key was saved for it, for its parent
\* or its branch pairs, or is what the earlier version left: the global key,
\* which every save overwrites, never makes it another repository's.
KeysStayInTheFamily ==
    \A r \in Repos : own[r] \in {None, Legacy} \cup UNION {savedFor[q] : q \in Family(r)}

\* reload_credentials: "take effect without a daemon restart".  Once a secret
\* has been saved for a repository, every cycle of it that comes to read its
\* credentials gets the last one, whatever start-up has copied, others have
\* saved since and the scheduler gave the cycle.
CyclesUseTheLastSaved ==
    \A r \in Repos : client[r] # "idle" /\ latest[r] # None => Reloaded(r) = latest[r]

\* resolve_secrets_from_db and apply_config: the secret an earlier version or
\* the wizard has left is never lost, wherever a death cuts the two statements
\* that move it: only what is sealed, or replaced by a save, is blanked.
SecretsSurvive ==
    [][(global \in Values /\ global' = Blank) => (sealed' \in Values)]_credVars

\* A cycle of a repository with a secret of its own never ends with a remote
\* that has no token: also where the clone had failed, was made before there
\* was a secret, or was made anew by an import in the middle of the cycle.
CyclesLeaveAToken ==
    [][\A r \in Repos :
          client[r] # "idle" /\ client'[r] = "idle" /\ boot' = "up"
              /\ latest[r] # None
              => url'[r] \notin {"no clone", "bare"}]_credVars
=============================================================================
