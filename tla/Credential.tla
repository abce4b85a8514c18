----------------------------- MODULE Credential -----------------------------
(***************************************************************************)
(* Provider credentials and their encrypted secrets (internal/credential), *)
(* the keyring that seals them (internal/secret), and the copy of the      *)
(* active ones that each process registers in its inference runtime when   *)
(* it starts (inference/cpa ReconcileCredentials, cmd/bablo).              *)
(*                                                                         *)
(* Every write is one transaction under the lock of the credential's row.  *)
(* Re-encryption is two of them with the decryption in between; the start  *)
(* of a process is one transaction per credential.  Processes have the     *)
(* keys that were configured when they started, and share the database.    *)
(*                                                                         *)
(* A plaintext is named after the version that brought it.                 *)
(***************************************************************************)
EXTENDS Integers, SequencesExt

CONSTANTS
    Credentials,
    Processes,
    Source,        \* source_kind of each credential
    Kinds,         \* secret kinds
    MaxKey,        \* key versions are 1..MaxKey, in the order of their rollout
    MaxEdits,      \* bound on writes of administrators
    MaxStarts      \* bound on changes of the configuration and on starts

ASSUME CredentialAssumption == MaxKey \in Nat \ {0}

VARIABLES
    status,     \* credentials.status, "none" before Create
    secret,     \* credential_secrets by credential and kind; version_no is the index
    config,     \* the configured keys: the current one and all
    process,    \* each process: pc, its keyring, ids still to register
    call,       \* the re-encryption of a process between its two transactions
    runtime,    \* registered credentials of a process: versions of their secrets
    atStart,    \* status and newest versions when the process started
    edits, starts

rows == <<status, secret>>
credentialVars == <<status, secret, config, process, call, runtime, atStart, edits, starts>>

(* sourceAllowsSecret and hasRequiredSecret. *)
KindsOf(c) ==
    Kinds \cap IF Source[c] = "oauth"
      THEN {"oauth_access", "oauth_refresh", "oauth_id"} ELSE {Source[c]}

Required(c) == IF Source[c] = "oauth" THEN "oauth_access" ELSE Source[c]

(* RegisterCredential knows no other sources. *)
Supported(c) == Source[c] \in {"oauth", "api_key"}

ActiveVersions(c, k) == {i \in DOMAIN secret[c][k] : secret[c][k][i].active}
ActiveVersion(c, k) == CHOOSE i \in ActiveVersions(c, k) : TRUE

(* Seal under the current key of the process. *)
Seal(p, value) == [value |-> value, key |-> process[p].keyring.current, active |-> TRUE]

(* The prior active version is retired, the new one is MAX(version_no) + 1. *)
Rotated(p, versions) ==
    Append([i \in DOMAIN versions |-> [versions[i] EXCEPT !.active = FALSE]],
           Seal(p, Len(versions) + 1))

Newest == [c \in Credentials |->
    [status |-> status[c], version |-> [k \in Kinds |-> Len(secret[c][k])]]]

NoCall == [pc |-> "idle"]
Unregistered == [k \in {} |-> 0]

CredentialInit ==
    /\ status = [c \in Credentials |-> "none"]
    /\ secret = [c \in Credentials |-> [k \in Kinds |-> <<>>]]
    /\ config = [current |-> 1, keys |-> {1}]
    /\ \E up \in Processes : process = [p \in Processes |->
         [pc |-> IF p = up THEN "up" ELSE "down", todo |-> {}, keyring |-> config,
          service |-> "none"]]
    /\ call = [p \in Processes |-> NoCall]
    /\ runtime = [p \in Processes |-> [c \in Credentials |-> Unregistered]]
    /\ atStart = [p \in Processes |-> Newest]
    /\ edits = 0 /\ starts = 0

-----------------------------------------------------------------------------
(* Administration, in a process that is up *)

Edit(p) == process[p].pc = "up" /\ edits < MaxEdits /\ edits' = edits + 1

(* Create: one secret of each of the kinds given, at version 1. *)
Create(p, c) ==
    /\ Edit(p) /\ status[c] = "none"
    /\ \E enabled \in BOOLEAN, kinds \in SUBSET KindsOf(c) :
         /\ Required(c) \in kinds
         /\ status' = [status EXCEPT ![c] = IF enabled THEN "active" ELSE "disabled"]
         /\ secret' = [secret EXCEPT ![c] =
              [k \in Kinds |-> IF k \in kinds THEN <<Seal(p, 1)>> ELSE <<>>]]
    /\ UNCHANGED <<config, process, call, runtime, atStart, starts>>

(* Update of the status; a trigger refuses to leave 'revoked'. *)
Update(p, c) ==
    /\ Edit(p)
    /\ \E s \in {"active", "disabled", "revoked"} \ {status[c]} :
         /\ status[c] \notin {"none", "revoked"}
         /\ status' = [status EXCEPT ![c] = s]
    /\ UNCHANGED <<secret, config, process, call, runtime, atStart, starts>>

Rotate(p, c, k) ==
    /\ Edit(p)
    /\ status[c] \notin {"none", "revoked"} /\ k \in KindsOf(c)
    /\ secret' = [secret EXCEPT ![c][k] = Rotated(p, @)]
    /\ UNCHANGED <<status, config, process, call, runtime, atStart, starts>>

OpensWithCurrent(p, row) == row.key = process[p].keyring.current

(* Open: the process has the key of the row. *)
Opens(p, row) == row.key \in process[p].keyring.keys

(* Reencrypt, first transaction: the active secret is read (of a credential in *)
(* any status), opened and sealed again under the current key.                 *)
RevealForReencrypt(p, c, k) ==
    /\ Edit(p) /\ call[p] = NoCall
    /\ ActiveVersions(c, k) # {}
    /\ LET version == ActiveVersion(c, k)
           row == secret[c][k][version]
       IN /\ Opens(p, row)
          /\ call' = [call EXCEPT ![p] = [pc |-> "sealed", credential |-> c, kind |-> k,
                        expected |-> version, row |-> Seal(p, row.value)]]
    /\ UNCHANGED <<rows, config, process, runtime, atStart, starts>>

AnyVersion(p) == TRUE

ExpectedVersion(p) ==
    ActiveVersion(call[p].credential, call[p].kind) = call[p].expected

RetireNothing(versions, i) == versions

RetireActive(versions, i) == [versions EXCEPT ![i].active = FALSE]

(* Reencrypt, second transaction: ErrConflict unless the version that was read *)
(* is still the active one; otherwise it is retired for the next one.          *)
Reencrypt(p) ==
    /\ call[p] # NoCall
    /\ LET c == call[p].credential
           k == call[p].kind
       IN secret' = IF ExpectedVersion(p)
            THEN [secret EXCEPT ![c][k] =
                    Append(RetireActive(@, ActiveVersion(c, k)), call[p].row)]
            ELSE secret
    /\ call' = [call EXCEPT ![p] = NoCall]
    /\ UNCHANGED <<status, config, process, runtime, atStart, edits, starts>>

-----------------------------------------------------------------------------
(* The life of a process *)

(* A process stops, in order or not: its runtime and its call are gone. *)
Stop(p) ==
    /\ process' = [process EXCEPT ![p] = [@ EXCEPT !.pc = "down", !.todo = {}, !.service = "none"]]
    /\ runtime' = [runtime EXCEPT ![p] = [c \in Credentials |-> Unregistered]]
    /\ call' = [call EXCEPT ![p] = NoCall]

(* Shutdown, or a crash. *)
Shutdown(p) ==
    /\ process[p].pc # "down" /\ Stop(p)
    /\ starts < MaxStarts /\ starts' = starts + 1
    /\ UNCHANGED <<rows, config, atStart, edits>>

activeCredentialIDs == {c \in Credentials : status[c] = "active"}

(* LoadCredential, NewKeyring, and activeCredentialIDs. *)
StartProcess(p) ==
    /\ process[p].pc = "down"
    /\ starts < MaxStarts /\ starts' = starts + 1
    /\ process' = [process EXCEPT ![p] =
         [pc |-> "reconciling", todo |-> activeCredentialIDs, keyring |-> config,
          service |-> "none"]]
    /\ atStart' = [atStart EXCEPT ![p] = Newest]
    /\ UNCHANGED <<rows, config, call, runtime, edits>>

(* loadRuntime: the active version of the kind. *)
loadRuntime(c, k) == ActiveVersion(c, k)

(* RevealAll and RegisterCredential for one id of the list, in one transaction. *)
(* A credential that is inactive by now is skipped; one that cannot be opened   *)
(* or has a source the runtime does not know ends the process.                  *)
RegisterCredential(p, c) ==
    /\ process[p].pc = "reconciling" /\ c \in process[p].todo
    /\ LET kinds == {k \in Kinds : ActiveVersions(c, k) # {}}
           opens == \A k \in kinds : Opens(p, secret[c][k][ActiveVersion(c, k)])
       IN \/ /\ status[c] = "active" /\ opens /\ Supported(c)
             /\ process' = [process EXCEPT ![p].todo = @ \ {c}]
             /\ runtime' = [runtime EXCEPT ![p][c] = [k \in kinds |-> loadRuntime(c, k)]]
             /\ UNCHANGED call
          \/ /\ status[c] # "active"
             /\ process' = [process EXCEPT ![p].todo = @ \ {c}]
             /\ UNCHANGED <<runtime, call>>
          \/ /\ status[c] = "active" /\ ~(opens /\ Supported(c))
             /\ Stop(p)
    /\ UNCHANGED <<rows, config, atStart, edits, starts>>

(* The pass is complete: Adapter.Start runs the embedded service, which gets   *)
(* ready, fails or ends, or hangs.  The manager is new, so that there is       *)
(* nothing stale to remove.                                                    *)
Start(p) ==
    /\ process[p].pc = "reconciling" /\ process[p].todo = {}
    /\ \E outcome \in {"ready", "failed", "hangs"} :
         process' = [process EXCEPT ![p].pc = "waiting", ![p].service = outcome]
    /\ UNCHANGED <<rows, config, call, runtime, atStart, edits, starts>>

(* The hook or Run reports an error, or the context of WaitReady runs out. *)
GivesUp(p) == process[p].service # "ready"

(* WaitReady. *)
WaitReady(p) ==
    /\ process[p].pc = "waiting"
    /\ \/ /\ process[p].service = "ready"
          /\ process' = [process EXCEPT ![p].pc = "up", ![p].service = "none"]
          /\ UNCHANGED <<call, runtime>>
       \/ GivesUp(p) /\ Stop(p)
    /\ UNCHANGED <<rows, config, atStart, edits, starts>>

Rolled == [current |-> config.current + 1, keys |-> config.keys \cup {config.current + 1}]

(* A new current key is configured, old ones stay. *)
RollKey ==
    /\ config.current < MaxKey
    /\ starts < MaxStarts /\ starts' = starts + 1
    /\ config' = Rolled
    /\ UNCHANGED <<rows, process, call, runtime, atStart, edits>>

InUse == {key \in 1..MaxKey :
    \E c \in Credentials, k \in Kinds :
        \E i \in ActiveVersions(c, k) : secret[c][k][i].key = key}

(* Keys that no active secret uses and no running process seals with are       *)
(* taken out of the configuration.                                             *)
RetireKeys ==
    /\ starts < MaxStarts /\ starts' = starts + 1
    /\ config' = [config EXCEPT !.keys = @ \cap
         (InUse \cup {config.current} \cup
            {process[p].keyring.current : p \in {q \in Processes : process[q].pc # "down"}})]
    /\ UNCHANGED <<rows, process, call, runtime, atStart, edits>>

-----------------------------------------------------------------------------
Admin(p) ==
    \/ \E c \in Credentials : Create(p, c) \/ Update(p, c)
    \/ \E c \in Credentials, k \in Kinds : Rotate(p, c, k) \/ RevealForReencrypt(p, c, k)
    \/ Reencrypt(p)

StartUp(p) == Start(p) \/ WaitReady(p) \/ \E c \in Credentials : RegisterCredential(p, c)

CredentialNext ==
    \/ \E p \in Processes : Admin(p) \/ StartUp(p) \/ StartProcess(p) \/ Shutdown(p)
    \/ RollKey \/ RetireKeys

CredentialSpec == CredentialInit /\ [][CredentialNext]_credentialVars

-----------------------------------------------------------------------------
(* Properties *)

CredentialTypeOK ==
    /\ status \in [Credentials -> {"none", "active", "disabled", "revoked"}]
    /\ \A c \in Credentials, k \in Kinds : \A i \in DOMAIN secret[c][k] :
         secret[c][k][i] \in [value : 1..i, key : 1..MaxKey, active : BOOLEAN]
    /\ \A p \in Processes :
         /\ process[p].pc \in {"down", "reconciling", "waiting", "up"}
         /\ process[p].todo \subseteq Credentials
         /\ process[p].keyring.current \in process[p].keyring.keys
         /\ \A c \in Credentials : \A k \in DOMAIN runtime[p][c] :
              runtime[p][c][k] \in DOMAIN secret[c][k]

(* Whatever rotations and re-encryptions interleave, a kind that has secrets   *)
(* has exactly one active one, and it is the newest version: what loadRuntime  *)
(* reads by rotated_at is what rotate numbers by MAX(version_no).              *)
ActiveIsNewest ==
    CredentialTypeOK /\ \A c \in Credentials, k \in Kinds :
        ActiveVersions(c, k) = IF secret[c][k] = <<>> THEN {} ELSE {Len(secret[c][k])}

(* Only Rotate changes the plaintext in force: a re-encryption that read a     *)
(* secret before it was rotated never brings the old value back, in whichever  *)
(* process it runs.                                                            *)
OnlyRotationReplaces ==
    [][\A p \in Processes : call[p] # NoCall /\ call'[p] = NoCall =>
         \A c \in Credentials, k \in Kinds : secret[c][k] # <<>> =>
            Last(secret'[c][k]).value = Last(secret[c][k]).value]_credentialVars

(* What a process has registered is no older than its start: a rotation or a   *)
(* revocation that was committed before is in force, one during the pass may   *)
(* or may not be.                                                              *)
RuntimeSinceStart ==
    \A p \in Processes, c \in Credentials : runtime[p][c] # Unregistered =>
        /\ atStart[p][c].status \notin {"none", "revoked"}
        /\ \A k \in DOMAIN runtime[p][c] : runtime[p][c][k] >= atStart[p][c].version[k]

(* The pass at a start ends the process only for an active credential whose    *)
(* source the runtime does not know: after a key was retired because nothing   *)
(* used it, no rotation or re-encryption under way, and no process that still  *)
(* runs with the old configuration, leaves an active secret that a new process *)
(* cannot open.                                                                *)
StartsWithKeys ==
    \A p \in Processes : process[p].pc = "reconciling" /\ process[p].keyring = config =>
        \A c \in process[p].todo : status[c] = "active" =>
            \A k \in Kinds : \A i \in ActiveVersions(c, k) : Opens(p, secret[c][k][i])

(* A process that starts gets what was committed before its start and can open *)
(* it, while other processes rotate, revoke, re-encrypt and keys are rolled.   *)
StartSafety == RuntimeSinceStart /\ StartsWithKeys

=============================================================================
