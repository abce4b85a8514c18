---------------------------- MODULE AccessProofs ----------------------------
(* Theorems about what gives access: the secrets of upstream credentials, and  *)
(* the accounts, codes and sessions of users.                                  *)
(*                                                                             *)
(* Credential, for every number of credentials, processes, secret kinds and    *)
(* keys: one active secret per kind, no old plaintext comes back, and a        *)
(* process that starts can open what it finds.                                 *)
(*                                                                             *)
(* Session, for any number of accounts, addresses, requests and codes: a code  *)
(* opens one session, a revocation reaches every session, an enabled factor    *)
(* stays, and the limiter bounds the attempts on an account although its table *)
(* is bounded too.                                                             *)
EXTENDS Credential, Session, FiniteSetTheorems, SequenceTheorems, TLAPS

-----------------------------------------------------------------------------
(* Credential: the inductive invariant *)

\* A row of credential_secrets.
SecretRow == [value : Nat, key : 1..MaxKey, active : BOOLEAN]

\* The versions of one kind: the newest is the active one, and none has a
\* plaintext from a later version.
VersionsExact(versions) ==
    \A i \in 1..Len(versions) :
        /\ versions[i].value \in 1..i
        /\ versions[i].active <=> i = Len(versions)

\* The secret in force can be opened with the keys.
OpenedWith(versions, keys) == versions # <<>> => versions[Len(versions)].key \in keys

\* The versions of every kind are exact, and a credential has none before it is
\* created.
SecretsExact ==
    \A c \in Credentials, k \in Kinds :
        /\ VersionsExact(secret[c][k])
        /\ OpenedWith(secret[c][k], config.keys)
        /\ status[c] = "none" => secret[c][k] = <<>>

\* The keys a configuration holds and the one it seals with.
KeyringType == [current : 1..MaxKey, keys : SUBSET (1..MaxKey)]

\* The function RegisterCredential keeps of the versions it loaded.
RuntimeType == UNION {[K -> Nat] : K \in SUBSET Kinds}

\* A re-encryption under way, or none.
CallType ==
    {NoCall} \cup [pc : {"sealed"}, credential : Credentials, kind : Kinds,
                   expected : Nat, row : SecretRow]

\* The types of the tables and of the processes.
InvType ==
    /\ status \in [Credentials -> {"none", "active", "disabled", "revoked"}]
    /\ secret \in [Credentials -> [Kinds -> Seq(SecretRow)]]
    /\ config \in KeyringType /\ config.current \in config.keys
    /\ process \in [Processes ->
         [pc : {"down", "reconciling", "waiting", "up"}, todo : SUBSET Credentials,
          keyring : KeyringType, service : {"none", "ready", "failed", "hangs"}]]
    /\ call \in [Processes -> CallType]
    /\ runtime \in [Processes -> [Credentials -> RuntimeType]]
    /\ atStart \in [Processes -> [Credentials ->
         [status : {"none", "active", "disabled", "revoked"}, version : [Kinds -> Nat]]]]

\* A process that runs seals with a key of the configuration, and is to register
\* what was active when it started.
ProcessExact(p) ==
    /\ process[p].keyring.current \in process[p].keyring.keys
    /\ process[p].pc # "down" => process[p].keyring.current \in config.keys
    /\ \A c \in process[p].todo : atStart[p][c].status = "active"

\* A re-encryption under way has sealed the plaintext of the version it read.
CallExact(p) ==
    call[p] # NoCall =>
        /\ process[p].pc = "up"
        /\ call[p].row.key = process[p].keyring.current
        /\ call[p].row.active
        /\ call[p].expected \in 1..Len(secret[call[p].credential][call[p].kind])
        /\ call[p].row.value =
              secret[call[p].credential][call[p].kind][call[p].expected].value

\* What a process has registered is no older than its start.
RuntimeExact(p, c) ==
    /\ process[p].pc = "down" => runtime[p][c] = Unregistered
    /\ runtime[p][c] # Unregistered => atStart[p][c].status = "active"
    /\ \A k \in DOMAIN runtime[p][c] :
         /\ runtime[p][c][k] \in 1..Len(secret[c][k])
         /\ runtime[p][c][k] >= atStart[p][c].version[k]

\* What a process found when it started is no newer than what is stored.
StartExact(p, c) == \A k \in Kinds : atStart[p][c].version[k] <= Len(secret[c][k])

\* The inductive invariant.
CredentialInv ==
    /\ InvType
    /\ SecretsExact
    /\ \A p \in Processes : ProcessExact(p) /\ CallExact(p)
    /\ \A p \in Processes, c \in Credentials : RuntimeExact(p, c) /\ StartExact(p, c)

-----------------------------------------------------------------------------
(* Credential: versions *)

\* The active version is the last one.
LEMMA ActiveIsLast ==
    ASSUME CredentialInv, NEW c \in Credentials, NEW k \in Kinds
    PROVE  /\ secret[c][k] = <<>> => ActiveVersions(c, k) = {}
           /\ secret[c][k] # <<>> =>
                /\ ActiveVersions(c, k) = {Len(secret[c][k])}
                /\ ActiveVersion(c, k) = Len(secret[c][k])
<1>1. /\ secret[c][k] \in Seq(SecretRow)
      /\ VersionsExact(secret[c][k])
  BY DEF CredentialInv, InvType, SecretsExact
<1>2. DOMAIN secret[c][k] = 1..Len(secret[c][k])
  BY <1>1
<1>3. secret[c][k] = <<>> => ActiveVersions(c, k) = {}
  BY DEF ActiveVersions
<1>4. ASSUME secret[c][k] # <<>>
      PROVE  ActiveVersions(c, k) = {Len(secret[c][k])}
  <2>1. Len(secret[c][k]) \in 1..Len(secret[c][k])
    BY <1>1, <1>4
  <2>2. QED
    BY <1>1, <1>2, <2>1 DEF ActiveVersions, VersionsExact
<1>5. QED
  BY <1>3, <1>4 DEF ActiveVersion

\* A later state of the versions of one kind: no plaintext has changed.
Grows(old, new) ==
    /\ new \in Seq(SecretRow)
    /\ VersionsExact(new)
    /\ Len(old) <= Len(new)
    /\ \A i \in 1..Len(old) : new[i].value = old[i].value

\* The versions with the active one retired.
Retired(old, new) ==
    /\ new \in Seq(SecretRow)
    /\ Len(new) = Len(old)
    /\ \A i \in 1..Len(old) : new[i].value = old[i].value /\ ~new[i].active

\* A row that may follow the versions.
Follows(row, old) == row \in SecretRow /\ row.active /\ row.value \in 1..(Len(old) + 1)

\* new is old and one more version.
GrowsBy(old, row, new) ==
    /\ Grows(old, new)
    /\ Len(new) = Len(old) + 1
    /\ new[Len(new)] = row

\* A new version after the active one is retired.
LEMMA NextVersion ==
    ASSUME NEW old \in Seq(SecretRow), VersionsExact(old), NEW retired, Retired(old, retired),
           NEW row, Follows(row, old), NEW new, new = Append(retired, row)
    PROVE  GrowsBy(old, row, new)
<1>1. /\ new \in Seq(SecretRow) /\ Len(new) = Len(old) + 1 /\ Len(old) \in Nat
      /\ new[Len(old) + 1] = row
      /\ \A i \in 1..Len(old) : new[i] = retired[i]
  BY DEF Retired, Follows
<1>2. ASSUME NEW i \in 1..Len(new)
      PROVE  new[i].value \in 1..i /\ (new[i].active <=> i = Len(new))
  <2>1. CASE i = Len(new)
    BY <1>1, <2>1 DEF Follows
  <2>2. CASE i # Len(new)
    BY <1>1, <2>2 DEF Retired, VersionsExact
  <2>3. QED
    BY <2>1, <2>2
<1>3. VersionsExact(new)
  BY <1>2 DEF VersionsExact
<1>4. QED
  BY <1>1, <1>3 DEF Grows, Retired, GrowsBy

\* A row that is retired.
LEMMA RetiredRow ==
    ASSUME NEW row \in SecretRow, NEW new, new = [row EXCEPT !.active = FALSE]
    PROVE  new \in SecretRow /\ new.value = row.value /\ ~new.active
BY DEF SecretRow

\* Rotate retires all versions of a kind.
LEMMA RetiredAll ==
    ASSUME NEW old \in Seq(SecretRow),
           NEW new, new = [i \in DOMAIN old |-> [old[i] EXCEPT !.active = FALSE]]
    PROVE  Retired(old, new)
<1>1. Len(old) \in Nat /\ DOMAIN old = 1..Len(old)
  OBVIOUS
<1>2. ASSUME NEW i \in 1..Len(old)
      PROVE  /\ new[i] \in SecretRow
             /\ new[i].value = old[i].value /\ ~new[i].active
  <2>1. old[i] \in SecretRow /\ new[i] = [old[i] EXCEPT !.active = FALSE]
    BY <1>1
  <2>2. QED
    BY <2>1, RetiredRow
<1>3. DOMAIN new = 1..Len(old)
  BY <1>1
<1>4. new \in [1..Len(old) -> SecretRow]
  BY <1>2, <1>3
<1>5. new \in Seq(SecretRow) /\ Len(new) = Len(old)
  BY <1>1, <1>4
<1>6. QED
  BY <1>2, <1>5 DEF Retired

\* Reencrypt retires the active version, which is the last: the others already
\* are.
LEMMA RetiredLast ==
    ASSUME NEW old \in Seq(SecretRow), VersionsExact(old), old # <<>>,
           NEW new, new = RetireActive(old, Len(old))
    PROVE  Retired(old, new)
<1>1. Len(old) \in Nat /\ Len(old) \in 1..Len(old) /\ DOMAIN old = 1..Len(old)
  OBVIOUS
<1>2. ASSUME NEW i \in 1..Len(old)
      PROVE  /\ new[i] \in SecretRow
             /\ new[i].value = old[i].value /\ ~new[i].active
  <2>1. CASE i = Len(old)
    <3>1. old[i] \in SecretRow /\ new[i] = [old[i] EXCEPT !.active = FALSE]
      BY <1>1, <2>1 DEF RetireActive
    <3>2. QED
      BY <3>1, RetiredRow
  <2>2. CASE i # Len(old)
    <3>1. new[i] = old[i] /\ old[i] \in SecretRow
      BY <1>1, <2>2 DEF RetireActive
    <3>2. ~old[i].active
      BY <2>2 DEF VersionsExact
    <3>3. QED
      BY <3>1, <3>2
  <2>3. QED
    BY <2>1, <2>2
<1>3. DOMAIN new = 1..Len(old)
  BY <1>1 DEF RetireActive
<1>4. new \in [1..Len(old) -> SecretRow]
  BY <1>2, <1>3 DEF RetireActive
<1>5. new \in Seq(SecretRow) /\ Len(new) = Len(old)
  BY <1>1, <1>4
<1>6. QED
  BY <1>2, <1>5 DEF Retired

-----------------------------------------------------------------------------
(* Credential: what every step keeps *)

\* Versions are only added, and the ones in force can be opened with the
\* configured keys.
SecretsGrow ==
    /\ secret' \in [Credentials -> [Kinds -> Seq(SecretRow)]]
    /\ \A c \in Credentials, k \in Kinds :
         /\ Grows(secret[c][k], secret'[c][k])
         /\ OpenedWith(secret'[c][k], config'.keys)
         /\ status'[c] = "none" => secret'[c][k] = <<>>

\* Versions that stay as they are.
LEMMA SecretsStay ==
    ASSUME CredentialInv, secret' = secret,
           \A c \in Credentials : status'[c] = "none" => status[c] = "none",
           \A c \in Credentials, k \in Kinds : OpenedWith(secret[c][k], config'.keys)
    PROVE  SecretsGrow
<1>1. secret \in [Credentials -> [Kinds -> Seq(SecretRow)]]
  BY DEF CredentialInv, InvType
<1>2. ASSUME NEW c \in Credentials, NEW k \in Kinds
      PROVE  Grows(secret[c][k], secret[c][k])
  <2>1. secret[c][k] \in Seq(SecretRow) /\ VersionsExact(secret[c][k])
    BY <1>1 DEF CredentialInv, SecretsExact
  <2>2. QED
    BY <2>1 DEF Grows
<1>3. QED
  BY <1>1, <1>2 DEF SecretsGrow, CredentialInv, SecretsExact

\* The same when the keys stay too.
LEMMA RowsStay ==
    ASSUME CredentialInv, secret' = secret, config' = config,
           \A c \in Credentials : status'[c] = "none" => status[c] = "none"
    PROVE  SecretsGrow
BY SecretsStay DEF CredentialInv, SecretsExact

\* One kind of one credential changes.
LEMMA OneKindGrows ==
    ASSUME CredentialInv, config' = config, status' = status, NEW c \in Credentials,
           status[c] # "none", NEW k \in Kinds,
           NEW new, secret' = [secret EXCEPT ![c][k] = new],
           Grows(secret[c][k], new), OpenedWith(new, config.keys)
    PROVE  SecretsGrow
<1>1. secret \in [Credentials -> [Kinds -> Seq(SecretRow)]]
  BY DEF CredentialInv, InvType
<1>2. new \in Seq(SecretRow)
  BY DEF Grows
<1>3. /\ secret' \in [Credentials -> [Kinds -> Seq(SecretRow)]]
      /\ secret'[c][k] = new
      /\ \A d \in Credentials, j \in Kinds :
           d # c \/ j # k => secret'[d][j] = secret[d][j]
  BY <1>1, <1>2
<1>4. ASSUME NEW d \in Credentials, NEW j \in Kinds
      PROVE  /\ Grows(secret[d][j], secret'[d][j])
             /\ OpenedWith(secret'[d][j], config'.keys)
             /\ status'[d] = "none" => secret'[d][j] = <<>>
  <2>1. CASE d = c /\ j = k
    BY <1>3, <2>1
  <2>2. CASE d # c \/ j # k
    <3>1. secret'[d][j] = secret[d][j]
      BY <1>3, <2>2
    <3>2. /\ secret[d][j] \in Seq(SecretRow) /\ VersionsExact(secret[d][j])
          /\ OpenedWith(secret[d][j], config.keys)
          /\ status[d] = "none" => secret[d][j] = <<>>
      BY <1>1 DEF CredentialInv, SecretsExact
    <3>3. QED
      BY <3>1, <3>2 DEF Grows
  <2>3. QED
    BY <2>1, <2>2
<1>5. QED
  BY <1>3, <1>4 DEF SecretsGrow

\* A process that stays as it is remains right, when its key stays configured.
LEMMA ProcessKept ==
    ASSUME CredentialInv, NEW p \in Processes, process'[p] = process[p],
           atStart'[p] = atStart[p],
           process[p].pc # "down" => process[p].keyring.current \in config'.keys
    PROVE  ProcessExact(p)'
BY DEF CredentialInv, ProcessExact

\* The version a re-encryption read keeps its plaintext.
LEMMA CallKept ==
    ASSUME CredentialInv, SecretsGrow, NEW p \in Processes, call'[p] = call[p],
           process'[p] = process[p]
    PROVE  CallExact(p)'
<1>1. CASE call[p] = NoCall
  BY <1>1 DEF CallExact
<1>2. CASE call[p] # NoCall
  <2>1. PICK c \in Credentials, k \in Kinds :
           c = call[p].credential /\ k = call[p].kind /\ call[p].expected \in Nat
    BY <1>2 DEF CredentialInv, InvType, CallType
  <2>2. /\ process[p].pc = "up"
        /\ call[p].row.key = process[p].keyring.current
        /\ call[p].row.active
        /\ call[p].expected \in 1..Len(secret[c][k])
        /\ call[p].row.value = secret[c][k][call[p].expected].value
    BY <1>2, <2>1 DEF CredentialInv, CallExact
  <2>3. PICK old, new, e : /\ old = secret[c][k] /\ new = secret'[c][k]
                           /\ e = call[p].expected /\ e \in Nat
                           /\ old \in Seq(SecretRow)
    BY <2>1 DEF CredentialInv, InvType
  <2>4. Grows(old, new)
    BY <2>3 DEF SecretsGrow
  <2>5. e \in 1..Len(new) /\ new[e].value = old[e].value
    <3>1. e \in 1..Len(old)
      BY <2>2, <2>3
    <3>2. Len(old) \in Nat /\ Len(new) \in Nat /\ Len(old) <= Len(new)
      BY <2>3, <2>4 DEF Grows
    <3>3. QED
      BY <2>4, <3>1, <3>2 DEF Grows
  <2>6. QED
    BY <1>2, <2>1, <2>2, <2>3, <2>5 DEF CallExact
<1>3. QED
  BY <1>1, <1>2

\* What a process registered is still there.
LEMMA RuntimeKept ==
    ASSUME CredentialInv, SecretsGrow, NEW p \in Processes, NEW c \in Credentials,
           runtime'[p][c] = runtime[p][c], atStart'[p] = atStart[p],
           process'[p].pc = "down" => process[p].pc = "down"
    PROVE  RuntimeExact(p, c)'
<1>1. PICK f \in RuntimeType : f = runtime[p][c]
  BY DEF CredentialInv, InvType
<1>2. DOMAIN f \subseteq Kinds /\ \A k \in DOMAIN f : f[k] \in Nat
  BY DEF RuntimeType
<1>3. /\ process[p].pc = "down" => f = Unregistered
      /\ f # Unregistered => atStart[p][c].status = "active"
      /\ \A k \in DOMAIN f : /\ f[k] \in 1..Len(secret[c][k])
                             /\ f[k] >= atStart[p][c].version[k]
  BY <1>1 DEF CredentialInv, RuntimeExact
<1>4. ASSUME NEW k \in DOMAIN f PROVE f[k] \in 1..Len(secret'[c][k])
  <2>1. k \in Kinds /\ f[k] \in 1..Len(secret[c][k])
    BY <1>2, <1>3
  <2>2. PICK old, new : old = secret[c][k] /\ new = secret'[c][k] /\ old \in Seq(SecretRow)
    BY <2>1 DEF CredentialInv, InvType
  <2>3. Grows(old, new)
    BY <2>1, <2>2 DEF SecretsGrow
  <2>4. QED
    BY <1>2, <2>1, <2>2, <2>3 DEF Grows
<1>5. QED
  BY <1>1, <1>3, <1>4 DEF RuntimeExact

\* Versions do not get fewer than they were when a process started.
LEMMA StartKept ==
    ASSUME CredentialInv, SecretsGrow, NEW p \in Processes, NEW c \in Credentials,
           atStart'[p] = atStart[p]
    PROVE  StartExact(p, c)'
<1>1. ASSUME NEW k \in Kinds PROVE atStart'[p][c].version[k] <= Len(secret'[c][k])
  <2>1. PICK old, new : old = secret[c][k] /\ new = secret'[c][k] /\ old \in Seq(SecretRow)
    BY DEF CredentialInv, InvType
  <2>2. Len(old) <= Len(new) /\ Len(new) \in Nat /\ Len(old) \in Nat
    BY <2>1 DEF SecretsGrow, Grows
  <2>3. atStart[p][c].version[k] <= Len(old)
    BY <2>1 DEF CredentialInv, StartExact
  <2>4. atStart[p][c].version[k] \in Nat
    BY DEF CredentialInv, InvType
  <2>5. QED
    BY <2>1, <2>2, <2>3, <2>4
<1>2. QED
  BY <1>1 DEF StartExact

\* A step in which only process p, its call and its runtime may change: the
\* invariant holds after it if it does for p.
LEMMA OthersKept ==
    ASSUME CredentialInv, InvType', SecretsGrow, NEW p \in Processes,
           \A q \in Processes \ {p} :
              /\ process'[q] = process[q] /\ call'[q] = call[q]
              /\ runtime'[q] = runtime[q] /\ atStart'[q] = atStart[q],
           config' = config, ProcessExact(p)', CallExact(p)',
           \A c \in Credentials : RuntimeExact(p, c)' /\ StartExact(p, c)'
    PROVE  CredentialInv'
<1>1. ASSUME NEW q \in Processes PROVE ProcessExact(q)' /\ CallExact(q)'
  <2>1. CASE q = p
    BY <2>1
  <2>2. CASE q # p
    <3>1. process[q].pc # "down" => process[q].keyring.current \in config'.keys
      BY DEF CredentialInv, ProcessExact
    <3>2. QED
      BY <2>2, <3>1, ProcessKept, CallKept
  <2>3. QED
    BY <2>1, <2>2
<1>2. ASSUME NEW q \in Processes, NEW c \in Credentials
      PROVE  RuntimeExact(q, c)' /\ StartExact(q, c)'
  <2>1. CASE q = p
    BY <2>1
  <2>2. CASE q # p
    BY <2>2, RuntimeKept, StartKept
  <2>3. QED
    BY <2>1, <2>2
<1>3. SecretsExact'
  BY DEF SecretsGrow, SecretsExact, Grows
<1>4. QED
  BY <1>1, <1>2, <1>3 DEF CredentialInv

\* A step that leaves every process, its call and its runtime alone, and
\* configures no key away that is in use.
LEMMA ProcessesKept ==
    ASSUME CredentialInv, InvType', SecretsGrow,
           UNCHANGED <<process, call, runtime, atStart>>,
           \A p \in Processes :
              process[p].pc # "down" => process[p].keyring.current \in config'.keys
    PROVE  CredentialInv'
<1>1. \A p \in Processes : ProcessExact(p)' /\ CallExact(p)'
  BY ProcessKept, CallKept
<1>2. \A p \in Processes, c \in Credentials : RuntimeExact(p, c)' /\ StartExact(p, c)'
  BY RuntimeKept, StartKept
<1>3. SecretsExact'
  BY DEF SecretsGrow, SecretsExact, Grows
<1>4. QED
  BY <1>1, <1>2, <1>3 DEF CredentialInv

-----------------------------------------------------------------------------
(* Credential: the steps *)

\* No credential, one process up.
LEMMA CredentialInvInit == CredentialInit => CredentialInv
<1> SUFFICES ASSUME CredentialInit PROVE CredentialInv
  OBVIOUS
<1>1. PICK up \in Processes : process = [p \in Processes |->
         [pc |-> IF p = up THEN "up" ELSE "down", todo |-> {}, keyring |-> config,
          service |-> "none"]]
  BY DEF CredentialInit
<1>2. /\ \A c \in Credentials, k \in Kinds : secret[c][k] = <<>>
      /\ secret \in [Credentials -> [Kinds -> Seq(SecretRow)]]
      /\ status \in [Credentials -> {"none", "active", "disabled", "revoked"}]
      /\ call \in [Processes -> CallType]
      /\ \A p \in Processes : call[p] = NoCall
  BY DEF CredentialInit, CallType
<1>3. config \in KeyringType /\ config.current = 1 /\ config.current \in config.keys
  BY CredentialAssumption DEF CredentialInit, KeyringType
<1>4. /\ process \in [Processes ->
           [pc : {"down", "reconciling", "waiting", "up"}, todo : SUBSET Credentials,
            keyring : KeyringType, service : {"none", "ready", "failed", "hangs"}]]
      /\ \A p \in Processes : process[p].todo = {} /\ process[p].keyring = config
  BY <1>1, <1>3
<1>5. /\ Unregistered \in RuntimeType /\ DOMAIN Unregistered = {}
      /\ runtime \in [Processes -> [Credentials -> RuntimeType]]
      /\ \A p \in Processes, c \in Credentials : runtime[p][c] = Unregistered
  <2>1. Unregistered \in [{} -> Nat] /\ {} \in SUBSET Kinds
    BY DEF Unregistered
  <2>2. Unregistered \in RuntimeType
    BY <2>1 DEF RuntimeType
  <2>3. QED
    BY <2>1, <2>2 DEF CredentialInit
<1>6. /\ atStart \in [Processes -> [Credentials ->
           [status : {"none", "active", "disabled", "revoked"}, version : [Kinds -> Nat]]]]
      /\ \A p \in Processes, c \in Credentials, k \in Kinds :
           atStart[p][c].version[k] = 0
  BY <1>2 DEF CredentialInit, Newest
<1>7. InvType
  BY <1>2, <1>3, <1>4, <1>5, <1>6 DEF InvType
<1>8. SecretsExact
  BY <1>2 DEF SecretsExact, VersionsExact, OpenedWith
<1>9. \A p \in Processes : ProcessExact(p) /\ CallExact(p)
  BY <1>2, <1>3, <1>4 DEF ProcessExact, CallExact
<1>10. \A p \in Processes, c \in Credentials : RuntimeExact(p, c) /\ StartExact(p, c)
  BY <1>2, <1>5, <1>6 DEF RuntimeExact, StartExact
<1>11. QED
  BY <1>7, <1>8, <1>9, <1>10 DEF CredentialInv

\* A process that is up seals with a configured key.
LEMMA Sealed ==
    ASSUME CredentialInv, NEW p \in Processes, process[p].pc = "up", NEW value \in Nat
    PROVE  /\ Seal(p, value) \in SecretRow
           /\ Seal(p, value).key = process[p].keyring.current
           /\ Seal(p, value).key \in config.keys
           /\ Seal(p, value).value = value /\ Seal(p, value).active
<1>1. process[p].keyring.current \in 1..MaxKey
  BY DEF CredentialInv, InvType, KeyringType
<1>2. process[p].keyring.current \in config.keys
  BY DEF CredentialInv, ProcessExact
<1>3. QED
  BY <1>1, <1>2 DEF Seal, SecretRow

\* An administrator changes the status or the secrets of a credential.
LEMMA RowsStep ==
    ASSUME CredentialInv, SecretsGrow,
           status' \in [Credentials -> {"none", "active", "disabled", "revoked"}],
           UNCHANGED <<config, process, call, runtime, atStart>>
    PROVE  CredentialInv'
<1>1. InvType'
  BY DEF CredentialInv, InvType, SecretsGrow
<1>2. \A p \in Processes :
         process[p].pc # "down" => process[p].keyring.current \in config'.keys
  BY DEF CredentialInv, ProcessExact
<1>3. QED
  BY <1>1, <1>2, ProcessesKept

\* Create seals the first version of each kind.
LEMMA CreateStep ==
    ASSUME CredentialInv, NEW p \in Processes, NEW c \in Credentials, Create(p, c)
    PROVE  CredentialInv'
<1>1. PICK enabled \in BOOLEAN, kinds \in SUBSET KindsOf(c) :
         /\ status' = [status EXCEPT ![c] = IF enabled THEN "active" ELSE "disabled"]
         /\ secret' = [secret EXCEPT ![c] =
              [k \in Kinds |-> IF k \in kinds THEN <<Seal(p, 1)>> ELSE <<>>]]
  BY DEF Create
<1>2. process[p].pc = "up" /\ UNCHANGED <<config, process, call, runtime, atStart>>
  BY DEF Create, Edit
<1>3. PICK row \in SecretRow : /\ row = Seal(p, 1) /\ row.key \in config.keys
                               /\ row.value = 1 /\ row.active
  BY <1>2, Sealed
<1>4. /\ secret' \in [Credentials -> [Kinds -> Seq(SecretRow)]]
      /\ \A k \in Kinds : secret'[c][k] = IF k \in kinds THEN <<row>> ELSE <<>>
      /\ \A d \in Credentials \ {c} : secret'[d] = secret[d]
  BY <1>1, <1>3 DEF CredentialInv, InvType
<1>5. VersionsExact(<<row>>) /\ VersionsExact(<<>>) /\ OpenedWith(<<row>>, config.keys)
      /\ OpenedWith(<<>>, config.keys)
  BY <1>3 DEF VersionsExact, OpenedWith
<1>6. \A k \in Kinds : secret[c][k] = <<>>
  BY DEF Create, CredentialInv, SecretsExact
<1>7. /\ status' \in [Credentials -> {"none", "active", "disabled", "revoked"}]
      /\ status'[c] # "none"
  BY <1>1 DEF CredentialInv, InvType
<1>8. ASSUME NEW d \in Credentials, NEW k \in Kinds
      PROVE  /\ Grows(secret[d][k], secret'[d][k])
             /\ OpenedWith(secret'[d][k], config'.keys)
             /\ status'[d] = "none" => secret'[d][k] = <<>>
  <2>1. CASE d = c
    BY <1>2, <1>4, <1>5, <1>6, <1>7, <2>1 DEF Grows
  <2>2. CASE d # c
    <3>1. secret'[d][k] = secret[d][k]
      BY <1>4, <2>2
    <3>2. /\ secret[d][k] \in Seq(SecretRow) /\ VersionsExact(secret[d][k])
          /\ OpenedWith(secret[d][k], config.keys)
          /\ status[d] = "none" => secret[d][k] = <<>>
      BY DEF CredentialInv, InvType, SecretsExact
    <3>3. status'[d] = status[d]
      BY <1>1, <2>2 DEF CredentialInv, InvType
    <3>4. QED
      BY <1>2, <3>1, <3>2, <3>3 DEF Grows
  <2>3. QED
    BY <2>1, <2>2
<1>9. SecretsGrow
  BY <1>4, <1>8 DEF SecretsGrow
<1>10. QED
  BY <1>2, <1>9, <1>7, RowsStep

\* Update changes a status, never back to none.
LEMMA UpdateStep ==
    ASSUME CredentialInv, NEW p \in Processes, NEW c \in Credentials, Update(p, c)
    PROVE  CredentialInv'
<1>1. UNCHANGED <<config, process, call, runtime, atStart>> /\ secret' = secret
  BY DEF Update
<1>2. /\ status' \in [Credentials -> {"none", "active", "disabled", "revoked"}]
      /\ \A d \in Credentials : status'[d] = "none" => status[d] = "none"
  BY DEF Update, CredentialInv, InvType
<1>3. SecretsGrow
  BY <1>1, <1>2, RowsStay
<1>4. QED
  BY <1>1, <1>2, <1>3, RowsStep

\* Rotate appends the new plaintext, sealed with a configured key.
LEMMA RotateStep ==
    ASSUME CredentialInv, NEW p \in Processes, NEW c \in Credentials, NEW k \in Kinds,
           Rotate(p, c, k)
    PROVE  CredentialInv'
<1>1. /\ process[p].pc = "up" /\ UNCHANGED <<config, process, call, runtime, atStart>>
      /\ status' = status /\ status[c] # "none" /\ config' = config
  BY DEF Rotate, Edit
<1>2. PICK old \in Seq(SecretRow) : old = secret[c][k] /\ VersionsExact(old)
  BY DEF CredentialInv, InvType, SecretsExact
<1>3. PICK row \in SecretRow : /\ row = Seal(p, Len(old) + 1) /\ row.key \in config.keys
                               /\ row.value = Len(old) + 1 /\ row.active
  BY <1>1, Sealed
<1>4. PICK retired : retired = [i \in DOMAIN old |-> [old[i] EXCEPT !.active = FALSE]]
  OBVIOUS
<1>5. PICK new : new = Append(retired, row)
  OBVIOUS
<1>6. Retired(old, retired)
  BY <1>4, RetiredAll
<1>7. GrowsBy(old, row, new)
  <2>1. Follows(row, old)
    BY <1>3 DEF Follows
  <2>2. QED
    BY <1>2, <1>5, <1>6, <2>1, NextVersion
<1>8. OpenedWith(new, config.keys)
  BY <1>3, <1>7 DEF OpenedWith, GrowsBy
<1>9. secret' = [secret EXCEPT ![c][k] = new]
  BY <1>2, <1>3, <1>4, <1>5 DEF Rotate, Rotated
<1>10. SecretsGrow
  BY <1>1, <1>2, <1>7, <1>8, <1>9, OneKindGrows DEF GrowsBy
<1>11. QED
  BY <1>1, <1>10, RowsStep DEF CredentialInv, InvType

\* The first transaction of Reencrypt reads the active version.
LEMMA RevealStep ==
    ASSUME CredentialInv, NEW p \in Processes, NEW c \in Credentials, NEW k \in Kinds,
           RevealForReencrypt(p, c, k)
    PROVE  CredentialInv'
<1>1. /\ process[p].pc = "up" /\ UNCHANGED <<status, secret, config, process, runtime, atStart>>
  BY DEF RevealForReencrypt, Edit, rows
<1>2. PICK old \in Seq(SecretRow) : old = secret[c][k] /\ VersionsExact(old)
  BY DEF CredentialInv, InvType, SecretsExact
<1>3. old # <<>>
  BY <1>2, ActiveIsLast DEF RevealForReencrypt
<1>4. PICK n \in Nat : n = Len(old) /\ n \in 1..n /\ ActiveVersion(c, k) = n
  BY <1>2, <1>3, ActiveIsLast
<1>5. old[n].value \in 1..n
  BY <1>2, <1>4 DEF VersionsExact
<1>6. PICK row \in SecretRow :
         /\ row = Seal(p, old[n].value) /\ row.key = process[p].keyring.current
         /\ row.value = old[n].value /\ row.active
  BY <1>1, <1>5, Sealed
<1>7. PICK new : new = [pc |-> "sealed", credential |-> c, kind |-> k, expected |-> n,
                        row |-> row]
  OBVIOUS
<1>8. new \in CallType /\ new.credential = c /\ new.kind = k /\ new.expected = n
      /\ new.row = row
  BY <1>7 DEF CallType
<1>9. call' = [call EXCEPT ![p] = new]
  BY <1>2, <1>4, <1>6, <1>7 DEF RevealForReencrypt
<1>10. /\ call' \in [Processes -> CallType] /\ call'[p] = new
       /\ \A q \in Processes \ {p} : call'[q] = call[q]
  BY <1>8, <1>9 DEF CredentialInv, InvType
<1>11. InvType'
  BY <1>1, <1>10 DEF CredentialInv, InvType
<1>12. SecretsGrow
  BY <1>1, RowsStay
<1>13. CallExact(p)'
  BY <1>1, <1>2, <1>4, <1>6, <1>8, <1>10 DEF CallExact
<1>14. ProcessExact(p)' /\ \A d \in Credentials : RuntimeExact(p, d)' /\ StartExact(p, d)'
  <2>1. process[p].keyring.current \in config'.keys
    BY <1>1 DEF CredentialInv, ProcessExact
  <2>2. QED
    BY <1>1, <1>12, <2>1, ProcessKept, RuntimeKept, StartKept
<1>15. QED
  BY <1>1, <1>10, <1>11, <1>12, <1>13, <1>14, OthersKept

\* What the second transaction of Reencrypt does to the version it read: nothing
\* unless that one is still the active one, whose plaintext it then keeps.
LEMMA Reencrypted ==
    ASSUME CredentialInv, NEW p \in Processes, Reencrypt(p)
    PROVE  /\ SecretsGrow
           /\ \A c \in Credentials, k \in Kinds : secret[c][k] # <<>> =>
                /\ secret'[c][k] \in Seq(SecretRow) /\ secret'[c][k] # <<>>
                /\ secret'[c][k][Len(secret'[c][k])].value =
                     secret[c][k][Len(secret[c][k])].value
<1>1. call[p] # NoCall /\ status' = status /\ config' = config
  BY DEF Reencrypt
<1>2. PICK c \in Credentials, k \in Kinds, row \in SecretRow, e \in Nat :
         /\ c = call[p].credential /\ k = call[p].kind /\ row = call[p].row
         /\ e = call[p].expected
  BY <1>1 DEF CredentialInv, InvType, CallType
<1>3. PICK old \in Seq(SecretRow) : old = secret[c][k] /\ VersionsExact(old)
  BY DEF CredentialInv, InvType, SecretsExact
<1>4. /\ process[p].pc = "up" /\ row.key = process[p].keyring.current
      /\ row.active /\ e \in 1..Len(old) /\ row.value = old[e].value
  BY <1>1, <1>2, <1>3 DEF CredentialInv, CallExact
<1>5. old # <<>> /\ status[c] # "none" /\ row.key \in config.keys
  <2>1. old # <<>>
    BY <1>4
  <2>2. status[c] # "none"
    BY <1>3, <2>1 DEF CredentialInv, SecretsExact
  <2>3. QED
    BY <1>4, <2>1, <2>2 DEF CredentialInv, ProcessExact
<1>6. ActiveVersion(c, k) = Len(old)
  BY <1>3, <1>5, ActiveIsLast
<1>7. CASE ExpectedVersion(p)
  <2>1. e = Len(old)
    BY <1>2, <1>6, <1>7 DEF ExpectedVersion
  <2>2. PICK retired : retired = RetireActive(old, Len(old))
    OBVIOUS
  <2>3. Retired(old, retired)
    BY <1>3, <1>5, <2>2, RetiredLast
  <2>4. Follows(row, old)
    <3>1. row.value \in 1..e /\ e \in 1..Len(old) /\ Len(old) \in Nat
      BY <1>3, <1>4 DEF VersionsExact
    <3>2. QED
      BY <1>4, <3>1 DEF Follows
  <2>5. PICK new : new = Append(retired, row)
    OBVIOUS
  <2>6. GrowsBy(old, row, new)
    BY <1>3, <2>3, <2>4, <2>5, NextVersion
  <2>7. OpenedWith(new, config.keys)
    BY <1>5, <2>6 DEF OpenedWith, GrowsBy
  <2>8. secret' = [secret EXCEPT ![c][k] = new]
    BY <1>2, <1>3, <1>6, <1>7, <2>2, <2>5 DEF Reencrypt
  <2>9. SecretsGrow
    BY <1>1, <1>3, <1>5, <2>6, <2>7, <2>8, OneKindGrows DEF GrowsBy
  <2>10. /\ secret'[c][k] = new
         /\ \A d \in Credentials, j \in Kinds :
              d # c \/ j # k => secret'[d][j] = secret[d][j]
    BY <2>8 DEF CredentialInv, InvType
  <2>11. new \in Seq(SecretRow) /\ new # <<>> /\ new[Len(new)].value = old[Len(old)].value
    BY <1>4, <2>1, <2>6 DEF Grows, GrowsBy
  <2>12. ASSUME NEW d \in Credentials, NEW j \in Kinds, secret[d][j] # <<>>
         PROVE  /\ secret'[d][j] \in Seq(SecretRow) /\ secret'[d][j] # <<>>
                /\ secret'[d][j][Len(secret'[d][j])].value =
                     secret[d][j][Len(secret[d][j])].value
    <3>1. CASE d = c /\ j = k
      BY <1>3, <2>10, <2>11, <3>1
    <3>2. CASE d # c \/ j # k
      BY <2>10, <2>12, <3>2 DEF CredentialInv, InvType
    <3>3. QED
      BY <3>1, <3>2
  <2>13. QED
    BY <2>9, <2>12
<1>8. CASE ~ExpectedVersion(p)
  <2>1. secret' = secret
    BY <1>8 DEF Reencrypt
  <2>2. SecretsGrow
    BY <1>1, <2>1, RowsStay
  <2>3. QED
    BY <2>1, <2>2 DEF CredentialInv, InvType
<1>9. QED
  BY <1>7, <1>8

\* The re-encryption ends.
LEMMA ReencryptStep ==
    ASSUME CredentialInv, NEW p \in Processes, Reencrypt(p)
    PROVE  CredentialInv'
<1>1. SecretsGrow
  BY Reencrypted
<1>2. UNCHANGED <<status, config, process, runtime, atStart>> /\ config' = config
  BY DEF Reencrypt
<1>3. /\ call' \in [Processes -> CallType] /\ call'[p] = NoCall
      /\ \A q \in Processes \ {p} : call'[q] = call[q]
  BY DEF Reencrypt, CredentialInv, InvType, CallType
<1>4. InvType'
  BY <1>1, <1>2, <1>3 DEF CredentialInv, InvType, SecretsGrow
<1>5. CallExact(p)'
  BY <1>3 DEF CallExact
<1>6. ProcessExact(p)' /\ \A d \in Credentials : RuntimeExact(p, d)' /\ StartExact(p, d)'
  <2>1. process[p].pc # "down" => process[p].keyring.current \in config'.keys
    BY <1>2 DEF CredentialInv, ProcessExact
  <2>2. QED
    BY <1>1, <1>2, <2>1, ProcessKept, RuntimeKept, StartKept
<1>7. QED
  BY <1>1, <1>2, <1>3, <1>4, <1>5, <1>6, OthersKept

\* The types of a process row.
ProcessType ==
    [pc : {"down", "reconciling", "waiting", "up"}, todo : SUBSET Credentials,
     keyring : KeyringType, service : {"none", "ready", "failed", "hangs"}]

\* A process moves without a change of the rows or the configuration.
LEMMA ProcessStep ==
    ASSUME CredentialInv, UNCHANGED <<status, secret, config>>, NEW p \in Processes,
           NEW row \in ProcessType, process' = [process EXCEPT ![p] = row],
           call' \in [Processes -> CallType],
           runtime' \in [Processes -> [Credentials -> RuntimeType]],
           atStart' \in [Processes -> [Credentials ->
             [status : {"none", "active", "disabled", "revoked"}, version : [Kinds -> Nat]]]],
           \A q \in Processes \ {p} :
              call'[q] = call[q] /\ runtime'[q] = runtime[q] /\ atStart'[q] = atStart[q],
           ProcessExact(p)', CallExact(p)',
           \A c \in Credentials : RuntimeExact(p, c)' /\ StartExact(p, c)'
    PROVE  CredentialInv'
<1>1. /\ process' \in [Processes -> ProcessType]
      /\ \A q \in Processes \ {p} : process'[q] = process[q]
  BY DEF CredentialInv, InvType, ProcessType
<1>2. InvType'
  BY <1>1 DEF CredentialInv, InvType, ProcessType
<1>3. SecretsGrow
  BY RowsStay
<1>4. config' = config
  OBVIOUS
<1>5. QED
  BY <1>1, <1>2, <1>3, <1>4, OthersKept

\* A process stops and forgets what it registered.
LEMMA StopStep ==
    ASSUME CredentialInv, UNCHANGED <<status, secret, config, atStart>>,
           NEW p \in Processes, Stop(p)
    PROVE  CredentialInv'
<1>1. PICK old \in ProcessType : old = process[p]
  BY DEF CredentialInv, InvType, ProcessType
<1>2. PICK row : row = [old EXCEPT !.pc = "down", !.todo = {}, !.service = "none"]
  OBVIOUS
<1>3. row \in ProcessType /\ row.pc = "down" /\ row.todo = {} /\ row.keyring = old.keyring
  BY <1>2 DEF ProcessType
<1>4. process' = [process EXCEPT ![p] = row] /\ process'[p] = row
  BY <1>1, <1>2 DEF Stop, CredentialInv, InvType
<1>5. Unregistered \in RuntimeType /\ DOMAIN Unregistered = {}
  <2>1. Unregistered \in [{} -> Nat] /\ {} \in SUBSET Kinds
    BY DEF Unregistered
  <2>2. QED
    BY <2>1 DEF RuntimeType
<1>6. /\ runtime' \in [Processes -> [Credentials -> RuntimeType]]
      /\ \A c \in Credentials : runtime'[p][c] = Unregistered
      /\ \A q \in Processes \ {p} : runtime'[q] = runtime[q]
  BY <1>5 DEF Stop, CredentialInv, InvType
<1>7. /\ call' \in [Processes -> CallType] /\ call'[p] = NoCall
      /\ \A q \in Processes \ {p} : call'[q] = call[q]
  BY DEF Stop, CredentialInv, InvType, CallType
<1>8. ProcessExact(p)'
  BY <1>1, <1>3, <1>4 DEF CredentialInv, ProcessExact
<1>9. CallExact(p)'
  BY <1>7 DEF CallExact
<1>10. \A c \in Credentials : RuntimeExact(p, c)'
  BY <1>5, <1>6 DEF RuntimeExact
<1>11. \A c \in Credentials : StartExact(p, c)'
  BY DEF CredentialInv, StartExact
<1>12. QED
  BY <1>3, <1>4, <1>6, <1>7, <1>8, <1>9, <1>10, <1>11, ProcessStep
     DEF CredentialInv, InvType

\* A process starts with the configured keys and lists the active credentials.
LEMMA StartProcessStep ==
    ASSUME CredentialInv, NEW p \in Processes, StartProcess(p)
    PROVE  CredentialInv'
<1>1. PICK row : row = [pc |-> "reconciling", todo |-> activeCredentialIDs,
                        keyring |-> config, service |-> "none"]
  OBVIOUS
<1>2. /\ row \in ProcessType /\ row.pc = "reconciling" /\ row.todo = activeCredentialIDs
      /\ row.keyring = config
  BY <1>1 DEF ProcessType, activeCredentialIDs, CredentialInv, InvType
<1>3. /\ process' = [process EXCEPT ![p] = row] /\ process'[p] = row
      /\ UNCHANGED <<status, secret, config, call, runtime>>
      /\ process[p].pc = "down" /\ call' = call
  BY <1>1 DEF StartProcess, rows, CredentialInv, InvType
<1>4. /\ Newest \in [Credentials ->
           [status : {"none", "active", "disabled", "revoked"}, version : [Kinds -> Nat]]]
      /\ \A c \in Credentials : /\ Newest[c].status = status[c]
                                /\ \A k \in Kinds : Newest[c].version[k] = Len(secret[c][k])
  BY DEF Newest, CredentialInv, InvType
<1>5. /\ atStart' \in [Processes -> [Credentials ->
           [status : {"none", "active", "disabled", "revoked"}, version : [Kinds -> Nat]]]]
      /\ atStart'[p] = Newest
      /\ \A q \in Processes \ {p} : atStart'[q] = atStart[q]
  BY <1>4 DEF StartProcess, CredentialInv, InvType
<1>6. ProcessExact(p)'
  BY <1>2, <1>3, <1>4, <1>5 DEF ProcessExact, activeCredentialIDs, CredentialInv, InvType
<1>7. CallExact(p)'
  <2>1. call[p] = NoCall
    BY <1>3 DEF CredentialInv, CallExact
  <2>2. QED
    BY <1>3, <2>1 DEF CallExact
<1>8. \A c \in Credentials : RuntimeExact(p, c)'
  <2>1. \A c \in Credentials : runtime'[p][c] = Unregistered
    BY <1>3 DEF CredentialInv, RuntimeExact
  <2>2. DOMAIN Unregistered = {}
    BY DEF Unregistered
  <2>3. QED
    BY <2>1, <2>2 DEF RuntimeExact
<1>9. \A c \in Credentials : StartExact(p, c)'
  <2>1. ASSUME NEW c \in Credentials, NEW k \in Kinds
        PROVE  atStart'[p][c].version[k] <= Len(secret'[c][k])
    <3>1. secret[c][k] \in Seq(SecretRow)
      BY DEF CredentialInv, InvType
    <3>2. Len(secret[c][k]) \in Nat
      BY <3>1
    <3>3. QED
      BY <1>3, <1>4, <1>5, <3>2
  <2>2. QED
    BY <2>1 DEF StartExact
<1>10. QED
  BY <1>2, <1>3, <1>5, <1>6, <1>7, <1>8, <1>9, ProcessStep DEF CredentialInv, InvType

\* The stages of a start after the list, and the list getting shorter.
LEMMA StageStep ==
    ASSUME CredentialInv, UNCHANGED <<status, secret, config, call, runtime, atStart>>,
           NEW p \in Processes, process[p].pc \in {"reconciling", "waiting"},
           NEW row \in ProcessType, process' = [process EXCEPT ![p] = row],
           row.pc # "down", row.keyring = process[p].keyring,
           row.todo \subseteq process[p].todo
    PROVE  CredentialInv'
<1>1. process'[p] = row
  BY DEF CredentialInv, InvType
<1>2. ProcessExact(p)'
  BY <1>1 DEF CredentialInv, ProcessExact
<1>3. CallExact(p)'
  <2>1. call[p] = NoCall
    BY DEF CredentialInv, CallExact
  <2>2. QED
    BY <2>1 DEF CallExact
<1>4. SecretsGrow
  BY RowsStay
<1>5. \A c \in Credentials : RuntimeExact(p, c)' /\ StartExact(p, c)'
  BY <1>1, <1>4, RuntimeKept, StartKept
<1>6. QED
  BY <1>2, <1>3, <1>5, ProcessStep DEF CredentialInv, InvType

\* One credential of the list: registered with its active versions, skipped, or
\* the end of the process.
LEMMA RegisterStep ==
    ASSUME CredentialInv, NEW p \in Processes, NEW c \in Credentials,
           RegisterCredential(p, c)
    PROVE  CredentialInv'
<1> DEFINE kinds == {k \in Kinds : ActiveVersions(c, k) # {}}
           loaded == [k \in kinds |-> loadRuntime(c, k)]
<1>1. /\ process[p].pc = "reconciling" /\ c \in process[p].todo
      /\ UNCHANGED <<status, secret, config, atStart>>
  BY DEF RegisterCredential, rows
<1>2. PICK old \in ProcessType : old = process[p]
  BY DEF CredentialInv, InvType, ProcessType
<1>3. PICK row : row = [old EXCEPT !.todo = @ \ {c}]
  OBVIOUS
<1>4. /\ row \in ProcessType /\ row.pc = "reconciling" /\ row.keyring = process[p].keyring
      /\ row.todo \subseteq process[p].todo
  BY <1>1, <1>2, <1>3 DEF ProcessType
<1>5. ASSUME process' = [process EXCEPT ![p].todo = @ \ {c}]
      PROVE  process' = [process EXCEPT ![p] = row] /\ process'[p] = row
  BY <1>2, <1>3, <1>5 DEF CredentialInv, InvType
<1>6. CASE Stop(p)
  BY <1>1, <1>6, StopStep
<1>7. CASE /\ process' = [process EXCEPT ![p].todo = @ \ {c}]
           /\ UNCHANGED <<runtime, call>>
  BY <1>1, <1>4, <1>5, <1>7, StageStep
<1>8. CASE /\ process' = [process EXCEPT ![p].todo = @ \ {c}]
           /\ runtime' = [runtime EXCEPT ![p][c] = loaded]
           /\ UNCHANGED call
  <2>1. ASSUME NEW k \in kinds
        PROVE  /\ loaded[k] \in Nat
               /\ loaded[k] \in 1..Len(secret[c][k])
               /\ loaded[k] >= atStart[p][c].version[k]
    <3>1. PICK versions \in Seq(SecretRow) : versions = secret[c][k]
      BY DEF CredentialInv, InvType
    <3>2. versions # <<>> /\ loaded[k] = Len(versions)
      BY <3>1, ActiveIsLast DEF loadRuntime
    <3>3. Len(versions) \in Nat /\ Len(versions) \in 1..Len(versions)
      BY <3>2
    <3>4. atStart[p][c].version[k] <= Len(versions) /\ atStart[p][c].version[k] \in Nat
      BY <3>1 DEF CredentialInv, InvType, StartExact
    <3>5. QED
      BY <3>1, <3>2, <3>3, <3>4
  <2>2. PICK f \in RuntimeType : f = loaded /\ DOMAIN f = kinds
    <3>1. loaded \in [kinds -> Nat] /\ kinds \in SUBSET Kinds
      BY <2>1
    <3>2. QED
      BY <3>1 DEF RuntimeType
  <2>3. /\ runtime' \in [Processes -> [Credentials -> RuntimeType]]
        /\ runtime'[p][c] = f
        /\ \A d \in Credentials \ {c} : runtime'[p][d] = runtime[p][d]
        /\ \A q \in Processes \ {p} : runtime'[q] = runtime[q]
    BY <1>8, <2>2 DEF CredentialInv, InvType
  <2>4. atStart[p][c].status = "active"
    BY <1>1 DEF CredentialInv, ProcessExact
  <2>5. SecretsGrow
    BY <1>1, RowsStay
  <2>6. process'[p] = row /\ process' = [process EXCEPT ![p] = row]
    BY <1>5, <1>8
  <2>7. RuntimeExact(p, c)'
    BY <1>1, <1>4, <2>1, <2>2, <2>3, <2>4, <2>6 DEF RuntimeExact
  <2>8. ASSUME NEW d \in Credentials \ {c} PROVE RuntimeExact(p, d)'
    BY <1>1, <1>4, <2>3, <2>5, <2>6, RuntimeKept
  <2>9. \A d \in Credentials : RuntimeExact(p, d)' /\ StartExact(p, d)'
    BY <1>1, <2>5, <2>7, <2>8, StartKept
  <2>10. ProcessExact(p)'
    BY <1>1, <1>4, <2>6 DEF CredentialInv, ProcessExact
  <2>11. CallExact(p)'
    <3>1. call[p] = NoCall
      BY <1>1 DEF CredentialInv, CallExact
    <3>2. QED
      BY <1>8, <3>1 DEF CallExact
  <2>12. QED
    BY <1>1, <1>4, <1>8, <2>3, <2>6, <2>9, <2>10, <2>11, ProcessStep
       DEF CredentialInv, InvType
<1>9. QED
  BY <1>6, <1>7, <1>8 DEF RegisterCredential

\* The embedded service is run.
LEMMA StartStep ==
    ASSUME CredentialInv, NEW p \in Processes, Start(p)
    PROVE  CredentialInv'
<1>1. PICK outcome \in {"ready", "failed", "hangs"} :
         process' = [process EXCEPT ![p].pc = "waiting", ![p].service = outcome]
  BY DEF Start
<1>2. PICK old \in ProcessType : old = process[p]
  BY DEF CredentialInv, InvType, ProcessType
<1>3. PICK row : row = [old EXCEPT !.pc = "waiting", !.service = outcome]
  OBVIOUS
<1>4. row \in ProcessType /\ row.pc # "down" /\ row.keyring = process[p].keyring
      /\ row.todo \subseteq process[p].todo
  BY <1>2, <1>3 DEF ProcessType
<1>5. process' = [process EXCEPT ![p] = row]
  BY <1>1, <1>2, <1>3 DEF CredentialInv, InvType
<1>6. UNCHANGED <<status, secret, config, call, runtime, atStart>>
      /\ process[p].pc \in {"reconciling", "waiting"}
  BY DEF Start, rows
<1>7. QED
  BY <1>4, <1>5, <1>6, StageStep

\* WaitReady: the process is up, or stops.
LEMMA WaitReadyStep ==
    ASSUME CredentialInv, NEW p \in Processes, WaitReady(p)
    PROVE  CredentialInv'
<1>1. UNCHANGED <<status, secret, config, atStart>>
      /\ process[p].pc \in {"reconciling", "waiting"}
  BY DEF WaitReady, rows
<1>2. CASE Stop(p)
  BY <1>1, <1>2, StopStep
<1>3. CASE /\ process' = [process EXCEPT ![p].pc = "up", ![p].service = "none"]
           /\ UNCHANGED <<call, runtime>>
  <2>1. PICK old \in ProcessType : old = process[p]
    BY DEF CredentialInv, InvType, ProcessType
  <2>2. PICK row : row = [old EXCEPT !.pc = "up", !.service = "none"]
    OBVIOUS
  <2>3. row \in ProcessType /\ row.pc # "down" /\ row.keyring = process[p].keyring
        /\ row.todo \subseteq process[p].todo
    BY <2>1, <2>2 DEF ProcessType
  <2>4. process' = [process EXCEPT ![p] = row]
    BY <1>3, <2>1, <2>2 DEF CredentialInv, InvType
  <2>5. QED
    BY <1>1, <1>3, <2>3, <2>4, StageStep
<1>4. QED
  BY <1>2, <1>3 DEF WaitReady

\* The configuration changes: what is in force can still be opened, and what
\* runs seals with a key that stays.
LEMMA ConfigStep ==
    ASSUME CredentialInv, UNCHANGED <<status, secret, process, call, runtime, atStart>>,
           config' \in KeyringType, config'.current \in config'.keys,
           \A c \in Credentials, k \in Kinds : OpenedWith(secret[c][k], config'.keys),
           \A p \in Processes :
              process[p].pc # "down" => process[p].keyring.current \in config'.keys
    PROVE  CredentialInv'
<1>1. SecretsGrow
  BY SecretsStay
<1>2. InvType'
  BY DEF CredentialInv, InvType
<1>3. QED
  BY <1>1, <1>2, ProcessesKept

\* A new current key.
LEMMA RollKeyStep ==
    ASSUME CredentialInv, RollKey
    PROVE  CredentialInv'
<1>1. PICK key \in 1..MaxKey : key = config.current + 1
  BY CredentialAssumption DEF RollKey, CredentialInv, InvType, KeyringType
<1>2. config' = [current |-> key, keys |-> config.keys \cup {key}]
  BY <1>1 DEF RollKey, Rolled
<1>3. /\ config' \in KeyringType /\ config'.current \in config'.keys
      /\ config.keys \subseteq config'.keys
  BY <1>2 DEF CredentialInv, InvType, KeyringType
<1>4. UNCHANGED <<status, secret, process, call, runtime, atStart>>
  BY DEF RollKey, rows
<1>5. \A c \in Credentials, k \in Kinds : OpenedWith(secret[c][k], config'.keys)
  BY <1>3 DEF CredentialInv, SecretsExact, OpenedWith
<1>6. \A p \in Processes :
         process[p].pc # "down" => process[p].keyring.current \in config'.keys
  BY <1>3 DEF CredentialInv, ProcessExact
<1>7. QED
  BY <1>3, <1>4, <1>5, <1>6, ConfigStep

\* Keys that nothing uses are retired.
LEMMA RetireKeysStep ==
    ASSUME CredentialInv, RetireKeys
    PROVE  CredentialInv'
<1> DEFINE running == {process[p].keyring.current :
                         p \in {q \in Processes : process[q].pc # "down"}}
<1>1. config' = [config EXCEPT !.keys = @ \cap (InUse \cup {config.current} \cup running)]
  BY DEF RetireKeys
<1>2. config \in [current : 1..MaxKey, keys : SUBSET (1..MaxKey)]
      /\ config.current \in config.keys
  BY DEF CredentialInv, InvType, KeyringType
<1>3. /\ config' \in KeyringType /\ config'.current = config.current
      /\ config'.keys = config.keys \cap (InUse \cup {config.current} \cup running)
  <2>1. PICK keys \in SUBSET (1..MaxKey) :
           keys = config.keys \cap (InUse \cup {config.current} \cup running)
    BY <1>2
  <2>2. config' = [config EXCEPT !.keys = keys]
    BY <1>1, <2>1
  <2>3. QED
    BY <1>2, <2>1, <2>2 DEF KeyringType
<1>4. UNCHANGED <<status, secret, process, call, runtime, atStart>>
  BY DEF RetireKeys, rows
<1>5. ASSUME NEW c \in Credentials, NEW k \in Kinds
      PROVE  OpenedWith(secret[c][k], config'.keys)
  <2>1. SUFFICES ASSUME secret[c][k] # <<>>
                 PROVE  secret[c][k][Len(secret[c][k])].key \in config'.keys
    BY DEF OpenedWith
  <2>2. PICK versions \in Seq(SecretRow) : versions = secret[c][k] /\ versions # <<>>
    BY <2>1 DEF CredentialInv, InvType
  <2>3. PICK n : n = Len(versions) /\ versions[n] \in SecretRow
    BY <2>2
  <2>4. versions[n].key \in 1..MaxKey /\ versions[n].key \in config.keys
    BY <2>2, <2>3 DEF SecretRow, CredentialInv, SecretsExact, OpenedWith
  <2>5. n \in ActiveVersions(c, k)
    BY <2>1, <2>2, <2>3, ActiveIsLast
  <2>6. versions[n].key \in InUse
    BY <2>2, <2>4, <2>5 DEF InUse
  <2>7. QED
    BY <1>3, <2>2, <2>3, <2>4, <2>6
<1>6. ASSUME NEW p \in Processes, process[p].pc # "down"
      PROVE  process[p].keyring.current \in config'.keys
  <2>1. process[p].keyring.current \in running
    BY <1>6
  <2>2. process[p].keyring.current \in config.keys
    BY <1>6 DEF CredentialInv, ProcessExact
  <2>3. QED
    BY <1>3, <2>1, <2>2
<1>7. config'.current \in config'.keys
  BY <1>2, <1>3
<1>8. QED
  BY <1>3, <1>4, <1>5, <1>6, <1>7, ConfigStep

\* Every step keeps the invariant.
LEMMA CredentialInvNext == CredentialInv /\ [CredentialNext]_credentialVars => CredentialInv'
<1> SUFFICES ASSUME CredentialInv, [CredentialNext]_credentialVars PROVE CredentialInv'
  OBVIOUS
<1>1. ASSUME NEW p \in Processes, Admin(p) PROVE CredentialInv'
  BY <1>1, CreateStep, UpdateStep, RotateStep, RevealStep, ReencryptStep DEF Admin
<1>2. ASSUME NEW p \in Processes, StartUp(p) PROVE CredentialInv'
  BY <1>2, StartStep, WaitReadyStep, RegisterStep DEF StartUp
<1>3. ASSUME NEW p \in Processes, StartProcess(p) PROVE CredentialInv'
  BY <1>3, StartProcessStep
<1>4. ASSUME NEW p \in Processes, Shutdown(p) PROVE CredentialInv'
  <2>1. Stop(p) /\ UNCHANGED <<status, secret, config, atStart>>
    BY <1>4 DEF Shutdown, rows
  <2>2. QED
    BY <2>1, StopStep
<1>5. CASE UNCHANGED credentialVars
  <2>1. UNCHANGED <<status, secret, config, process, call, runtime, atStart>>
    BY <1>5 DEF credentialVars
  <2>2. SecretsGrow
    BY <2>1, RowsStay
  <2>3. QED
    BY <2>1, <2>2, RowsStep DEF CredentialInv, InvType
<1>6. QED
  BY <1>1, <1>2, <1>3, <1>4, <1>5, RollKeyStep, RetireKeysStep DEF CredentialNext

\* The invariant holds in every reachable state.
LEMMA CredentialInvAlways == CredentialSpec => []CredentialInv
BY CredentialInvInit, CredentialInvNext, PTL DEF CredentialSpec

-----------------------------------------------------------------------------
(* Credential: theorems *)

\* However rotations and re-encryptions of several processes interleave, a kind
\* that has secrets has exactly one active one, the newest.
THEOREM NewestIsActive == CredentialSpec => []ActiveIsNewest
<1>1. CredentialInv => ActiveIsNewest
  <2> SUFFICES ASSUME CredentialInv PROVE ActiveIsNewest
    OBVIOUS
  <2>1. ASSUME NEW c \in Credentials, NEW k \in Kinds
        PROVE  ActiveVersions(c, k) = IF secret[c][k] = <<>> THEN {} ELSE {Len(secret[c][k])}
    BY ActiveIsLast
  <2>2. ASSUME NEW c \in Credentials, NEW k \in Kinds, NEW i \in DOMAIN secret[c][k]
        PROVE  secret[c][k][i] \in [value : 1..i, key : 1..MaxKey, active : BOOLEAN]
    <3>1. PICK versions \in Seq(SecretRow) : versions = secret[c][k] /\ VersionsExact(versions)
      BY DEF CredentialInv, InvType, SecretsExact
    <3>2. i \in 1..Len(versions) /\ versions[i] \in SecretRow
      BY <3>1
    <3>3. versions[i].value \in 1..i
      BY <3>1, <3>2 DEF VersionsExact
    <3>4. QED
      BY <3>1, <3>2, <3>3 DEF SecretRow
  <2>3. ASSUME NEW p \in Processes
        PROVE  /\ process[p].pc \in {"down", "reconciling", "waiting", "up"}
               /\ process[p].todo \subseteq Credentials
               /\ process[p].keyring.current \in process[p].keyring.keys
    BY DEF CredentialInv, InvType, ProcessExact
  <2>4. ASSUME NEW p \in Processes, NEW c \in Credentials, NEW k \in DOMAIN runtime[p][c]
        PROVE  runtime[p][c][k] \in DOMAIN secret[c][k]
    <3>1. PICK f \in RuntimeType : f = runtime[p][c]
      BY DEF CredentialInv, InvType
    <3>2. k \in Kinds
      BY <3>1 DEF RuntimeType
    <3>3. secret[c][k] \in Seq(SecretRow) /\ runtime[p][c][k] \in 1..Len(secret[c][k])
      BY <3>2 DEF CredentialInv, InvType, RuntimeExact
    <3>4. QED
      BY <3>3
  <2>5. CredentialTypeOK
    BY <2>2, <2>3, <2>4 DEF CredentialTypeOK, CredentialInv, InvType
  <2>6. QED
    BY <2>1, <2>5 DEF ActiveIsNewest
<1>2. QED
  BY <1>1, CredentialInvAlways, PTL

\* A process that starts registers nothing older than its start, and every
\* active secret can be opened with the configured keys, although keys were
\* retired while others sealed with them.
THEOREM StartIsSafe == CredentialSpec => []StartSafety
<1>1. CredentialInv => StartSafety
  <2> SUFFICES ASSUME CredentialInv PROVE StartSafety
    OBVIOUS
  <2>1. RuntimeSinceStart
    BY DEF CredentialInv, RuntimeExact, RuntimeSinceStart
  <2>2. ASSUME NEW p \in Processes, process[p].keyring = config, NEW c \in Credentials,
               NEW k \in Kinds, NEW i \in ActiveVersions(c, k)
        PROVE  Opens(p, secret[c][k][i])
    <3>1. secret[c][k] # <<>> /\ i = Len(secret[c][k])
      BY <2>2, ActiveIsLast
    <3>2. secret[c][k][i].key \in config.keys
      BY <3>1 DEF CredentialInv, SecretsExact, OpenedWith
    <3>3. QED
      BY <2>2, <3>2 DEF Opens
  <2>3. \A p \in Processes : process[p].todo \subseteq Credentials
    BY DEF CredentialInv, InvType
  <2>4. StartsWithKeys
    BY <2>2, <2>3 DEF StartsWithKeys
  <2>5. QED
    BY <2>1, <2>4 DEF StartSafety
<1>2. QED
  BY <1>1, CredentialInvAlways, PTL

\* A re-encryption never brings an old plaintext back: when its second
\* transaction ends, the plaintext in force is the one that was.
THEOREM RotationReplaces == CredentialSpec => OnlyRotationReplaces
<1> DEFINE Replaces == \A p \in Processes : call[p] # NoCall /\ call'[p] = NoCall =>
              \A c \in Credentials, k \in Kinds : secret[c][k] # <<>> =>
                 Last(secret'[c][k]).value = Last(secret[c][k]).value
<1>1. CredentialInv /\ [CredentialNext]_credentialVars => [Replaces]_credentialVars
  <2> SUFFICES ASSUME CredentialInv, CredentialNext, NEW p \in Processes,
                      call[p] # NoCall, call'[p] = NoCall,
                      NEW c \in Credentials, NEW k \in Kinds, secret[c][k] # <<>>
               PROVE  Last(secret'[c][k]).value = Last(secret[c][k]).value
    OBVIOUS
  <2>1. CASE secret' = secret
    BY <2>1
  <2>2. CASE \E q \in Processes : Reencrypt(q)
    BY <2>2, Reencrypted DEF Last
  <2>3. ASSUME NEW q \in Processes,
               \/ \E d \in Credentials : Create(q, d) \/ Update(q, d)
               \/ \E d \in Credentials, j \in Kinds : Rotate(q, d, j)
        PROVE  FALSE
    BY <2>3 DEF Create, Update, Rotate
  <2>4. QED
    BY <2>1, <2>2, <2>3, ZenonT(60) DEF CredentialNext, Admin, StartUp, RevealForReencrypt, Start,
       WaitReady, RegisterCredential, StartProcess, Shutdown, RollKey, RetireKeys, rows
<1>2. QED
  BY <1>1, CredentialInvAlways, PTL DEF CredentialSpec, OnlyRotationReplaces

-----------------------------------------------------------------------------
(* Session: the inductive invariant of the limiter *)

\* An entry of the limiter, or none.
Entry == [attempts : Nat, resetAt : Nat]

\* A window ends at this time.
EndsWindow(t) == \E m \in Nat : t = m * Window

\* The types of the limiter and of the clock; windows end at multiples of their
\* length.
LimiterType ==
    /\ now \in 1..MaxTime
    /\ entries \in [Identities -> Entry]
    /\ \A k \in Identities :
          entries[k].attempts <= Limit(k) + 1 /\ EndsWindow(entries[k].resetAt)
    /\ passed \in Nat

\* The table is bounded.
TableBounded ==
    IsFiniteSet(Present(entries)) /\ Cardinality(Present(entries)) <= MaxEntries + 1

\* The attempts let through were counted in an entry of the current window.
PassedCounted ==
    /\ passed <= AccountLimit
    /\ passed > 0 => entries[Owner].resetAt > now /\ passed <= entries[Owner].attempts

\* The invariant of the limiter.
LimiterInv == LimiterType /\ TableBounded /\ PassedCounted

-----------------------------------------------------------------------------
(* Session: the limiter makes room *)

\* Minimum and maximum of two numbers.
LEMMA MinOfTwo ==
    \A a, b \in Int : /\ Min({a, b}) = IF a <= b THEN a ELSE b
                      /\ Max({a, b}) = IF a <= b THEN b ELSE a
BY DEF Min, Max

\* A set of two has at most two elements.
LEMMA AtMostTwo ==
    ASSUME NEW a, NEW b
    PROVE  IsFiniteSet({a, b}) /\ Cardinality({a, b}) \in 1..2
<1>1. IsFiniteSet({a}) /\ Cardinality({a}) = 1
  BY FS_Singleton
<1>2. {a} \cup {b} = {a, b}
  OBVIOUS
<1>3. /\ IsFiniteSet({a} \cup {b})
      /\ Cardinality({a} \cup {b}) = IF b \in {a} THEN Cardinality({a}) ELSE Cardinality({a}) + 1
  BY <1>1, FS_AddElement
<1>4. QED
  BY <1>1, <1>2, <1>3

\* Eviction makes room for two keys, all but for one that it took itself, and
\* evicts nothing without need.
LEMMA RoomEnough ==
    ASSUME NEW Q, IsFiniteSet(Q), NEW a, NEW b, NEW keys, keys = {a, b},
           NEW gone \in SUBSET Q, Cardinality(Q) <= MaxEntries + 1,
           NEW new \in Nat, new = Cardinality(keys \ Q),
           NEW n \in Nat, n = Max({0, Cardinality(Q) + new - MaxEntries}),
           Cardinality(gone) = Min({n, Cardinality(Q)})
    PROVE  /\ IsFiniteSet((Q \ gone) \cup keys)
           /\ Cardinality((Q \ gone) \cup keys) <= MaxEntries + 1
           /\ gone # {} => Cardinality(Q \cup keys) > MaxEntries
<1>0. MaxEntries \in Nat /\ MaxEntries >= 2
  BY SessionAssumption
<1>1. IsFiniteSet(keys) /\ Cardinality(keys) \in 1..2
  BY AtMostTwo
<1>2. /\ IsFiniteSet(keys \ Q) /\ Cardinality(keys \ Q) = Cardinality(keys) - Cardinality(keys \cap Q)
      /\ IsFiniteSet(keys \cap Q)
  BY <1>1, FS_Difference, FS_Intersection
<1>3. IsFiniteSet(gone)
  BY FS_Subset
<1>4. PICK q \in Nat : q = Cardinality(Q)
  BY FS_CardinalityType
<1>5. PICK g \in Nat : g = Cardinality(gone)
  BY <1>3, FS_CardinalityType
<1>6. PICK k \in Nat : k = Cardinality(keys)
  BY <1>1, FS_CardinalityType
<1>7. PICK old \in Nat : old = Cardinality(keys \cap Q)
  BY <1>2, FS_CardinalityType
<1>8. PICK back \in Nat : back = Cardinality(keys \cap gone)
  BY <1>1, FS_Intersection, FS_CardinalityType
<1>9. back <= old /\ back <= g
  <2>1. keys \cap gone \in SUBSET (keys \cap Q) /\ keys \cap gone \in SUBSET gone
    OBVIOUS
  <2>2. Cardinality(keys \cap gone) <= Cardinality(keys \cap Q)
    BY <1>2, <2>1, FS_Subset
  <2>3. Cardinality(keys \cap gone) <= Cardinality(gone)
    BY <1>3, <2>1, FS_Subset
  <2>4. QED
    BY <1>5, <1>7, <1>8, <2>2, <2>3
<1>10. n = IF q + new <= MaxEntries THEN 0 ELSE q + new - MaxEntries
  <2>1. PICK x \in Int : x = q + new - MaxEntries
    BY <1>0
  <2>2. PICK z \in Int : z = 0
    OBVIOUS
  <2>3. Max({z, x}) = IF z <= x THEN x ELSE z
    BY MinOfTwo
  <2>4. n = Max({z, x})
    BY <1>4, <2>1, <2>2
  <2>5. QED
    BY <1>0, <2>1, <2>2, <2>3, <2>4
<1>11. g = IF n <= q THEN n ELSE q
  <2>1. n \in Int /\ q \in Int
    OBVIOUS
  <2>2. Min({n, q}) = IF n <= q THEN n ELSE q
    BY <2>1, MinOfTwo
  <2>3. QED
    BY <1>4, <1>5, <2>2
<1>12. k \in 1..2 /\ new = k - old /\ q <= MaxEntries + 1
  BY <1>1, <1>2, <1>4, <1>6, <1>7
<1>13. /\ IsFiniteSet(Q \ gone) /\ Cardinality(Q \ gone) = q - g
  <2>1. Q \cap gone = gone
    OBVIOUS
  <2>2. /\ IsFiniteSet(Q \ gone)
        /\ Cardinality(Q \ gone) = Cardinality(Q) - Cardinality(Q \cap gone)
    BY FS_Difference
  <2>3. Cardinality(Q \cap gone) = g
    BY <1>5, <2>1
  <2>4. QED
    BY <1>4, <2>2, <2>3
<1>14. /\ IsFiniteSet((Q \ gone) \cup keys)
       /\ Cardinality((Q \ gone) \cup keys) = (q - g) + k - Cardinality((Q \ gone) \cap keys)
  BY <1>1, <1>6, <1>13, FS_Union
<1>15. Cardinality((Q \ gone) \cap keys) = old - back
  <2>1. (Q \ gone) \cap keys = (keys \cap Q) \ gone
    OBVIOUS
  <2>2. (keys \cap Q) \cap gone = keys \cap gone
    OBVIOUS
  <2>3. Cardinality((keys \cap Q) \ gone) =
          Cardinality(keys \cap Q) - Cardinality((keys \cap Q) \cap gone)
    BY <1>2, FS_Difference
  <2>4. Cardinality((keys \cap Q) \cap gone) = back
    BY <1>8, <2>2
  <2>5. Cardinality((Q \ gone) \cap keys) = Cardinality((keys \cap Q) \ gone)
    BY <2>1
  <2>6. QED
    BY <1>7, <2>3, <2>4, <2>5
<1>16. Cardinality(Q \cup keys) = q + k - old
  <2>1. Q \cap keys = keys \cap Q
    OBVIOUS
  <2>2. QED
    BY <1>1, <1>4, <1>6, <1>7, <2>1, FS_Union
<1>17. gone # {} => g # 0
  BY <1>3, <1>5, FS_EmptySet
<1>18. Cardinality((Q \ gone) \cup keys) = q - g + new + back
  BY <1>12, <1>14, <1>15
<1>19. q - g + new + back <= MaxEntries + 1
  <2>1. CASE q + new <= MaxEntries
    BY <1>0, <1>9, <1>10, <1>11, <2>1
  <2>2. CASE q + new > MaxEntries
    <3>1. n = q + new - MaxEntries /\ new <= 2 /\ n <= q
      BY <1>0, <1>10, <1>12, <2>2
    <3>2. g = q + new - MaxEntries
      BY <1>11, <3>1
    <3>3. back <= 1
      BY <1>0, <1>9, <1>12, <3>2
    <3>4. QED
      BY <1>0, <3>2, <3>3
  <2>3. QED
    BY <1>0, <2>1, <2>2
<1>20. gone # {} => q + new > MaxEntries
  BY <1>0, <1>10, <1>11, <1>17
<1>21. QED
  BY <1>0, <1>12, <1>14, <1>16, <1>18, <1>19, <1>20

\* Removing entries removes the keys that have them.
LEMMA WithoutKeys ==
    ASSUME NEW e \in [Identities -> Entry], NEW gone
    PROVE  /\ Without(e, gone) \in [Identities -> Entry]
           /\ \A k \in Identities : Without(e, gone)[k] = IF k \in gone THEN NoEntry ELSE e[k]
           /\ Present(Without(e, gone)) = Present(e) \ gone
<1>1. NoEntry \in Entry /\ NoEntry.attempts = 0
  BY DEF NoEntry, Entry
<1>2. Without(e, gone) \in [Identities -> Entry]
  BY <1>1 DEF Without
<1>3. \A k \in Identities : Without(e, gone)[k] = IF k \in gone THEN NoEntry ELSE e[k]
  BY DEF Without
<1>4. QED
  BY <1>1, <1>2, <1>3 DEF Present

\* What makeRoom leaves for an attempt: entries as they were, those of the attempt
\* in a window that has not ended, no more than fit, and every other one gone for
\* want of room only.
LEMMA RoomMade ==
    ASSUME LimiterInv, NEW a \in Identities, NEW b \in Identities,
           NEW keys, keys = {a, b}, NEW room \in MadeRoom(keys)
    PROVE  /\ room \in [Identities -> Entry]
           /\ \A k \in Identities : room[k] \in {entries[k], NoEntry}
           /\ \A k \in keys : room[k].attempts > 0 => entries[k].resetAt > now
           /\ \A k \in Identities :
                /\ entries[k].resetAt > now /\ entries[k].attempts > 0
                /\ room[k].attempts = 0
                => Cardinality(Present(entries) \cup keys) > MaxEntries
           /\ IsFiniteSet(Present(room) \cup keys)
           /\ Cardinality(Present(room) \cup keys) <= MaxEntries + 1
<1> DEFINE old == {k \in keys : Expired(entries[k])}
           own == Without(entries, old)
           new == Cardinality(keys \ Present(own))
           past == {k \in Present(own) : Expired(own[k])}
           pruned == Without(own, past)
<1>0. now \in Nat /\ entries \in [Identities -> Entry] /\ MaxEntries \in Nat
  BY SessionAssumption DEF LimiterInv, LimiterType
<1>1. /\ own \in [Identities -> Entry]
      /\ \A k \in Identities : own[k] = IF k \in old THEN NoEntry ELSE entries[k]
      /\ Present(own) = Present(entries) \ old
  BY <1>0, WithoutKeys
<1>2. \A k \in Identities : Expired(entries[k]) <=> ~(entries[k].resetAt > now)
  BY <1>0 DEF Expired, Entry
<1>3. /\ pruned \in [Identities -> Entry]
      /\ \A k \in Identities : pruned[k] = IF k \in past THEN NoEntry ELSE own[k]
      /\ Present(pruned) = Present(own) \ past
  <2> HIDE DEF own, past
  <2>1. QED
    BY <1>1, WithoutKeys
<1>4. /\ IsFiniteSet(Present(entries)) /\ Cardinality(Present(entries)) <= MaxEntries + 1
      /\ Cardinality(Present(entries)) \in Nat
  BY FS_CardinalityType DEF LimiterInv, TableBounded
<1>5. /\ IsFiniteSet(Present(own)) /\ Cardinality(Present(own)) <= Cardinality(Present(entries))
      /\ Cardinality(Present(own)) \in Nat
  <2>1. Present(own) \in SUBSET Present(entries)
    BY <1>1
  <2> HIDE DEF own
  <2>2. QED
    BY <1>4, <2>1, FS_Subset, FS_CardinalityType
<1>6. /\ IsFiniteSet(Present(pruned)) /\ Cardinality(Present(pruned)) <= MaxEntries + 1
      /\ Cardinality(Present(pruned)) \in Nat
  <2>1. Present(pruned) \in SUBSET Present(own)
    BY <1>3
  <2> HIDE DEF own, pruned
  <2>2. Cardinality(Present(pruned)) <= Cardinality(Present(own)) /\ IsFiniteSet(Present(pruned))
    BY <1>5, <2>1, FS_Subset
  <2>3. Cardinality(Present(pruned)) \in Nat
    BY <2>2, FS_CardinalityType
  <2>4. QED
    BY <1>0, <1>4, <1>5, <2>2, <2>3
<1>7. IsFiniteSet(keys) /\ IsFiniteSet(keys \ Present(own)) /\ new \in Nat
  <2>1. IsFiniteSet(keys)
    BY AtMostTwo
  <2>2. IsFiniteSet(keys \ Present(own))
    BY <2>1, FS_Difference
  <2>3. QED
    BY <2>1, <2>2, FS_CardinalityType

\* Keys that are present have not expired in own, so pruning leaves them.
<1>8. keys \cap past = {} /\ keys \ Present(pruned) = keys \ Present(own)
  <2>1. ASSUME NEW k \in keys, k \in past PROVE FALSE
    <3>1. k \in Present(own) /\ Expired(own[k]) /\ k \in Identities
      BY <2>1 DEF Present
    <3>2. own[k].attempts > 0
      BY <3>1 DEF Present
    <3>3. k \notin old
      BY <1>1, <3>1, <3>2 DEF NoEntry
    <3>4. own[k] = entries[k]
      BY <1>1, <3>1, <3>3
    <3>5. QED
      BY <3>1, <3>3, <3>4
  <2> HIDE DEF past, own, pruned
  <2>2. QED
    BY <1>3, <2>1
<1>9. \A k \in Identities : own[k] \in {entries[k], NoEntry} /\ pruned[k] \in {entries[k], NoEntry}
  <2> HIDE DEF own, pruned, old, past
  <2>1. QED
    BY <1>1, <1>3
<1>10. \A k \in keys : own[k].attempts > 0 => entries[k].resetAt > now
  <2> SUFFICES ASSUME NEW k \in keys, own[k].attempts > 0 PROVE entries[k].resetAt > now
    OBVIOUS
  <2>1. k \in Identities
    OBVIOUS
  <2>2. k \notin old
    BY <1>1, <2>1 DEF NoEntry
  <2>3. QED
    BY <1>2, <2>1, <2>2

\* What is not expired is in own and in pruned.
<1>11. \A k \in Identities : entries[k].resetAt > now =>
         own[k] = entries[k] /\ pruned[k] = entries[k]
  <2> SUFFICES ASSUME NEW k \in Identities, entries[k].resetAt > now
               PROVE  own[k] = entries[k] /\ pruned[k] = entries[k]
    OBVIOUS
  <2>1. ~Expired(entries[k])
    BY <1>2
  <2>2. own[k] = entries[k]
    BY <1>1, <2>1
  <2>3. k \notin past
    BY <2>1, <2>2
  <2>4. QED
    BY <1>3, <2>2, <2>3
<1> DEFINE fits == Excess(own, new) <= 0
           n == Max({0, Excess(pruned, new)})
<1>12. room \in IF fits THEN {own}
                ELSE {Without(pruned, gone) : gone \in Evictions(pruned, n)}
  BY DEF MadeRoom
<1>13. CASE fits
  <2>1. room = own
    BY <1>12, <1>13
  <2>2. PICK c \in Nat : c = Cardinality(Present(own))
    BY <1>5
  <2>3. c + new <= MaxEntries
    BY <1>0, <1>7, <1>13, <2>2 DEF Excess
  <2> HIDE DEF own, pruned, old, past
  <2>4. Present(own) \cup keys = Present(own) \cup (keys \ Present(own))
    OBVIOUS
  <2>5. Present(own) \cap (keys \ Present(own)) = {}
    OBVIOUS
  <2>6. /\ IsFiniteSet(Present(own) \cup (keys \ Present(own)))
        /\ Cardinality(Present(own) \cup (keys \ Present(own))) =
             Cardinality(Present(own)) + Cardinality(keys \ Present(own))
               - Cardinality(Present(own) \cap (keys \ Present(own)))
    BY <1>5, <1>7, FS_Union
  <2>7. Cardinality(Present(own) \cap (keys \ Present(own))) = 0
    BY <2>5, FS_EmptySet
  <2>8. IsFiniteSet(Present(own) \cup keys) /\ Cardinality(Present(own) \cup keys) = c + new
    <3>1. PICK m \in Nat : m = Cardinality(keys \ Present(own)) /\ m = new
      BY <1>7
    <3>2. Cardinality(Present(own) \cup (keys \ Present(own))) = c + m
      BY <2>2, <2>6, <2>7, <3>1
    <3>3. QED
      BY <2>4, <2>6, <3>1, <3>2
  <2>9. Cardinality(Present(own) \cup keys) <= MaxEntries + 1
    BY <1>0, <1>7, <2>3, <2>8
  <2>10. \A k \in Identities : ~(/\ entries[k].resetAt > now /\ entries[k].attempts > 0
                                 /\ own[k].attempts = 0)
    BY <1>0, <1>11 DEF Entry
  <2>11. QED
    BY <1>1, <1>9, <1>10, <2>1, <2>8, <2>9, <2>10
<1>14. CASE ~fits
  <2>1. PICK gone \in Evictions(pruned, n) : room = Without(pruned, gone)
    BY <1>12, <1>14
  <2>2. /\ gone \in SUBSET Present(pruned)
        /\ Cardinality(gone) = Min({n, Cardinality(Present(pruned))})
    BY <2>1 DEF Evictions
  <2>3. /\ room \in [Identities -> Entry]
        /\ \A k \in Identities : room[k] = IF k \in gone THEN NoEntry ELSE pruned[k]
        /\ Present(room) = Present(pruned) \ gone
    <3> HIDE DEF pruned
    <3>1. QED
      BY <1>3, <2>1, WithoutKeys
  <2>4. n \in Nat /\ n = Max({0, Cardinality(Present(pruned)) + new - MaxEntries})
    <3>0. PICK q \in Nat, m \in Nat : q = Cardinality(Present(pruned)) /\ m = new
      BY <1>6, <1>7
    <3>1. PICK x \in Int, z \in Int : z = 0 /\ x = q + m - MaxEntries
      BY <1>0
    <3>2. n = Max({z, x})
      BY <3>0, <3>1 DEF Excess
    <3>3. Max({z, x}) = IF z <= x THEN x ELSE z
      BY MinOfTwo
    <3>4. QED
      BY <3>0, <3>1, <3>2, <3>3
  <2>5. new = Cardinality(keys \ Present(pruned))
    BY <1>8
  <2>6. PICK Q : Q = Present(pruned)
    OBVIOUS
  <2>7. /\ IsFiniteSet((Q \ gone) \cup keys)
        /\ Cardinality((Q \ gone) \cup keys) <= MaxEntries + 1
        /\ gone # {} => Cardinality(Q \cup keys) > MaxEntries
    <3>1. /\ IsFiniteSet(Q) /\ gone \in SUBSET Q /\ Cardinality(Q) <= MaxEntries + 1
          /\ new \in Nat /\ new = Cardinality(keys \ Q)
          /\ n \in Nat /\ n = Max({0, Cardinality(Q) + new - MaxEntries})
          /\ Cardinality(gone) = Min({n, Cardinality(Q)})
      BY <1>6, <1>7, <2>2, <2>4, <2>5, <2>6
    <3> HIDE DEF new, n
    <3>2. QED
      BY <3>1, RoomEnough
  <2>8. gone # {} => Cardinality(Present(entries) \cup keys) > MaxEntries
    <3>1. Q \cup keys \in SUBSET (Present(entries) \cup keys)
      BY <1>1, <1>3, <2>6
    <3>2. IsFiniteSet(Present(entries) \cup keys)
      BY <1>4, <1>7, FS_Union
    <3>3. Cardinality(Q \cup keys) <= Cardinality(Present(entries) \cup keys)
      BY <3>1, <3>2, FS_Subset
    <3>4. Cardinality(Q \cup keys) \in Nat /\ Cardinality(Present(entries) \cup keys) \in Nat
      BY <3>1, <3>2, FS_Subset, FS_CardinalityType
    <3>5. QED
      BY <1>0, <2>7, <3>3, <3>4
  <2>9. ASSUME NEW k \in Identities, entries[k].resetAt > now, entries[k].attempts > 0,
               room[k].attempts = 0
        PROVE  gone # {}
    <3>1. pruned[k] = entries[k]
      BY <1>11, <2>9
    <3>2. k \notin gone => room[k] = entries[k]
      BY <2>3, <3>1
    <3>3. entries[k].attempts # 0
      BY <2>9
    <3>4. QED
      BY <2>9, <3>2, <3>3
  <2>10. ASSUME NEW k \in keys, room[k].attempts > 0 PROVE entries[k].resetAt > now
    <3>1. k \in Identities /\ k \notin past
      BY <1>8
    <3>2. room[k] = NoEntry \/ room[k] = own[k]
      BY <1>3, <2>3, <3>1
    <3>3. QED
      BY <1>10, <2>10, <3>2 DEF NoEntry
  <2>11. \A k \in Identities : room[k] \in {entries[k], NoEntry}
    <3> HIDE DEF own, pruned
    <3>1. QED
      BY <1>9, <2>3
  <2>12. IsFiniteSet(Present(room) \cup keys) /\ Cardinality(Present(room) \cup keys) <= MaxEntries + 1
    BY <2>3, <2>6, <2>7
  <2>13. QED
    BY <2>3, <2>8, <2>9, <2>10, <2>11, <2>12
<1>15. QED
  BY <1>13, <1>14

-----------------------------------------------------------------------------
(* Session: the limiter: its steps *)

\* Windows and limits are positive.
LEMMA LimiterConstants ==
    /\ Window \in Nat \ {0} /\ AccountLimit \in Nat \ {0} /\ IpLimit \in Nat \ {0}
    /\ MaxTime \in Nat \ {0} /\ Owner \in Identities /\ Limit(Owner) = AccountLimit
    /\ \A k \in Identities : Limit(k) \in Nat \ {0}
BY SessionAssumption DEF Limit, Identities

\* A new window ends later, at a multiple of its length.
LEMMA WindowEnds ==
    ASSUME now \in Nat
    PROVE  resetAt \in Nat /\ resetAt > now /\ EndsWindow(resetAt)
<1>1. PICK W \in Nat : W = Window /\ W > 0
  BY LimiterConstants
<1>2. PICK d \in Nat, m \in 0..(W - 1) : d = now \div W /\ now = d * W + m
  BY <1>1
<1>3. PICK p \in Nat : p = d * W
  OBVIOUS
<1>4. resetAt = p + W
  BY <1>1, <1>2, <1>3 DEF resetAt
<1>5. (d + 1) * W = p + W
  BY <1>3
<1>6. EndsWindow(resetAt)
  <2>1. PICK k \in Nat : k = d + 1
    OBVIOUS
  <2>2. resetAt = k * Window
    BY <1>1, <1>4, <1>5, <2>1
  <2>3. QED
    BY <2>2 DEF EndsWindow
<1>7. QED
  BY <1>1, <1>2, <1>3, <1>4, <1>6

\* The end of a window is a step of the clock that resets the count.
LEMMA EndIsReset ==
    ASSUME NEW t \in Nat, EndsWindow(t)
    PROVE  t % Window = 0
<1>1. PICK W \in Nat : W = Window /\ W > 0
  BY LimiterConstants
<1>2. PICK m \in Nat : t = m * W
  BY <1>1 DEF EndsWindow
<1>3. PICK d \in Nat, x \in 0..(W - 1) : t = d * W + x /\ x = t % W
  BY <1>1
<1>4. (m - d) * W = x
  BY <1>2, <1>3
<1>5. CASE m <= d
  <2>1. (m - d) * W <= 0
    BY <1>1, <1>5
  <2>2. QED
    BY <1>1, <1>3, <1>4, <2>1
<1>6. CASE m > d
  <2>1. PICK k \in Nat : m - d = k + 1
    BY <1>6
  <2>2. (k + 1) * W = k * W + W /\ k * W >= 0 /\ k * W \in Nat
    OBVIOUS
  <2>3. QED
    BY <1>3, <1>4, <2>1, <2>2
<1>7. QED
  BY <1>5, <1>6

\* An attempt is counted in an entry of the current window.
LEMMA AttemptCounted ==
    ASSUME LimiterType, NEW e \in [Identities -> Entry], NEW keys \in SUBSET Identities,
           \A k \in Identities : e[k] \in {entries[k], NoEntry}
    PROVE  /\ Counted(e, keys) \in [Identities -> Entry]
           /\ \A k \in Identities \ keys : Counted(e, keys)[k] = e[k]
           /\ \A k \in keys :
                LET c == Counted(e, keys)[k] IN
                /\ c.attempts > 0 /\ c.attempts <= Limit(k) + 1
                /\ c.attempts >= e[k].attempts
                /\ c.attempts <= Limit(k) => c.attempts = e[k].attempts + 1
                /\ c.resetAt = IF e[k].attempts = 0 THEN resetAt ELSE e[k].resetAt
           /\ Present(Counted(e, keys)) = Present(e) \cup keys
<1>0. now \in Nat /\ resetAt \in Nat
  BY WindowEnds DEF LimiterType
<1>1. ASSUME NEW k \in keys
      PROVE  LET c == Counted(e, keys)[k] IN
             /\ c \in Entry
             /\ c.attempts > 0 /\ c.attempts <= Limit(k) + 1
             /\ c.attempts >= e[k].attempts
             /\ c.attempts <= Limit(k) => c.attempts = e[k].attempts + 1
             /\ c.resetAt = IF e[k].attempts = 0 THEN resetAt ELSE e[k].resetAt
  <2>1. k \in Identities /\ e[k] \in Entry /\ Limit(k) \in Nat
    BY LimiterConstants
  <2>2. PICK a \in Nat : a = e[k].attempts
    BY <2>1 DEF Entry
  <2>3. a <= Limit(k) + 1
    BY <2>1, <2>2 DEF LimiterType, NoEntry
  <2>4. PICK x \in Int, y \in Int : x = Limit(k) + 1 /\ y = a + 1
    BY <2>1
  <2>5. Min({x, y}) = IF x <= y THEN x ELSE y
    BY MinOfTwo
  <2>6. Counted(e, keys)[k] = [attempts |-> Min({x, y}),
                               resetAt |-> IF a = 0 THEN resetAt ELSE e[k].resetAt]
    BY <2>1, <2>2, <2>4 DEF Counted
  <2>7. Min({x, y}) \in Nat /\ e[k].resetAt \in Nat
    BY <2>1, <2>4, <2>5 DEF Entry
  <2>8. QED
    BY <1>0, <2>1, <2>2, <2>3, <2>4, <2>5, <2>6, <2>7 DEF Entry
<1>2. ASSUME NEW k \in Identities \ keys
      PROVE  Counted(e, keys)[k] = e[k]
  BY DEF Counted
<1>3. DOMAIN Counted(e, keys) = Identities
  BY DEF Counted
<1>4. Counted(e, keys) = [k \in Identities |-> Counted(e, keys)[k]]
  BY DEF Counted
<1>5. \A k \in Identities : Counted(e, keys)[k] \in Entry
  BY <1>1, <1>2
<1>6. Counted(e, keys) \in [Identities -> Entry]
  BY <1>4, <1>5
<1>7. \A k \in Identities : Counted(e, keys)[k].attempts > 0 <=> k \in keys \/ e[k].attempts > 0
  BY <1>1, <1>2
<1>8. Present(Counted(e, keys)) = Present(e) \cup keys
  BY <1>7 DEF Present
<1>9. QED
  BY <1>1, <1>2, <1>6, <1>8

\* Allow keeps the invariant, whatever it evicts.
LEMMA AllowKeeps ==
    ASSUME LimiterInv, NEW account \in Accounts, NEW address \in Addresses,
           NEW allowed \in BOOLEAN, Allow(account, address, allowed), now' = now
    PROVE  LimiterInv'
<1> DEFINE keys == {account, address}
<1>0. /\ LimiterType /\ now \in Nat /\ resetAt \in Nat /\ resetAt > now /\ EndsWindow(resetAt)
      /\ keys \in SUBSET Identities /\ passed \in Nat
  BY WindowEnds DEF LimiterInv, LimiterType, Identities
<1>1. PICK room \in MadeRoom(keys) :
        LET counted == Counted(room, keys)
            evicted == /\ room[Owner].attempts = 0 /\ entries[Owner].resetAt > now
                       /\ Cardinality(Present(entries) \cup keys) > MaxEntries
            before == IF evicted THEN 0 ELSE passed
        IN /\ entries' = counted
           /\ allowed = \A k \in keys : counted[k].attempts <= Limit(k)
           /\ passed' = IF account = Owner /\ allowed THEN before + 1 ELSE before
  BY DEF Allow
<1>2. /\ room \in [Identities -> Entry]
      /\ \A k \in Identities : room[k] \in {entries[k], NoEntry}
      /\ \A k \in keys : room[k].attempts > 0 => entries[k].resetAt > now
      /\ \A k \in Identities :
           /\ entries[k].resetAt > now /\ entries[k].attempts > 0
           /\ room[k].attempts = 0
           => Cardinality(Present(entries) \cup keys) > MaxEntries
      /\ IsFiniteSet(Present(room) \cup keys)
      /\ Cardinality(Present(room) \cup keys) <= MaxEntries + 1
  BY <1>0, RoomMade DEF Identities
<1>3. /\ entries' \in [Identities -> Entry]
      /\ \A k \in Identities \ keys : entries'[k] = room[k]
      /\ \A k \in keys :
           /\ entries'[k].attempts > 0 /\ entries'[k].attempts <= Limit(k) + 1
           /\ entries'[k].attempts >= room[k].attempts
           /\ entries'[k].attempts <= Limit(k) => entries'[k].attempts = room[k].attempts + 1
           /\ entries'[k].resetAt = IF room[k].attempts = 0 THEN resetAt ELSE room[k].resetAt
      /\ Present(entries') = Present(room) \cup keys
  <2>1. entries' = Counted(room, keys)
    BY <1>1
  <2> HIDE DEF keys
  <2>2. QED
    BY <1>0, <1>2, <2>1, AttemptCounted
<1>4. TableBounded'
  BY <1>2, <1>3 DEF TableBounded, Present
<1>5. \A k \in Identities : Limit(k) \in Nat /\ EndsWindow(NoEntry.resetAt)
  <2>1. 0 * Window = 0
    BY LimiterConstants
  <2>2. QED
    BY <2>1, LimiterConstants DEF NoEntry, EndsWindow
<1>6. ASSUME NEW k \in Identities
      PROVE  entries'[k].attempts <= Limit(k) + 1 /\ EndsWindow(entries'[k].resetAt)
  <2>1. /\ room[k].attempts <= Limit(k) + 1 /\ EndsWindow(room[k].resetAt)
    <3>1. CASE room[k] = entries[k]
      BY <1>0, <3>1 DEF LimiterType
    <3>2. CASE room[k] = NoEntry
      BY <1>5, <3>2 DEF NoEntry
    <3>3. QED
      BY <1>2, <3>1, <3>2
  <2>2. QED
    BY <1>0, <1>3, <2>1
<1>7. PICK before \in {0, passed} :
        /\ passed' = IF account = Owner /\ allowed THEN before + 1 ELSE before
        /\ before = passed \/ before = 0
        /\ before # 0 => ~(/\ room[Owner].attempts = 0 /\ entries[Owner].resetAt > now
                           /\ Cardinality(Present(entries) \cup keys) > MaxEntries)
  BY <1>1
<1>8. passed' \in Nat
  BY <1>0, <1>7
<1>9. LimiterType'
  BY <1>0, <1>3, <1>6, <1>8 DEF LimiterType, EndsWindow, Limit
<1>10. Owner \in Identities /\ Limit(Owner) = AccountLimit /\ AccountLimit \in Nat \ {0}
  BY LimiterConstants
<1>11. PICK a \in Nat, b \in Nat, c \in Nat :
         a = entries[Owner].attempts /\ b = room[Owner].attempts /\ c = entries'[Owner].attempts
  BY <1>0, <1>2, <1>3, <1>10 DEF Entry, LimiterType

\* A count that goes on is that of the entry that was kept.
<1>12. ASSUME before > 0
       PROVE  /\ b > 0 /\ before <= b /\ room[Owner] = entries[Owner]
              /\ entries[Owner].resetAt > now /\ before <= AccountLimit
  <2>1. before = passed /\ passed <= AccountLimit /\ entries[Owner].resetAt > now /\ passed <= a
    BY <1>0, <1>7, <1>11, <1>12 DEF LimiterInv, PassedCounted
  <2>2. a > 0
    BY <1>12, <2>1
  <2>3. b # 0
    BY <1>2, <1>7, <1>10, <1>11, <1>12, <2>1, <2>2
  <2>4. room[Owner] = entries[Owner]
    BY <1>2, <1>10, <1>11, <2>3 DEF NoEntry
  <2>5. QED
    BY <1>11, <2>1, <2>3, <2>4
<1>13. b > 0 => c >= b /\ entries'[Owner].resetAt = room[Owner].resetAt
  BY <1>3, <1>10, <1>11
<1>14. CASE account = Owner /\ allowed
  <2>1. Owner \in keys
    BY <1>14
  <2>2. c <= AccountLimit /\ c = b + 1 /\ c > 0
    BY <1>1, <1>3, <1>10, <1>11, <1>14, <2>1
  <2>3. entries'[Owner].resetAt > now
    <3>1. CASE b = 0
      BY <1>0, <1>3, <1>11, <2>1, <3>1
    <3>2. CASE b > 0
      <4>1. entries[Owner].resetAt > now /\ room[Owner] = entries[Owner]
        BY <1>2, <1>10, <1>11, <2>1, <3>2 DEF NoEntry
      <4>2. QED
        BY <1>13, <3>2, <4>1
    <3>3. QED
      BY <3>1, <3>2
  <2>4. before + 1 <= c
    <3>1. CASE before = 0
      BY <2>2, <3>1
    <3>2. CASE before > 0
      BY <1>0, <1>7, <1>12, <2>2, <3>2
    <3>3. QED
      BY <1>0, <1>7, <3>1, <3>2
  <2>5. passed' = before + 1 /\ before \in Nat
    BY <1>0, <1>7, <1>14
  <2>6. QED
    BY <1>4, <1>9, <1>10, <1>11, <2>2, <2>3, <2>4, <2>5 DEF LimiterInv, PassedCounted
<1>15. CASE ~(account = Owner /\ allowed)
  <2>1. passed' = before /\ before \in Nat
    BY <1>0, <1>7, <1>15
  <2>2. CASE before = 0
    BY <1>4, <1>9, <1>10, <2>1, <2>2 DEF LimiterInv, PassedCounted
  <2>3. CASE before > 0
    <3>1. entries'[Owner].resetAt > now /\ before <= c /\ before <= AccountLimit
      BY <1>12, <1>13, <2>1, <2>3
    <3>2. QED
      BY <1>4, <1>9, <1>11, <2>1, <3>1 DEF LimiterInv, PassedCounted
  <2>4. QED
    BY <2>1, <2>2, <2>3
<1>16. QED
  BY <1>14, <1>15

\* The clock keeps the invariant: the count of a window ends with its entry.
LEMMA TickKeepsLimiter ==
    ASSUME LimiterInv, Tick
    PROVE  LimiterInv'
<1>0. /\ LimiterType /\ now \in Nat /\ MaxTime \in Nat /\ now < MaxTime /\ now' = now + 1
      /\ entries' = entries /\ passed \in Nat /\ AccountLimit \in Nat /\ Owner \in Identities
      /\ passed' = IF now' % Window = 0 THEN 0 ELSE passed
  BY LimiterConstants DEF LimiterInv, LimiterType, Tick
<1>1. passed' \in {0, passed}
  BY <1>0
<1>2. LimiterType'
  BY <1>0, <1>1 DEF LimiterType, EndsWindow, Limit
<1>3. TableBounded'
  BY <1>0 DEF LimiterInv, TableBounded, Present
<1>4. PassedCounted'
  <2>1. CASE passed' = 0
    BY <1>0, <2>1 DEF PassedCounted
  <2>2. CASE passed' # 0
    <3>1. passed' = passed /\ passed > 0 /\ now' % Window # 0
      BY <1>0, <2>2
    <3>2. PICK t \in Nat : t = entries[Owner].resetAt
      BY <1>0 DEF LimiterType, Entry
    <3>3. t > now /\ EndsWindow(t) /\ passed <= AccountLimit /\ passed <= entries[Owner].attempts
      BY <1>0, <3>1, <3>2 DEF LimiterInv, PassedCounted, LimiterType
    <3>4. t # now + 1
      BY <1>0, <3>1, <3>3, EndIsReset
    <3>5. QED
      BY <1>0, <3>1, <3>2, <3>3, <3>4 DEF PassedCounted
  <2>3. QED
    BY <2>1, <2>2
<1>5. QED
  BY <1>2, <1>3, <1>4 DEF LimiterInv

\* The limiter starts empty.
LEMMA LimiterInvInit == SessionInit => LimiterInv
<1> SUFFICES ASSUME SessionInit PROVE LimiterInv
  OBVIOUS
<1>1. now = 1 /\ passed = 0 /\ entries = [k \in Identities |-> NoEntry]
  BY DEF SessionInit
<1>2. NoEntry \in Entry /\ NoEntry.attempts = 0 /\ NoEntry.resetAt = 0
  BY DEF NoEntry, Entry
<1>3. EndsWindow(0)
  <2>1. 0 * Window = 0
    BY LimiterConstants
  <2>2. QED
    BY <2>1 DEF EndsWindow
<1>4. LimiterType
  BY <1>1, <1>2, <1>3, LimiterConstants DEF LimiterType
<1>5. Present(entries) = {}
  BY <1>1, <1>2 DEF Present
<1>6. IsFiniteSet({}) /\ Cardinality({}) = 0 /\ MaxEntries \in Nat
  BY FS_EmptySet, SessionAssumption
<1>7. TableBounded
  BY <1>5, <1>6 DEF TableBounded
<1>8. QED
  BY <1>1, <1>4, <1>7, LimiterConstants DEF LimiterInv, PassedCounted

\* Only an attempt to log in and the clock touch the limiter.
LEMMA LimiterInvNext ==
    ASSUME LimiterInv, [SessionNext]_vars
    PROVE  LimiterInv'
<1>1. CASE UNCHANGED <<now, entries, passed>>
  BY <1>1 DEF LimiterInv, LimiterType, TableBounded, PassedCounted, Present, EndsWindow, Limit
<1>2. CASE Tick
  BY <1>2, TickKeepsLimiter
<1>3. ASSUME NEW r \in Requests, NEW account \in Accounts, NEW password \in Passwords,
             NEW address \in Addresses, NEW previous \in 0..Len(session),
             Login(r, account, password, address, previous)
      PROVE  LimiterInv'
  BY <1>3, AllowKeeps DEF Login
<1>4. ASSUME NEW r \in Requests,
             \/ createLoginSession(r) \/ \E i \in DOMAIN session : Authenticate(r, i)
             \/ currentSession(r) \/ Logout(r) \/ LogoutAll(r)
             \/ \E p \in Passwords : \/ ChangePassword(r, p) \/ PasswordChanged(r, p)
                                     \/ AdminResetPassword(r, p)
             \/ BeginTOTP(r)
             \/ \E code \in TotpCodes : ConfirmTOTP(r, code) \/ VerifyTOTP(r, code)
             \/ \E code \in codes : VerifyRecovery(r, code)
             \/ RegenerateRecoveryCodes(r)
      PROVE  UNCHANGED <<now, entries, passed>>
  BY <1>4 DEF createLoginSession, Authenticate, currentSession, Logout, LogoutAll,
     ChangePassword, PasswordChanged, AdminResetPassword, updatePassword, BeginTOTP,
     ConfirmTOTP, VerifyTOTP, VerifyRecovery, RegenerateRecoveryCodes
<1>5. ASSUME NEW p \in Passwords, LocalResetPassword(p)
      PROVE  UNCHANGED <<now, entries, passed>>
  BY <1>5 DEF LocalResetPassword, updatePassword
<1>6. CASE UNCHANGED vars
  BY <1>1, <1>6 DEF vars
<1>7. QED
  BY <1>1, <1>2, <1>3, <1>4, <1>5, <1>6 DEF SessionNext

\* The invariant of the limiter is one.
LEMMA LimiterInvAlways == SessionSpec => []LimiterInv
<1>1. LimiterInv /\ [SessionNext]_vars => LimiterInv'
  BY LimiterInvNext
<1>2. QED
  BY <1>1, LimiterInvInit, PTL DEF SessionSpec

\* For any accounts, addresses, limits, windows and table sizes, and whatever the
\* table evicts: in one window no more attempts on an account reach its password
\* than its limit, counted from its last eviction (LoginLimiter.Allow).
THEOREM AttemptsStayLimited == SessionSpec => []AttemptsLimited
<1>1. LimiterInv => AttemptsLimited
  BY DEF LimiterInv, PassedCounted, AttemptsLimited
<1>2. QED
  BY <1>1, LimiterInvAlways, PTL

-----------------------------------------------------------------------------
(* Session: the inductive invariant of sessions and codes *)

\* What a session can be opened by.
By == {<<"password">>} \cup TotpCodes \cup ({"recovery"} \X Nat \X RecoveryCodes)

\* A row of user_sessions.
SessionRow ==
    [revoked : BOOLEAN, verified : BOOLEAN, expires : Nat, by : By, after : Nat]

\* A request under way.
RequestState ==
    {Idle} \cup {[pc |-> "change"]}
      \cup [pc : {"issue"}, password : Passwords, rehash : BOOLEAN, previous : Nat,
            expires : Nat]
      \cup [pc : {"act"}, session : Nat, enabled : BOOLEAN, verified : BOOLEAN]

\* The row of the second factor.
FactorRow == [id : 0..MaxFactors, enabled : BOOLEAN, last : 0..(MaxTime + 1)]

\* The types of the tables and of the requests.
TablesType ==
    /\ user \in [password : Passwords, older : BOOLEAN]
    /\ session \in Seq(SessionRow)
    /\ factor \in FactorRow
    /\ generation \in Nat
    /\ codes \subseteq (1..generation) \X RecoveryCodes
    /\ request \in [Requests -> RequestState]
    /\ requests \in 0..MaxRequests
    /\ revocations \in Nat

\* A TOTP code that is not accepted any more: of an earlier factor, or of a counter
\* that is not later than the last one accepted.
SpentTotp(by) ==
    \E n \in 1..factor.id, c \in Nat :
        by = <<"totp", n, c>> /\ (n = factor.id => c <= factor.last)

\* A recovery code that was issued and is consumed or replaced.
SpentRecovery(by) ==
    \E g \in 1..generation, c \in RecoveryCodes :
        by = <<"recovery", g, c>> /\ <<g, c>> \notin codes

\* What opened a session opens no other, passwords apart.
Spent(by) == by = <<"password">> \/ SpentTotp(by) \/ SpentRecovery(by)

\* The invariant of sessions and codes.
CodesInv ==
    /\ TablesType
    /\ \A i \in DOMAIN session : Spent(session[i].by)
    /\ CodeUsedOnce
    /\ OnlyNewestCodes
    /\ RevocationIsComplete

\* The codes are no longer accepted once they are spent.
CodesMove ==
    /\ \/ factor'.id = factor.id /\ factor'.last >= factor.last
       \/ factor'.id = factor.id + 1
    /\ generation' \in Nat /\ generation' >= generation
    /\ \A g \in 1..generation, c \in RecoveryCodes : <<g, c>> \in codes' => <<g, c>> \in codes

\* What is spent stays spent.
LEMMA SpentStays ==
    ASSUME TablesType, TablesType', CodesMove, NEW by, Spent(by)
    PROVE  Spent(by)'
<1>0. /\ factor.id \in Nat /\ factor.last \in Nat /\ factor'.id \in Nat /\ factor'.last \in Nat
      /\ generation \in Nat /\ generation' \in Nat
  BY SessionAssumption DEF TablesType, FactorRow
<1>1. CASE by = <<"password">>
  BY <1>1 DEF Spent
<1>2. CASE SpentTotp(by)
  <2>1. PICK n \in 1..factor.id, c \in Nat :
          by = <<"totp", n, c>> /\ (n = factor.id => c <= factor.last)
    BY <1>2 DEF SpentTotp
  <2>2. n \in 1..factor'.id /\ (n = factor'.id => c <= factor'.last)
    BY <1>0, <2>1 DEF CodesMove
  <2>3. QED
    BY <2>1, <2>2 DEF Spent, SpentTotp
<1>3. CASE SpentRecovery(by)
  <2>1. PICK g \in 1..generation, c \in RecoveryCodes :
          by = <<"recovery", g, c>> /\ <<g, c>> \notin codes
    BY <1>3 DEF SpentRecovery
  <2>2. g \in 1..generation' /\ <<g, c>> \notin codes'
    BY <1>0, <2>1 DEF CodesMove
  <2>3. QED
    BY <2>1, <2>2 DEF Spent, SpentRecovery
<1>4. QED
  BY <1>1, <1>2, <1>3 DEF Spent

\* Revoking keeps everything else of a session.
LEMMA RevokedRows ==
    ASSUME session \in Seq(SessionRow), NEW j
    PROVE  /\ RevokedOne(j) \in Seq(SessionRow) /\ Len(RevokedOne(j)) = Len(session)
           /\ RevokedAll \in Seq(SessionRow) /\ Len(RevokedAll) = Len(session)
           /\ \A i \in DOMAIN session :
                /\ RevokedOne(j)[i].by = session[i].by
                /\ RevokedOne(j)[i].after = session[i].after
                /\ ~RevokedOne(j)[i].revoked => ~session[i].revoked
                /\ RevokedAll[i].by = session[i].by /\ RevokedAll[i].revoked
<1>1. DOMAIN session = 1..Len(session) /\ Len(session) \in Nat
  OBVIOUS
<1>2. ASSUME NEW i \in DOMAIN session
      PROVE  /\ session[i] \in SessionRow
             /\ [session[i] EXCEPT !.revoked = TRUE] \in SessionRow
             /\ [session[i] EXCEPT !.revoked = TRUE].by = session[i].by
             /\ [session[i] EXCEPT !.revoked = TRUE].after = session[i].after
             /\ [session[i] EXCEPT !.revoked = TRUE].revoked = TRUE
  <2>1. session[i] \in SessionRow
    BY <1>1
  <2>2. QED
    BY <2>1 DEF SessionRow
<1>3. /\ \A i \in 1..Len(session) : RevokedOne(j)[i] =
           IF i = j THEN [session[i] EXCEPT !.revoked = TRUE] ELSE session[i]
      /\ \A i \in 1..Len(session) : RevokedAll[i] = [session[i] EXCEPT !.revoked = TRUE]
  BY <1>1 DEF RevokedOne, RevokedAll
<1>4. RevokedOne(j) \in [1..Len(session) -> SessionRow]
  BY <1>1, <1>2 DEF RevokedOne
<1>5. RevokedAll \in [1..Len(session) -> SessionRow]
  BY <1>1, <1>2 DEF RevokedAll
<1>6. /\ RevokedOne(j) \in Seq(SessionRow) /\ Len(RevokedOne(j)) = Len(session)
      /\ RevokedAll \in Seq(SessionRow) /\ Len(RevokedAll) = Len(session)
  BY <1>1, <1>4, <1>5
<1>7. ASSUME NEW i \in DOMAIN session
      PROVE  /\ RevokedOne(j)[i].by = session[i].by
             /\ RevokedOne(j)[i].after = session[i].after
             /\ ~RevokedOne(j)[i].revoked => ~session[i].revoked
             /\ RevokedAll[i].by = session[i].by /\ RevokedAll[i].revoked
  BY <1>1, <1>2, <1>3
<1>8. QED
  BY <1>6, <1>7

\* A session that is opened by a password, or by a code that was not spent and is
\* now, in the place of another one.
LEMMA OpenedKeeps ==
    ASSUME CodesInv, TablesType', CodesMove, OnlyNewestCodes',
           NEW j, NEW verified, NEW by, NEW expires,
           session' = Append(RevokedOne(j), NewSession(verified, by, expires)),
           NewSession(verified, by, expires) \in SessionRow,
           by = <<"password">> \/ ~Spent(by), Spent(by)',
           revocations' = revocations
    PROVE  CodesInv'
<1> DEFINE old == RevokedOne(j)
           row == NewSession(verified, by, expires)
<1>0. session \in Seq(SessionRow) /\ TablesType /\ Len(session) \in Nat
  BY DEF CodesInv, TablesType
<1>1. /\ old \in Seq(SessionRow) /\ Len(old) = Len(session)
      /\ \A i \in DOMAIN session :
           /\ old[i].by = session[i].by /\ old[i].after = session[i].after
           /\ ~old[i].revoked => ~session[i].revoked
  BY <1>0, RevokedRows
<1>2. row.by = by /\ row.after = revocations
  BY DEF NewSession
<1> HIDE DEF old, row
<1>3. /\ DOMAIN session' = 1..(Len(session) + 1) /\ DOMAIN session = 1..Len(session)
      /\ session'[Len(session) + 1] = row
      /\ \A i \in 1..Len(session) : session'[i] = old[i]
  BY <1>0, <1>1 DEF old, row
<1>4. ASSUME NEW i \in DOMAIN session', i # Len(session) + 1
      PROVE  /\ i \in DOMAIN session /\ session'[i].by = session[i].by
             /\ session'[i].after = session[i].after
             /\ ~session'[i].revoked => ~session[i].revoked
  <2>1. i \in 1..Len(session)
    BY <1>0, <1>3, <1>4
  <2>2. QED
    BY <1>1, <1>3, <2>1
<1>5. ASSUME NEW i \in DOMAIN session' PROVE Spent(session[i].by)'
  <2>1. CASE i = Len(session) + 1
    <3>1. session'[i].by = by
      BY <1>2, <1>3, <2>1
    <3>2. QED
      BY <3>1 DEF Spent, SpentTotp, SpentRecovery
  <2>2. CASE i # Len(session) + 1
    <3>1. Spent(session[i].by) /\ session'[i].by = session[i].by
      BY <1>4, <2>2 DEF CodesInv
    <3>2. PICK b : b = session[i].by
      OBVIOUS
    <3>3. Spent(b)'
      BY <1>0, <3>1, <3>2, SpentStays
    <3>4. session'[i].by = b
      BY <3>1, <3>2
    <3>5. QED
      BY <3>3, <3>4 DEF Spent, SpentTotp, SpentRecovery
  <2>3. QED
    BY <2>1, <2>2
<1>6. ASSUME NEW i \in DOMAIN session', i # Len(session) + 1, session'[i].by = by
      PROVE  by = <<"password">>
  BY <1>4, <1>6 DEF CodesInv
<1>7. CodeUsedOnce'
  <2> SUFFICES ASSUME NEW i \in DOMAIN session', NEW k \in DOMAIN session', i # k,
                      session'[i].by = session'[k].by
               PROVE  session'[i].by = <<"password">>
    BY DEF CodeUsedOnce
  <2>1. CASE i = Len(session) + 1
    BY <1>2, <1>3, <1>6, <2>1
  <2>2. CASE k = Len(session) + 1
    BY <1>2, <1>3, <1>6, <2>2
  <2>3. CASE i # Len(session) + 1 /\ k # Len(session) + 1
    BY <1>4, <2>3 DEF CodesInv, CodeUsedOnce
  <2>4. QED
    BY <2>1, <2>2, <2>3
<1>8. RevocationIsComplete'
  <2> SUFFICES ASSUME NEW i \in DOMAIN session', ~session'[i].revoked
               PROVE  session'[i].after = revocations'
    BY DEF RevocationIsComplete
  <2>1. CASE i = Len(session) + 1
    BY <1>2, <1>3, <2>1
  <2>2. CASE i # Len(session) + 1
    BY <1>4, <2>2 DEF CodesInv, RevocationIsComplete
  <2>3. QED
    BY <2>1, <2>2
<1>9. QED
  BY <1>5, <1>7, <1>8 DEF CodesInv

\* A step that opens no session, and revokes some or none.
LEMMA NoneOpenedKeeps ==
    ASSUME CodesInv, TablesType', CodesMove, OnlyNewestCodes',
           DOMAIN session' = DOMAIN session,
           \A i \in DOMAIN session :
              /\ session'[i].by = session[i].by
              /\ ~session'[i].revoked =>
                    /\ ~session[i].revoked /\ session'[i].after = session[i].after
                    /\ revocations' = revocations
    PROVE  CodesInv'
<1>1. ASSUME NEW i \in DOMAIN session' PROVE Spent(session[i].by)'
  <2>1. PICK b : b = session[i].by /\ b = session'[i].by /\ Spent(b)
    BY DEF CodesInv
  <2>2. Spent(b)'
    BY <2>1, SpentStays DEF CodesInv
  <2>3. QED
    BY <2>1, <2>2 DEF Spent, SpentTotp, SpentRecovery
<1>2. CodeUsedOnce'
  BY DEF CodesInv, CodeUsedOnce
<1>3. RevocationIsComplete'
  BY DEF CodesInv, RevocationIsComplete
<1>4. QED
  BY <1>1, <1>2, <1>3 DEF CodesInv

\* A step that leaves factor and codes alone.
LEMMA CodesKept ==
    ASSUME CodesInv, UNCHANGED <<factor, codes, generation>>
    PROVE  CodesMove /\ OnlyNewestCodes'
<1>1. factor.last \in Nat /\ generation \in Nat
  BY SessionAssumption DEF CodesInv, TablesType, FactorRow
<1>2. QED
  BY <1>1 DEF CodesInv, CodesMove, OnlyNewestCodes

\* The state of a request that has been authenticated, and of one that logs in.
LEMMA RequestFields ==
    ASSUME CodesInv, NEW r \in Requests
    PROVE  /\ request[r].pc = "act" =>
                /\ request[r].session \in Nat /\ request[r].enabled \in BOOLEAN
                /\ request[r].verified \in BOOLEAN
           /\ request[r].pc = "issue" =>
                /\ request[r].password \in Passwords /\ request[r].rehash \in BOOLEAN
                /\ request[r].previous \in Nat /\ request[r].expires \in Nat
<1>1. request[r] \in RequestState
  BY DEF CodesInv, TablesType
<1>2. QED
  BY <1>1 DEF RequestState, Idle

\* A request goes on, or ends.
LEMMA RequestGoesOn ==
    ASSUME CodesInv, NEW r \in Requests, NEW q \in RequestState,
           request' = [request EXCEPT ![r] = q]
    PROVE  request' \in [Requests -> RequestState]
BY DEF CodesInv, TablesType

\* Requests that only read change no table.
LEMMA ReadsKeep ==
    ASSUME CodesInv, UNCHANGED <<user, session, factor, codes, generation, revocations>>,
           request' \in [Requests -> RequestState], requests' \in 0..MaxRequests
    PROVE  CodesInv'
<1>1. TablesType'
  BY DEF CodesInv, TablesType
<1>2. CodesMove /\ OnlyNewestCodes'
  BY CodesKept
<1>3. QED
  BY <1>1, <1>2, NoneOpenedKeeps

\* An idle request and one that changes a password are states of a request.
LEMMA SimpleStates == Idle \in RequestState /\ [pc |-> "change"] \in RequestState
BY DEF RequestState

\* The start of a request is counted.
LEMMA BeginCounts ==
    ASSUME CodesInv, Begin
    PROVE  requests' \in 0..MaxRequests
BY SessionAssumption DEF CodesInv, TablesType, Begin

\* Login, up to the check of the password.
LEMMA LoginKeeps ==
    ASSUME CodesInv, LimiterInv, NEW r \in Requests, NEW account, NEW password \in Passwords,
           NEW address, NEW previous \in 0..Len(session),
           Login(r, account, password, address, previous)
    PROVE  CodesInv'
<1>1. /\ user.older \in BOOLEAN /\ previous \in Nat /\ now + SessionTTL \in Nat
  BY SessionAssumption DEF CodesInv, TablesType, LimiterInv, LimiterType
<1> DEFINE issue == [pc |-> "issue", password |-> password, rehash |-> user.older,
                     previous |-> previous, expires |-> now + SessionTTL]
<1>2. issue \in RequestState
  BY <1>1 DEF RequestState
<1>3. PICK q \in {issue, Idle} : request' = [request EXCEPT ![r] = q]
  BY DEF Login
<1>4. request' \in [Requests -> RequestState]
  <2> HIDE DEF issue
  <2>1. q \in RequestState
    BY <1>2, SimpleStates
  <2>2. QED
    BY <1>3, <2>1, RequestGoesOn
<1>5. QED
  BY <1>4, BeginCounts, ReadsKeep DEF Login

\* findSession.
LEMMA AuthenticateKeeps ==
    ASSUME CodesInv, NEW r \in Requests, NEW i \in DOMAIN session, Authenticate(r, i)
    PROVE  CodesInv'
<1>1. session[i].verified \in BOOLEAN /\ factor.enabled \in BOOLEAN /\ i \in Nat
  <2>1. session[i] \in SessionRow /\ i \in Nat
    BY DEF CodesInv, TablesType
  <2>2. QED
    BY <2>1 DEF SessionRow, CodesInv, TablesType, FactorRow
<1> DEFINE q == [pc |-> "act", session |-> i, enabled |-> factor.enabled,
                 verified |-> session[i].verified]
<1>2. q \in RequestState
  BY <1>1 DEF RequestState
<1>3. request' = [request EXCEPT ![r] = q]
  BY DEF Authenticate
<1> HIDE DEF q
<1>4. request' \in [Requests -> RequestState]
  BY <1>2, <1>3, RequestGoesOn
<1>5. QED
  BY <1>4, BeginCounts, ReadsKeep DEF Authenticate

\* Steps of a request that write nothing.
LEMMA QuietKeeps ==
    ASSUME CodesInv, NEW r \in Requests,
           currentSession(r) \/ \E p \in Passwords : ChangePassword(r, p)
    PROVE  CodesInv'
<1>1. PICK q \in {Idle, [pc |-> "change"]} : request' = [request EXCEPT ![r] = q]
  BY DEF currentSession, Acts, ChangePassword
<1>2. request' \in [Requests -> RequestState]
  BY <1>1, SimpleStates, RequestGoesOn
<1>3. requests' \in 0..MaxRequests
  BY DEF CodesInv, TablesType, currentSession, ChangePassword
<1>4. QED
  BY <1>2, <1>3, ReadsKeep DEF currentSession, ChangePassword

\* Logout revokes the session of the request.
LEMMA LogoutKeeps ==
    ASSUME CodesInv, NEW r \in Requests, Logout(r)
    PROVE  CodesInv'
<1> DEFINE j == request[r].session
<1>0. session \in Seq(SessionRow)
  BY DEF CodesInv, TablesType
<1>1. session' = RevokedOne(j)
  BY DEF Logout
<1> HIDE DEF j
<1>2. /\ session' \in Seq(SessionRow) /\ Len(session') = Len(session)
      /\ \A i \in DOMAIN session :
           /\ session'[i].by = session[i].by /\ session'[i].after = session[i].after
           /\ ~session'[i].revoked => ~session[i].revoked
  BY <1>0, <1>1, RevokedRows
<1>3. DOMAIN session' = DOMAIN session
  BY <1>0, <1>2
<1>4. request' \in [Requests -> RequestState]
  BY SimpleStates, RequestGoesOn DEF Logout, Acts
<1>5. TablesType'
  BY <1>2, <1>4 DEF CodesInv, TablesType, Logout
<1>6. CodesMove /\ OnlyNewestCodes'
  BY CodesKept DEF Logout
<1>7. revocations' = revocations
  BY DEF Logout
<1>8. QED
  BY <1>2, <1>3, <1>5, <1>6, <1>7, NoneOpenedKeeps

\* Every session is revoked, with or without a new password.
LEMMA RevokeAllKeeps ==
    ASSUME CodesInv, revokeAllSessions, UNCHANGED <<factor, codes, generation>>,
           user' \in [password : Passwords, older : BOOLEAN],
           request' \in [Requests -> RequestState], requests' \in 0..MaxRequests
    PROVE  CodesInv'
<1>0. session \in Seq(SessionRow) /\ revocations \in Nat
  BY DEF CodesInv, TablesType
<1>1. session' = RevokedAll /\ revocations' = revocations + 1
  BY DEF revokeAllSessions
<1>2. /\ session' \in Seq(SessionRow) /\ Len(session') = Len(session)
      /\ \A i \in DOMAIN session : session'[i].by = session[i].by /\ session'[i].revoked
  BY <1>0, <1>1, RevokedRows
<1>3. DOMAIN session' = DOMAIN session
  BY <1>0, <1>2
<1>4. TablesType'
  BY <1>0, <1>1, <1>2 DEF CodesInv, TablesType
<1>5. CodesMove /\ OnlyNewestCodes'
  BY CodesKept
<1>6. QED
  BY <1>2, <1>3, <1>4, <1>5, NoneOpenedKeeps

\* LogoutAll and the changes of a password revoke every session.
LEMMA RevocationsKeep ==
    ASSUME CodesInv, NEW r \in Requests,
           LogoutAll(r) \/ \E p \in Passwords : PasswordChanged(r, p) \/ AdminResetPassword(r, p)
    PROVE  CodesInv'
<1>1. request' = [request EXCEPT ![r] = Idle]
  BY DEF LogoutAll, ActsInFull, Acts, PasswordChanged, AdminResetPassword
<1>2. request' \in [Requests -> RequestState]
  BY <1>1, SimpleStates, RequestGoesOn
<1>3. /\ user' \in [password : Passwords, older : BOOLEAN]
      /\ requests' \in 0..MaxRequests
  <2>1. user \in [password : Passwords, older : BOOLEAN] /\ requests \in 0..MaxRequests
    BY DEF CodesInv, TablesType
  <2>2. requests' = requests
    BY DEF LogoutAll, PasswordChanged, AdminResetPassword
  <2>3. user' = user \/ \E p \in Passwords : user' = [password |-> p, older |-> FALSE]
    BY DEF LogoutAll, PasswordChanged, AdminResetPassword, updatePassword
  <2>4. CASE user' = user
    BY <2>1, <2>2, <2>4
  <2>5. CASE \E p \in Passwords : user' = [password |-> p, older |-> FALSE]
    <3>1. PICK p \in Passwords : user' = [password |-> p, older |-> FALSE]
      BY <2>5
    <3>2. QED
      BY <2>1, <2>2, <3>1
  <2>6. QED
    BY <2>3, <2>4, <2>5
<1>4. revokeAllSessions /\ UNCHANGED <<factor, codes, generation>>
  BY DEF LogoutAll, PasswordChanged, AdminResetPassword, updatePassword
<1>5. QED
  BY <1>2, <1>3, <1>4, RevokeAllKeeps

\* The command line resets a password.
LEMMA LocalResetKeeps ==
    ASSUME CodesInv, NEW p \in Passwords, LocalResetPassword(p)
    PROVE  CodesInv'
<1>1. /\ user' \in [password : Passwords, older : BOOLEAN]
      /\ request' \in [Requests -> RequestState]
  BY DEF CodesInv, TablesType, LocalResetPassword, updatePassword
<1>2. QED
  BY <1>1, BeginCounts, RevokeAllKeeps DEF LocalResetPassword, updatePassword

\* A row that insertSession writes.
LEMMA NewRow ==
    ASSUME CodesInv, NEW verified \in BOOLEAN, NEW by \in By, NEW expires \in Nat
    PROVE  NewSession(verified, by, expires) \in SessionRow
BY DEF NewSession, SessionRow, CodesInv, TablesType

\* The end of a session in the place of another one is a table of sessions.
LEMMA ReplacedType ==
    ASSUME CodesInv, NEW j, NEW row \in SessionRow
    PROVE  Append(RevokedOne(j), row) \in Seq(SessionRow)
<1>1. RevokedOne(j) \in Seq(SessionRow)
  BY RevokedRows DEF CodesInv, TablesType
<1>2. QED
  BY <1>1

\* createLoginSession.
LEMMA createLoginSessionKeeps ==
    ASSUME CodesInv, NEW r \in Requests, createLoginSession(r)
    PROVE  CodesInv'
<1>0. /\ request[r].password \in Passwords /\ request[r].rehash \in BOOLEAN
      /\ request[r].expires \in Nat
  BY RequestFields DEF createLoginSession
<1> DEFINE row == NewSession(FALSE, <<"password">>, request[r].expires)
<1>1. row \in SessionRow
  <2>1. <<"password">> \in By
    BY DEF By
  <2>2. QED
    BY <1>0, <2>1, NewRow
<1>2. session' = Append(RevokedOne(request[r].previous), row)
  BY DEF createLoginSession
<1>3. request' \in [Requests -> RequestState]
  BY SimpleStates, RequestGoesOn DEF createLoginSession
<1>4. user' \in [password : Passwords, older : BOOLEAN]
  BY <1>0 DEF CodesInv, TablesType, createLoginSession
<1>5. session' \in Seq(SessionRow)
  <2> HIDE DEF row
  <2>1. QED
    BY <1>1, <1>2, ReplacedType
<1>6. TablesType'
  BY <1>3, <1>4, <1>5 DEF CodesInv, TablesType, createLoginSession
<1>7. CodesMove /\ OnlyNewestCodes'
  BY CodesKept DEF createLoginSession
<1>8. revocations' = revocations /\ Spent(<<"password">>)'
  BY DEF createLoginSession, Spent
<1>9. PICK j, x, b : j = request[r].previous /\ x = request[r].expires /\ b = <<"password">>
  OBVIOUS
<1>10. /\ session' = Append(RevokedOne(j), NewSession(FALSE, b, x))
       /\ NewSession(FALSE, b, x) \in SessionRow /\ Spent(b)'
  BY <1>1, <1>2, <1>8, <1>9 DEF Spent
<1>11. QED
  BY <1>6, <1>7, <1>8, <1>9, <1>10, OpenedKeeps

\* The parts of a TOTP code.
LEMMA TotpParts ==
    ASSUME NEW code \in TotpCodes
    PROVE  /\ code \in By /\ code = <<"totp", code[2], code[3]>>
           /\ code[2] \in 1..MaxFactors /\ code[3] \in 1..(MaxTime + 1) /\ code[3] \in Nat
BY SessionAssumption DEF TotpCodes, By

\* A TOTP code that is accepted was not spent, and is afterwards.
LEMMA AcceptedTotp ==
    ASSUME CodesInv, NEW code \in TotpCodes, validateTOTP(code), factor.id > 0,
           factor'.id = factor.id, factor'.last = code[3]
    PROVE  ~Spent(code) /\ Spent(code)' /\ factor'.last \in 0..(MaxTime + 1)
           /\ factor'.last >= factor.last
<1>0. factor.id \in Nat /\ factor.last \in Nat /\ MaxTime \in Nat
  BY SessionAssumption DEF CodesInv, TablesType, FactorRow
<1>1. /\ code = <<"totp", code[2], code[3]>> /\ code[3] \in 1..(MaxTime + 1) /\ code[3] \in Nat
      /\ code[2] = factor.id /\ code[3] > factor.last
  BY TotpParts DEF validateTOTP
<1>2. PICK n \in Nat, c \in Nat : n = code[2] /\ c = code[3]
  BY <1>0, <1>1
<1>3. code = <<"totp", n, c>> /\ n = factor.id /\ c > factor.last
  BY <1>1, <1>2
<1>4. ~SpentTotp(code)
  <2> SUFFICES ASSUME NEW m \in 1..factor.id, NEW d \in Nat, code = <<"totp", m, d>>,
                      m = factor.id => d <= factor.last
               PROVE  FALSE
    BY DEF SpentTotp
  <2>1. m = n /\ d = c
    BY <1>3
  <2>2. QED
    BY <1>0, <1>3, <2>1
<1>5. ~SpentRecovery(code)
  <2> SUFFICES ASSUME NEW g, NEW d, code = <<"recovery", g, d>>
               PROVE  FALSE
    BY DEF SpentRecovery
  <2>1. code[1] = "totp" /\ code[1] = "recovery"
    BY <1>3
  <2>2. QED
    BY <2>1
<1>6. code # <<"password">>
  <2> SUFFICES ASSUME code = <<"password">> PROVE FALSE
    OBVIOUS
  <2>1. code[1] = "totp" /\ code[1] = "password"
    BY <1>3
  <2>2. QED
    BY <2>1
<1>7. Spent(code)'
  <2>1. n \in 1..factor'.id /\ (n = factor'.id => c <= factor'.last)
    BY <1>0, <1>1, <1>2, <1>3
  <2>2. QED
    BY <1>3, <2>1 DEF Spent, SpentTotp
<1>8. QED
  BY <1>0, <1>1, <1>4, <1>5, <1>6, <1>7 DEF Spent

\* Recovery codes that were issued after all others.
LEMMA FreshAreNew ==
    ASSUME CodesInv, codes' = FreshCodes, generation' = generation + 1
    PROVE  /\ generation' \in Nat /\ generation' >= generation
           /\ codes' \subseteq (1..generation') \X RecoveryCodes
           /\ \A g \in 1..generation, c \in RecoveryCodes :
                <<g, c>> \in codes' => <<g, c>> \in codes
           /\ OnlyNewestCodes'
<1>0. generation \in Nat
  BY DEF CodesInv, TablesType
<1>1. PICK n \in Nat : n = generation + 1
  BY <1>0
<1>2. codes' = {n} \X RecoveryCodes /\ generation' = n
  BY <1>1 DEF FreshCodes
<1>3. \A code \in codes' : code[1] = n /\ code[2] \in RecoveryCodes /\ code = <<code[1], code[2]>>
  BY <1>2
<1>4. codes' \subseteq (1..n) \X RecoveryCodes
  <2>1. n \in 1..n
    BY <1>0, <1>1
  <2>2. QED
    BY <1>2, <2>1
<1>5. ASSUME NEW g \in 1..generation, NEW c \in RecoveryCodes, <<g, c>> \in codes'
      PROVE  FALSE
  <2>1. g = n
    BY <1>2, <1>5
  <2>2. QED
    BY <1>0, <1>1, <2>1
<1>6. OnlyNewestCodes'
  BY <1>2, <1>3 DEF OnlyNewestCodes
<1>7. QED
  BY <1>0, <1>1, <1>2, <1>4, <1>5, <1>6

\* The end of rotateWithMFA.
LEMMA RotatedType ==
    ASSUME CodesInv, LimiterInv, NEW r \in Requests, Acts(r), NEW by \in By,
           session' = RotatedSession(r, by)
    PROVE  /\ session' \in Seq(SessionRow)
           /\ request' \in [Requests -> RequestState]
           /\ \E j, x : /\ session' = Append(RevokedOne(j), NewSession(TRUE, by, x))
                        /\ NewSession(TRUE, by, x) \in SessionRow
<1>1. PICK x \in Nat : x = now + SessionTTL
  BY SessionAssumption DEF LimiterInv, LimiterType
<1>2. NewSession(TRUE, by, x) \in SessionRow
  BY NewRow
<1>3. PICK j : j = request[r].session
  OBVIOUS
<1>4. session' = Append(RevokedOne(j), NewSession(TRUE, by, x))
  BY <1>1, <1>3 DEF RotatedSession
<1>5. session' \in Seq(SessionRow)
  BY <1>2, <1>4, ReplacedType
<1>6. request' \in [Requests -> RequestState]
  BY SimpleStates, RequestGoesOn DEF Acts
<1>7. QED
  BY <1>2, <1>4, <1>5, <1>6

\* The parts of a recovery code.
LEMMA RecoveryParts ==
    ASSUME CodesInv, NEW code \in codes
    PROVE  /\ code[1] \in 1..generation /\ code[2] \in RecoveryCodes
           /\ code = <<code[1], code[2]>>
           /\ <<"recovery">> \o code = <<"recovery", code[1], code[2]>>
           /\ <<"recovery">> \o code \in By
<1>1. /\ code[1] \in 1..generation /\ code[2] \in RecoveryCodes
      /\ code = <<code[1], code[2]>> /\ generation \in Nat
  BY DEF CodesInv, TablesType
<1>2. PICK g, c : g = code[1] /\ c = code[2] /\ code = <<g, c>>
  BY <1>1
<1>3. <<"recovery">> \o <<g, c>> = <<"recovery", g, c>>
  <2> DEFINE A == {"recovery", g, c}
             s == <<"recovery">>
             t == <<g, c>>
  <2>1. s \in Seq(A) /\ Len(s) = 1 /\ s[1] = "recovery"
    OBVIOUS
  <2>2. t \in Seq(A) /\ Len(t) = 2 /\ t[1] = g /\ t[2] = c
    OBVIOUS
  <2> DEFINE u == <<"recovery", g, c>>
  <2>3. u \in Seq(A) /\ Len(u) = 3 /\ u[1] = "recovery" /\ u[2] = g /\ u[3] = c
    OBVIOUS
  <2> HIDE DEF s, t, u, A
  <2>4. PICK v : v = s \o t
    OBVIOUS
  <2>5. /\ v \in Seq(A) /\ Len(v) = Len(s) + Len(t)
        /\ \A i \in 1 .. Len(s) + Len(t) : v[i] = IF i <= Len(s) THEN s[i] ELSE t[i - Len(s)]
    BY <2>1, <2>2, <2>4, ConcatProperties
  <2>6. Len(v) = 3 /\ v[1] = "recovery" /\ v[2] = g /\ v[3] = c
    BY <2>1, <2>2, <2>5
  <2>7. \A i \in 1 .. Len(v) : v[i] = u[i]
    BY <2>3, <2>6
  <2>8. v = u
    BY <2>3, <2>5, <2>6, <2>7, SeqEqual
  <2>9. QED
    BY <2>4, <2>8 DEF s, t, u
<1>4. <<"recovery", g, c>> \in {"recovery"} \X Nat \X RecoveryCodes
  BY <1>1, <1>2
<1>5. QED
  BY <1>1, <1>2, <1>3, <1>4 DEF By

\* BeginTOTP replaces a factor that was never enabled.
LEMMA BeginTOTPKeeps ==
    ASSUME CodesInv, NEW r \in Requests, BeginTOTP(r)
    PROVE  CodesInv'
<1>0. factor.id \in Nat /\ generation \in Nat /\ MaxFactors \in Nat
  BY SessionAssumption DEF CodesInv, TablesType, FactorRow
<1>1. /\ factor' = [id |-> factor.id + 1, enabled |-> FALSE, last |-> 0]
      /\ factor.id < MaxFactors /\ codes' = {} /\ generation' = generation
      /\ session' = session /\ revocations' = revocations /\ user' = user
      /\ requests' = requests
  BY DEF BeginTOTP
<1>2. request' \in [Requests -> RequestState]
  BY SimpleStates, RequestGoesOn DEF BeginTOTP, ActsInFull, Acts
<1>3. factor' \in FactorRow
  BY <1>0, <1>1, SessionAssumption DEF FactorRow
<1>4. TablesType'
  BY <1>1, <1>2, <1>3 DEF CodesInv, TablesType
<1>5. CodesMove /\ OnlyNewestCodes'
  BY <1>0, <1>1 DEF CodesMove, OnlyNewestCodes
<1>6. QED
  BY <1>1, <1>4, <1>5, NoneOpenedKeeps

\* ConfirmTOTP enables the factor and issues the first recovery codes.
LEMMA ConfirmTOTPKeeps ==
    ASSUME CodesInv, LimiterInv, NEW r \in Requests, NEW code \in TotpCodes,
           ConfirmTOTP(r, code)
    PROVE  CodesInv'
<1>0. /\ factor' = [factor EXCEPT !.enabled = TRUE, !.last = code[3]]
      /\ codes' = FreshCodes /\ generation' = generation + 1
      /\ session' = RotatedSession(r, code) /\ Acts(r)
      /\ user' = user /\ requests' = requests /\ revocations' = revocations
      /\ validateTOTP(code) /\ factor.id > 0 /\ factor \in FactorRow
  BY DEF ConfirmTOTP, ActsInFull, CodesInv, TablesType
<1>1. factor'.id = factor.id /\ factor'.last = code[3] /\ factor'.enabled = TRUE
  BY <1>0 DEF FactorRow
<1>2. ~Spent(code) /\ Spent(code)' /\ factor'.last \in 0..(MaxTime + 1) /\ factor'.last >= factor.last
  BY <1>0, <1>1, AcceptedTotp
<1>3. code \in By
  BY TotpParts
<1>4. /\ session' \in Seq(SessionRow) /\ request' \in [Requests -> RequestState]
      /\ \E j, x : /\ session' = Append(RevokedOne(j), NewSession(TRUE, code, x))
                   /\ NewSession(TRUE, code, x) \in SessionRow
  BY <1>0, <1>3, RotatedType
<1>5. /\ generation' \in Nat /\ generation' >= generation
      /\ codes' \subseteq (1..generation') \X RecoveryCodes
      /\ \A g \in 1..generation, c \in RecoveryCodes : <<g, c>> \in codes' => <<g, c>> \in codes
      /\ OnlyNewestCodes'
  BY <1>0, FreshAreNew
<1>6. factor' \in FactorRow
  BY <1>0, <1>1, <1>2 DEF FactorRow
<1>7. TablesType'
  BY <1>0, <1>4, <1>5, <1>6 DEF CodesInv, TablesType
<1>8. CodesMove
  BY <1>1, <1>2, <1>5 DEF CodesMove
<1>9. QED
  BY <1>0, <1>2, <1>4, <1>5, <1>7, <1>8, OpenedKeeps

\* VerifyTOTP.
LEMMA VerifyTOTPKeeps ==
    ASSUME CodesInv, LimiterInv, NEW r \in Requests, NEW code \in TotpCodes,
           VerifyTOTP(r, code)
    PROVE  CodesInv'
<1>0. /\ factor' = [factor EXCEPT !.last = code[3]]
      /\ codes' = codes /\ generation' = generation
      /\ session' = RotatedSession(r, code) /\ Acts(r)
      /\ user' = user /\ requests' = requests /\ revocations' = revocations
      /\ validateTOTP(code) /\ factor \in FactorRow /\ generation \in Nat
  BY DEF VerifyTOTP, CodesInv, TablesType
<1>1. factor'.id = factor.id /\ factor'.last = code[3] /\ factor'.enabled = factor.enabled
  BY <1>0 DEF FactorRow
<1>2. factor.id > 0
  BY <1>0, TotpParts DEF validateTOTP
<1>3. ~Spent(code) /\ Spent(code)' /\ factor'.last \in 0..(MaxTime + 1) /\ factor'.last >= factor.last
  BY <1>0, <1>1, <1>2, AcceptedTotp
<1>4. code \in By
  BY TotpParts
<1>5. /\ session' \in Seq(SessionRow) /\ request' \in [Requests -> RequestState]
      /\ \E j, x : /\ session' = Append(RevokedOne(j), NewSession(TRUE, code, x))
                   /\ NewSession(TRUE, code, x) \in SessionRow
  BY <1>0, <1>4, RotatedType
<1>6. factor' \in FactorRow
  BY <1>0, <1>1, <1>3 DEF FactorRow
<1>7. TablesType'
  BY <1>0, <1>5, <1>6 DEF CodesInv, TablesType
<1>8. CodesMove /\ OnlyNewestCodes'
  BY <1>0, <1>1, <1>3 DEF CodesMove, OnlyNewestCodes, CodesInv
<1>9. QED
  BY <1>0, <1>3, <1>5, <1>7, <1>8, OpenedKeeps

\* VerifyRecovery consumes its code.
LEMMA VerifyRecoveryKeeps ==
    ASSUME CodesInv, LimiterInv, NEW r \in Requests, NEW code \in codes,
           VerifyRecovery(r, code)
    PROVE  CodesInv'
<1> DEFINE by == <<"recovery">> \o code
<1>0. /\ codes' = codes \ {code} /\ factor' = factor /\ generation' = generation
      /\ session' = RotatedSession(r, by) /\ Acts(r)
      /\ user' = user /\ requests' = requests /\ revocations' = revocations
      /\ generation \in Nat /\ factor \in FactorRow
  BY DEF VerifyRecovery, CodesInv, TablesType
<1>1. PICK g \in 1..generation, c \in RecoveryCodes :
        code = <<g, c>> /\ by = <<"recovery", g, c>> /\ by \in By
  BY RecoveryParts
<1> HIDE DEF by
<1>2. ~Spent(by)
  <2>1. ~SpentRecovery(by)
    <3> SUFFICES ASSUME NEW h \in 1..generation, NEW d \in RecoveryCodes,
                        by = <<"recovery", h, d>>, <<h, d>> \notin codes
                 PROVE  FALSE
      BY DEF SpentRecovery
    <3>1. h = g /\ d = c
      BY <1>1
    <3>2. QED
      BY <1>1, <3>1
  <2>2. ~SpentTotp(by)
    <3> SUFFICES ASSUME NEW n, NEW d, by = <<"totp", n, d>> PROVE FALSE
      BY DEF SpentTotp
    <3>1. by[1] = "totp" /\ by[1] = "recovery"
      BY <1>1
    <3>2. QED
      BY <3>1
  <2>3. by # <<"password">>
    <3> SUFFICES ASSUME by = <<"password">> PROVE FALSE
      OBVIOUS
    <3>1. by[1] = "password" /\ by[1] = "recovery"
      BY <1>1
    <3>2. QED
      BY <3>1
  <2>4. QED
    BY <2>1, <2>2, <2>3 DEF Spent
<1>3. PICK b : b = by
  OBVIOUS
<1>4. Spent(b)'
  <2>1. g \in 1..generation' /\ <<g, c>> \notin codes' /\ b = <<"recovery", g, c>>
    BY <1>0, <1>1, <1>3
  <2>2. QED
    BY <2>1 DEF Spent, SpentRecovery
<1>5. /\ session' \in Seq(SessionRow) /\ request' \in [Requests -> RequestState]
      /\ \E j, x : /\ session' = Append(RevokedOne(j), NewSession(TRUE, b, x))
                   /\ NewSession(TRUE, b, x) \in SessionRow
  BY <1>0, <1>1, <1>3, RotatedType
<1>6. TablesType'
  BY <1>0, <1>5 DEF CodesInv, TablesType
<1>7. CodesMove /\ OnlyNewestCodes'
  <2>1. factor.last \in Nat
    BY <1>0, SessionAssumption DEF FactorRow
  <2>2. QED
    BY <1>0, <2>1 DEF CodesMove, OnlyNewestCodes, CodesInv
<1>8. ~Spent(b)
  BY <1>2, <1>3
<1>9. QED
  BY <1>0, <1>4, <1>5, <1>6, <1>7, <1>8, OpenedKeeps

\* RegenerateRecoveryCodes.
LEMMA RegenerateKeeps ==
    ASSUME CodesInv, NEW r \in Requests, RegenerateRecoveryCodes(r)
    PROVE  CodesInv'
<1>0. /\ codes' = FreshCodes /\ generation' = generation + 1
      /\ session' = session /\ factor' = factor /\ revocations' = revocations
      /\ user' = user /\ requests' = requests /\ Acts(r) /\ factor \in FactorRow
  BY DEF RegenerateRecoveryCodes, ActsInFull, CodesInv, TablesType
<1>1. /\ generation' \in Nat /\ generation' >= generation
      /\ codes' \subseteq (1..generation') \X RecoveryCodes
      /\ \A g \in 1..generation, c \in RecoveryCodes : <<g, c>> \in codes' => <<g, c>> \in codes
      /\ OnlyNewestCodes'
  BY <1>0, FreshAreNew
<1>2. request' \in [Requests -> RequestState]
  BY <1>0, SimpleStates, RequestGoesOn DEF Acts
<1>3. TablesType'
  BY <1>0, <1>1, <1>2 DEF CodesInv, TablesType
<1>4. CodesMove
  BY <1>0, <1>1, SessionAssumption DEF CodesMove, FactorRow
<1>5. QED
  BY <1>0, <1>1, <1>3, <1>4, NoneOpenedKeeps

\* The clock leaves the tables alone.
LEMMA UntouchedKeeps ==
    ASSUME CodesInv, Tick \/ UNCHANGED vars
    PROVE  CodesInv'
<1>1. UNCHANGED <<user, session, factor, codes, generation, request, requests, revocations>>
  BY DEF Tick, vars
<1>2. request' \in [Requests -> RequestState] /\ requests' \in 0..MaxRequests
  BY <1>1 DEF CodesInv, TablesType
<1>3. QED
  BY <1>1, <1>2, ReadsKeep

\* There is no session at the start.
LEMMA CodesInvInit == SessionInit => CodesInv
<1> SUFFICES ASSUME SessionInit PROVE CodesInv
  OBVIOUS
<1>1. /\ session = <<>> /\ request = [r \in Requests |-> Idle] /\ requests = 0
      /\ revocations = 0
      /\ user \in [password : {CHOOSE p \in Passwords : TRUE}, older : BOOLEAN]
  BY DEF SessionInit
<1>2. (CHOOSE p \in Passwords : TRUE) \in Passwords
  BY SessionAssumption
<1>3. user \in [password : Passwords, older : BOOLEAN]
  BY <1>1, <1>2
<1>4. /\ factor \in FactorRow /\ generation \in Nat
      /\ codes \subseteq (1..generation) \X RecoveryCodes
      /\ OnlyNewestCodes
  <2>1. CASE factor = NoFactor /\ codes = {} /\ generation = 0
    BY <2>1, SessionAssumption DEF NoFactor, FactorRow, OnlyNewestCodes
  <2>2. CASE /\ factor = [id |-> 1, enabled |-> TRUE, last |-> 0]
             /\ codes = {1} \X RecoveryCodes /\ generation = 1
    <3>1. factor \in FactorRow
      BY <2>2, SessionAssumption DEF FactorRow
    <3>2. \A code \in codes : code[1] = 1
      BY <2>2
    <3>3. codes \subseteq (1..1) \X RecoveryCodes
      BY <2>2
    <3>4. QED
      BY <2>2, <3>1, <3>2, <3>3 DEF OnlyNewestCodes
  <2>3. QED
    BY <2>1, <2>2 DEF SessionInit
<1>5. TablesType
  <2>1. session \in Seq(SessionRow)
    BY <1>1
  <2>2. request \in [Requests -> RequestState] /\ requests \in 0..MaxRequests
    BY <1>1, SimpleStates, SessionAssumption
  <2>3. QED
    BY <1>1, <1>3, <1>4, <2>1, <2>2 DEF TablesType
<1>6. DOMAIN session = {}
  BY <1>1
<1>7. QED
  BY <1>4, <1>5, <1>6 DEF CodesInv, CodeUsedOnce, RevocationIsComplete

\* Every step keeps the invariant.
LEMMA CodesInvNext ==
    ASSUME CodesInv, LimiterInv, [SessionNext]_vars
    PROVE  CodesInv'
<1>1. ASSUME NEW r \in Requests, NEW account \in Accounts, NEW password \in Passwords,
             NEW address \in Addresses, NEW previous \in 0..Len(session),
             Login(r, account, password, address, previous)
      PROVE  CodesInv'
  BY <1>1, LoginKeeps
<1>2. ASSUME NEW r \in Requests, createLoginSession(r) PROVE CodesInv'
  BY <1>2, createLoginSessionKeeps
<1>3. ASSUME NEW r \in Requests, NEW i \in DOMAIN session, Authenticate(r, i)
      PROVE  CodesInv'
  BY <1>3, AuthenticateKeeps
<1>4. ASSUME NEW r \in Requests,
             \/ currentSession(r) \/ Logout(r) \/ LogoutAll(r)
             \/ \E p \in Passwords : \/ ChangePassword(r, p) \/ PasswordChanged(r, p)
                                     \/ AdminResetPassword(r, p)
      PROVE  CodesInv'
  BY <1>4, QuietKeeps, LogoutKeeps, RevocationsKeep
<1>5. ASSUME NEW r \in Requests, BeginTOTP(r) PROVE CodesInv'
  BY <1>5, BeginTOTPKeeps
<1>6. ASSUME NEW r \in Requests, NEW code \in TotpCodes,
             ConfirmTOTP(r, code) \/ VerifyTOTP(r, code)
      PROVE  CodesInv'
  BY <1>6, ConfirmTOTPKeeps, VerifyTOTPKeeps
<1>7. ASSUME NEW r \in Requests, NEW code \in codes, VerifyRecovery(r, code)
      PROVE  CodesInv'
  BY <1>7, VerifyRecoveryKeeps
<1>8. ASSUME NEW r \in Requests, RegenerateRecoveryCodes(r) PROVE CodesInv'
  BY <1>8, RegenerateKeeps
<1>9. ASSUME NEW p \in Passwords, LocalResetPassword(p) PROVE CodesInv'
  BY <1>9, LocalResetKeeps
<1>10. CASE Tick \/ UNCHANGED vars
  BY <1>10, UntouchedKeeps
<1>11. QED
  BY <1>1, <1>2, <1>3, <1>4, <1>5, <1>6, <1>7, <1>8, <1>9, <1>10 DEF SessionNext

\* The invariant of sessions and codes is one.
LEMMA CodesInvAlways == SessionSpec => []CodesInv
<1>1. LimiterInv /\ CodesInv /\ [SessionNext]_vars => CodesInv'
  BY CodesInvNext
<1>2. QED
  BY <1>1, CodesInvInit, LimiterInvAlways, PTL DEF SessionSpec

\* For any requests and codes, whatever interleaves: a TOTP counter or a recovery
\* code opens one session, only the newest recovery codes are accepted, and no
\* session outlives a change of password or LogoutAll (rotateWithMFA,
\* replaceRecoveryCodes, revokeAllSessions); the table of the limiter is bounded.
THEOREM SessionsStaySafe == SessionSpec => []SessionSafety
<1>1. LimiterInv /\ CodesInv => SessionSafety
  <2> SUFFICES ASSUME LimiterInv, CodesInv PROVE SessionSafety
    OBVIOUS
  <2>1. \A r \in Requests : request[r].pc \in {"idle", "issue", "act", "change"}
    <3> SUFFICES ASSUME NEW r \in Requests
                 PROVE  request[r].pc \in {"idle", "issue", "act", "change"}
      OBVIOUS
    <3>1. request[r] \in RequestState
      BY DEF CodesInv, TablesType
    <3>2. QED
      BY <3>1 DEF RequestState, Idle
  <2>2. factor.id \in 0..MaxFactors /\ factor.last \in 0..(MaxTime + 1)
    BY DEF CodesInv, TablesType, FactorRow
  <2>3. \A k \in Identities : entries[k].attempts \in 0..(Limit(k) + 1)
    BY LimiterConstants DEF LimiterInv, LimiterType, Entry
  <2>4. SessionTypeOK
    BY <2>1, <2>2, <2>3 DEF LimiterInv, LimiterType, TableBounded, CodesInv, TablesType,
       SessionTypeOK
  <2>5. QED
    BY <2>4 DEF SessionSafety, CodesInv
<1>2. QED
  BY <1>1, LimiterInvAlways, CodesInvAlways, PTL

\* Once a factor is enabled no step takes it away, replaces it or sets its counter
\* back, not even one of a request that was authenticated before it was enabled
\* (storePendingTOTP, rotateWithMFA).
THEOREM EnabledFactorStays == SessionSpec => FactorStays
<1> DEFINE Stays == factor.enabled => factor'.id = factor.id /\ factor'.enabled
                                      /\ factor'.last >= factor.last
<1>1. ASSUME CodesInv, [SessionNext]_vars PROVE Stays
  <2>0. factor \in FactorRow /\ factor.last \in Nat
    BY <1>1, SessionAssumption DEF CodesInv, TablesType, FactorRow
  <2>1. CASE factor' = factor
    BY <2>0, <2>1
  <2>2. ASSUME NEW r \in Requests, BeginTOTP(r) PROVE ~factor.enabled
    BY <2>2 DEF BeginTOTP, Replaceable
  <2>3. ASSUME NEW r \in Requests, NEW code \in TotpCodes, ConfirmTOTP(r, code)
        PROVE  ~factor.enabled
    BY <2>3 DEF ConfirmTOTP
  <2>4. ASSUME NEW r \in Requests, NEW code \in TotpCodes, VerifyTOTP(r, code)
        PROVE  Stays
    <3>1. factor' = [factor EXCEPT !.last = code[3]] /\ code[3] > factor.last
      BY <2>4 DEF VerifyTOTP, validateTOTP
    <3>2. code[3] \in Nat
      BY TotpParts
    <3>3. factor'.id = factor.id /\ factor'.enabled = factor.enabled /\ factor'.last = code[3]
      BY <2>0, <3>1 DEF FactorRow
    <3>4. QED
      BY <2>0, <3>1, <3>2, <3>3
  <2>5. ASSUME NEW r \in Requests,
               \/ \E account \in Accounts, password \in Passwords, address \in Addresses,
                    previous \in 0..Len(session) : Login(r, account, password, address, previous)
               \/ createLoginSession(r) \/ \E i \in DOMAIN session : Authenticate(r, i)
               \/ currentSession(r) \/ Logout(r) \/ LogoutAll(r)
               \/ \E p \in Passwords : \/ ChangePassword(r, p) \/ PasswordChanged(r, p)
                                       \/ AdminResetPassword(r, p)
               \/ \E code \in codes : VerifyRecovery(r, code)
               \/ RegenerateRecoveryCodes(r)
        PROVE  factor' = factor
    BY <2>5 DEF Login, createLoginSession, Authenticate, currentSession, Logout, LogoutAll,
       ChangePassword, PasswordChanged, AdminResetPassword, updatePassword, VerifyRecovery,
       RegenerateRecoveryCodes
  <2>6. ASSUME (\E p \in Passwords : LocalResetPassword(p)) \/ Tick \/ UNCHANGED vars
        PROVE  factor' = factor
    BY <2>6 DEF LocalResetPassword, updatePassword, Tick, vars
  <2>7. QED
    BY <1>1, <2>1, <2>2, <2>3, <2>4, <2>5, <2>6 DEF SessionNext
<1>2. QED
  BY <1>1, CodesInvAlways, PTL DEF SessionSpec, FactorStays

=============================================================================
