----------------------------- MODULE KeysProofs ------------------------------
(***************************************************************************)
(* API keys for every number of keys, secrets, failing store writes and    *)
(* starts of the service.  Memory and store may differ, in both directions,*)
(* after a write that raised: the invariant says what they still have in   *)
(* common, which is that no secret is ever listed under two ids.           *)
(***************************************************************************)
EXTENDS Keys, TLAPS

Table == [Id -> ApiKey \cup {None}]

\* Rows of a and b with the same secret have the same id.
OneIdPerSecret(a, b) ==
    \A i, j \in Id : a[i] # None /\ b[j] # None /\ a[i].key = b[j].key => i = j

\* The secret is listed nowhere in a.
Unlisted(s, a) == \A i \in Id : a[i] # None => a[i].key # s

IssuedKey(k, role) == [key_id |-> k, key |-> k, role |-> role]

\* A secret that was never drawn is listed nowhere.
SecretsKnown ==
    \A s \in KeyId \ taken :
        s \notin revoked /\ Unlisted(s, api_keys) /\ Unlisted(s, registry.keys)

SecretsListedOnce ==
    /\ OneIdPerSecret(api_keys, api_keys)
    /\ OneIdPerSecret(registry.keys, registry.keys)
    /\ OneIdPerSecret(registry.keys, api_keys)

\* A service without a store has no rows, and one that is down no memory.
NoStoreNoRows ==
    /\ ~persistent => \A i \in Id : api_keys[i] = None
    /\ ~up => registry = Empty

RevokedGone ==
    \A s \in revoked : Unlisted(s, api_keys) /\ registry.lookup[s] = None

PromiseKept ==
    \A k \in KeyId : promised[k] # None =>
        /\ up \/ persistent
        /\ persistent => api_keys[k] = IssuedKey(k, promised[k])
        /\ up => /\ registry.keys[k] = IssuedKey(k, promised[k])
                 /\ registry.lookup[k] = IssuedKey(k, promised[k])

\* What lookup finds is listed, or was replaced by the bootstrap of this start.
LookupExact ==
    /\ \A i \in Id : registry.keys[i] # None =>
         registry.lookup[registry.keys[i].key] = registry.keys[i]
    /\ \A s \in Secret : registry.lookup[s] # None =>
         Replaced(s) \/ \E i \in Id : registry.keys[i] = registry.lookup[s] /\ registry.keys[i].key = s

\* The id of an issued key names its secret, and the other id has a bootstrap
\* key, which another one may replace.
RowsNamed ==
    /\ \A k \in KeyId :
         /\ api_keys[k] # None => api_keys[k].key = k
         /\ registry.keys[k] # None => registry.keys[k].key = k
    /\ api_keys["admin-bootstrap"] # None =>
         api_keys["admin-bootstrap"] = BootstrapKey(api_keys["admin-bootstrap"].key)

KeysInv ==
    /\ TypeOK
    /\ SecretsKnown
    /\ SecretsListedOnce
    /\ NoStoreNoRows
    /\ RevokedGone
    /\ PromiseKept

-----------------------------------------------------------------------------
(* What init_registry returns.                                             *)

Registry == [keys : Table, lookup : [Secret -> ApiKey \cup {None}]]

\* What is loaded for a secret is the row that lists it, if there is one.
LEMMA LoadedLookup ==
    ASSUME NEW rows \in Table, OneIdPerSecret(rows, rows), NEW s \in Secret
    PROVE  /\ lookup(_load_from_store(rows), s) = None <=> Unlisted(s, rows)
           /\ \A i \in Id : rows[i] # None /\ rows[i].key = s
                => lookup(_load_from_store(rows), s) = rows[i]
           /\ lookup(_load_from_store(rows), s) \in ApiKey \cup {None}
<1> DEFINE found == lookup(_load_from_store(rows), s)
<1>1. found = IF \E key \in load_all(rows) : key.key = s
              THEN CHOOSE key \in load_all(rows) : key.key = s ELSE None
    BY DEF lookup, _load_from_store
<1>2. ASSUME NEW i \in Id, rows[i] # None, rows[i].key = s
      PROVE  found = rows[i]
    <2>1. rows[i] \in load_all(rows) /\ rows[i].key = s
        BY <1>2 DEF load_all
    <2>2. found \in load_all(rows) /\ found.key = s
        BY <1>1, <2>1
    <2>3. PICK j \in Id : rows[j] = found /\ rows[j] # None
        BY <2>2 DEF load_all
    <2> QED
        BY <1>2, <2>2, <2>3 DEF OneIdPerSecret
<1>3. ASSUME Unlisted(s, rows)
      PROVE  found = None
    BY <1>1, <1>3 DEF Unlisted, load_all
<1>4. ASSUME NEW i \in Id, rows[i] # None
      PROVE  rows[i] \in ApiKey
    BY <1>4 DEF Table
<1>5. ~Unlisted(s, rows) => found # None /\ found \in ApiKey
    BY <1>2, <1>4 DEF Unlisted
<1> QED
    BY <1>2, <1>3, <1>5

\* A registry that was loaded is one, and its keys are the rows.
LEMMA LoadedRegistry ==
    ASSUME NEW rows \in Table, OneIdPerSecret(rows, rows)
    PROVE  /\ _load_from_store(rows) \in Registry
           /\ _load_from_store(rows).keys = rows
           /\ \A s \in Secret :
                _load_from_store(rows).lookup[s] = lookup(_load_from_store(rows), s)
<1>1. ASSUME NEW s \in Secret
      PROVE  lookup(_load_from_store(rows), s) \in ApiKey \cup {None}
    BY LoadedLookup
<1>2. \A s \in Secret : _load_from_store(rows).lookup[s] = lookup(_load_from_store(rows), s)
    BY DEF lookup
<1> DEFINE found == _load_from_store(rows).lookup
<1>3. found = [s \in Secret |-> found[s]]
    BY DEF _load_from_store
<1> HIDE DEF found
<1>4. found \in [Secret -> ApiKey \cup {None}]
    BY <1>1, <1>2, <1>3 DEF found
<1> QED
    BY <1>2, <1>4 DEF _load_from_store, Registry, found

LEMMA BootstrapKeyType ==
    ASSUME NEW s \in Secret
    PROVE  /\ BootstrapKey(s) \in ApiKey
           /\ BootstrapKey(s) # None
           /\ BootstrapKey(s).key = s
           /\ BootstrapKey(s).key_id = "admin-bootstrap"
           /\ BootstrapKey(s).role = "admin"
BY KeysConstants DEF BootstrapKey, ApiKey, Id, ALL_ROLES

LEMMA IssuedKeyType ==
    ASSUME NEW k \in KeyId, NEW role \in ALL_ROLES
    PROVE  /\ IssuedKey(k, role) \in ApiKey
           /\ IssuedKey(k, role) # None
           /\ IssuedKey(k, role).key = k
           /\ IssuedKey(k, role).key_id = k
           /\ IssuedKey(k, role).role = role
BY KeysConstants DEF IssuedKey, ApiKey, Id, Secret

\* The rows are loaded as they are, and the bootstrap key is put over the
\* row of its id when its secret is listed nowhere.
LEMMA InitRegistry ==
    ASSUME NEW rows \in Table, OneIdPerSecret(rows, rows),
           NEW enabled \in BOOLEAN, NEW secret \in Secret
    PROVE  LET reg == init_registry(rows, enabled, secret)
               key == BootstrapKey(secret)
           IN  /\ reg \in Registry
               /\ NeedsBootstrap(rows, enabled, secret) <=> enabled /\ Unlisted(secret, rows)
               /\ NeedsBootstrap(rows, enabled, secret) =>
                    /\ reg.keys = [rows EXCEPT !["admin-bootstrap"] = key]
                    /\ reg.lookup[secret] = key
                    /\ \A s \in Secret \ {secret} :
                         reg.lookup[s] = lookup(_load_from_store(rows), s)
               /\ ~NeedsBootstrap(rows, enabled, secret) =>
                    /\ reg.keys = rows
                    /\ \A s \in Secret : reg.lookup[s] = lookup(_load_from_store(rows), s)
<1> DEFINE loaded == _load_from_store(rows)
           key == BootstrapKey(secret)
<1>1. /\ loaded \in Registry
      /\ loaded.keys = rows
      /\ \A s \in Secret : loaded.lookup[s] = lookup(loaded, s)
    BY LoadedRegistry
<1>2. NeedsBootstrap(rows, enabled, secret) <=> enabled /\ Unlisted(secret, rows)
    BY LoadedLookup DEF NeedsBootstrap
<1>3. key \in ApiKey /\ key.key = secret /\ key.key_id = "admin-bootstrap"
    BY BootstrapKeyType
<1>4. CASE NeedsBootstrap(rows, enabled, secret)
    <2> DEFINE reg == init_registry(rows, enabled, secret)
    <2>1. reg = [keys   |-> [rows EXCEPT !["admin-bootstrap"] = key],
                 lookup |-> [loaded.lookup EXCEPT ![secret] = key]]
        BY <1>1, <1>3, <1>4 DEF init_registry, issue
    <2>2. loaded.lookup \in [Secret -> ApiKey \cup {None}]
        BY <1>1 DEF Registry
    <2>3. [rows EXCEPT !["admin-bootstrap"] = key] \in Table
        BY <1>3 DEF Table
    <2>4. /\ [loaded.lookup EXCEPT ![secret] = key] \in [Secret -> ApiKey \cup {None}]
          /\ [loaded.lookup EXCEPT ![secret] = key][secret] = key
          /\ \A s \in Secret \ {secret} :
               [loaded.lookup EXCEPT ![secret] = key][s] = loaded.lookup[s]
        BY <1>3, <2>2
    <2>5. reg \in Registry
        BY <2>1, <2>3, <2>4 DEF Registry
    <2> HIDE DEF loaded, key
    <2> QED
        BY <1>1, <1>2, <1>4, <2>1, <2>4, <2>5 DEF loaded, key
<1>5. CASE ~NeedsBootstrap(rows, enabled, secret)
    BY <1>1, <1>2, <1>5 DEF init_registry
<1> QED
    BY <1>4, <1>5

-----------------------------------------------------------------------------
(* What issue and revoke do to a registry.                                 *)

LEMMA IssuedRegistry ==
    ASSUME NEW reg \in Registry, NEW key \in ApiKey
    PROVE  /\ issue(reg, key) \in Registry
           /\ issue(reg, key).keys[key.key_id] = key
           /\ \A i \in Id \ {key.key_id} : issue(reg, key).keys[i] = reg.keys[i]
           /\ issue(reg, key).lookup[key.key] = key
           /\ \A s \in Secret \ {key.key} : issue(reg, key).lookup[s] = reg.lookup[s]
<1>1. key.key_id \in Id /\ key.key \in Secret
    BY DEF ApiKey
<1>2. reg.keys \in [Id -> ApiKey \cup {None}] /\ reg.lookup \in [Secret -> ApiKey \cup {None}]
    BY DEF Registry, Table
<1> QED
    BY <1>1, <1>2 DEF issue, Registry, Table

LEMMA RevokedRegistry ==
    ASSUME NEW reg \in Registry, NEW id \in Id, reg.keys[id] # None
    PROVE  /\ reg.keys[id].key \in Secret
           /\ revoke(reg, id) \in Registry
           /\ revoke(reg, id).keys[id] = None
           /\ \A i \in Id \ {id} : revoke(reg, id).keys[i] = reg.keys[i]
           /\ revoke(reg, id).lookup[reg.keys[id].key] = None
           /\ \A s \in Secret \ {reg.keys[id].key} : revoke(reg, id).lookup[s] = reg.lookup[s]
<1>1. reg.keys \in [Id -> ApiKey \cup {None}] /\ reg.lookup \in [Secret -> ApiKey \cup {None}]
    BY DEF Registry, Table
<1>2. reg.keys[id] \in ApiKey
    BY <1>1
<1>3. reg.keys[id].key \in Secret
    BY <1>2 DEF ApiKey
<1> QED
    BY <1>1, <1>3 DEF revoke, Registry, Table

LEMMA EmptyRegistry ==
    /\ Empty \in Registry
    /\ \A i \in Id : Empty.keys[i] = None
    /\ \A s \in Secret : Empty.lookup[s] = None
BY DEF Empty, Registry, Table

LEMMA TypeOfRegistry == TypeOK => registry \in Registry /\ api_keys \in Table
BY DEF TypeOK, Registry, Table

-----------------------------------------------------------------------------
(* KeysInv is inductive.                                                   *)

LEMMA InitKeysInv == Init => KeysInv
<1> SUFFICES ASSUME Init PROVE KeysInv
    OBVIOUS
<1> USE EmptyRegistry, KeysConstants DEF Init
<1>1. TypeOK
    <2>1. registry \in [keys : [Id -> ApiKey \cup {None}], lookup : [Secret -> ApiKey \cup {None}]]
        BY DEF Registry, Table
    <2>2. 0 \in 0 .. MaxFailures /\ 0 \in 0 .. MaxStarts
        OBVIOUS
    <2> QED
        BY <2>1, <2>2 DEF TypeOK
<1>2. SecretsKnown
    BY DEF SecretsKnown, Unlisted
<1>3. SecretsListedOnce
    BY DEF SecretsListedOnce, OneIdPerSecret
<1>4. NoStoreNoRows /\ RevokedGone /\ PromiseKept
    BY DEF NoStoreNoRows, RevokedGone, PromiseKept
<1> QED
    BY <1>1, <1>2, <1>3, <1>4 DEF KeysInv

LEMMA StopKeepsInv ==
    ASSUME KeysInv, Stop
    PROVE  KeysInv'
<1> USE EmptyRegistry DEF KeysInv, Stop
<1>1. TypeOK'
    BY KeysConstants DEF TypeOK, Registry, Table
<1>2. SecretsKnown'
    BY DEF SecretsKnown, Unlisted
<1>3. SecretsListedOnce'
    BY DEF SecretsListedOnce, OneIdPerSecret
<1>4. NoStoreNoRows'
    BY DEF NoStoreNoRows
<1>5. RevokedGone'
    BY DEF RevokedGone, Unlisted, TypeOK
<1>6. PromiseKept'
    BY DEF PromiseKept
<1> QED
    BY <1>1, <1>2, <1>3, <1>4, <1>5, <1>6

\* The secrets that are listed after a start are those of the rows and, if
\* there was need of it, the bootstrap secret.
LEMMA StartKeepsInv ==
    ASSUME KeysInv, NEW enabled \in BOOLEAN, NEW jwt \in BOOLEAN, NEW secret \in Secret,
           Start(enabled, jwt, secret)
    PROVE  KeysInv'
<1> DEFINE key == BootstrapKey(secret)
           need == NeedsBootstrap(api_keys, enabled, secret)
<1>1. api_keys \in Table /\ OneIdPerSecret(api_keys, api_keys)
    BY TypeOfRegistry DEF KeysInv, SecretsListedOnce
<1>2. /\ registry' \in Registry
      /\ need <=> enabled /\ Unlisted(secret, api_keys)
      /\ need => /\ registry'.keys = [api_keys EXCEPT !["admin-bootstrap"] = key]
                 /\ registry'.lookup[secret] = key
                 /\ \A s \in Secret \ {secret} :
                      registry'.lookup[s] = lookup(_load_from_store(api_keys), s)
      /\ ~need => /\ registry'.keys = api_keys
                  /\ \A s \in Secret : registry'.lookup[s] = lookup(_load_from_store(api_keys), s)
    BY <1>1, InitRegistry DEF Start
<1>3. /\ key \in ApiKey
      /\ key # None
      /\ key.key = secret
      /\ key.key_id = "admin-bootstrap"
      /\ key.role = "admin"
    BY BootstrapKeyType
<1>4. \A s \in Secret :
        /\ lookup(_load_from_store(api_keys), s) = None <=> Unlisted(s, api_keys)
        /\ \A i \in Id : api_keys[i] # None /\ api_keys[i].key = s
             => lookup(_load_from_store(api_keys), s) = api_keys[i]
    BY <1>1, LoadedLookup
<1>5. /\ api_keys' = IF need /\ persistent
                     THEN [api_keys EXCEPT !["admin-bootstrap"] = key] ELSE api_keys
      /\ revoked' = IF need THEN revoked \ {secret} ELSE revoked
      /\ secret \in BootSecret \cup taken
      /\ ~up /\ up'
      /\ persistent' = persistent /\ promised' = promised /\ taken' = taken
    BY <1>3 DEF Start, save_key, KeysInv, TypeOK
<1>6. /\ TypeOK /\ SecretsKnown /\ NoStoreNoRows /\ RevokedGone /\ PromiseKept
      /\ OneIdPerSecret(api_keys, api_keys)
    BY <1>1 DEF KeysInv
<1> HIDE DEF need, key
<1>7. "admin-bootstrap" \in Id /\ KeyId \subseteq Id /\ KeyId \subseteq Secret
    BY DEF Id, Secret
<1>8. api_keys' \in Table
    BY <1>1, <1>3, <1>5 DEF Table
<1>9. TypeOK'
    <2>1. registry' \in [keys : [Id -> ApiKey \cup {None}], lookup : [Secret -> ApiKey \cup {None}]]
        BY <1>2 DEF Registry, Table
    <2>2. api_keys' \in [Id -> ApiKey \cup {None}]
        BY <1>8 DEF Table
    <2>3. starts' \in 0 .. MaxStarts
        BY <1>6, KeysConstants DEF Start, TypeOK
    <2> QED
        BY <1>5, <1>6, <2>1, <2>2, <2>3 DEF Start, TypeOK
\* Every row of the two tables is a row of before or the bootstrap key.
<1>10. \A i \in Id :
         /\ \/ registry'.keys[i] = api_keys[i]
            \/ need /\ i = "admin-bootstrap" /\ registry'.keys[i] = key
         /\ \/ api_keys'[i] = api_keys[i]
            \/ need /\ i = "admin-bootstrap" /\ api_keys'[i] = key
    <2> SUFFICES ASSUME NEW i \in Id
                 PROVE  /\ \/ registry'.keys[i] = api_keys[i]
                           \/ need /\ i = "admin-bootstrap" /\ registry'.keys[i] = key
                        /\ \/ api_keys'[i] = api_keys[i]
                           \/ need /\ i = "admin-bootstrap" /\ api_keys'[i] = key
        OBVIOUS
    <2>1. [api_keys EXCEPT !["admin-bootstrap"] = key][i]
             = IF i = "admin-bootstrap" THEN key ELSE api_keys[i]
        BY <1>1 DEF Table
    <2>2. CASE need
        BY <1>2, <1>5, <2>1, <2>2
    <2>3. CASE ~need
        BY <1>2, <1>5, <2>3
    <2> QED
        BY <2>2, <2>3
<1>11. need => Unlisted(secret, api_keys)
    BY <1>2
<1>12. SecretsKnown'
    <2> SUFFICES ASSUME NEW s \in KeyId, s \notin taken
                 PROVE  s \notin revoked' /\ Unlisted(s, api_keys') /\ Unlisted(s, registry'.keys)
        BY <1>5 DEF SecretsKnown
    <2>1. s \notin revoked /\ Unlisted(s, api_keys)
        BY <1>6 DEF SecretsKnown
    <2>2. s # secret
        BY <1>5, KeysConstants
    <2> QED
        BY <1>3, <1>5, <1>10, <2>1, <2>2 DEF Unlisted
<1>13. SecretsListedOnce'
    <2>1. ASSUME NEW a \in {registry'.keys, api_keys'}, NEW b \in {registry'.keys, api_keys'}
          PROVE  OneIdPerSecret(a, b)
        <3> SUFFICES ASSUME NEW i \in Id, NEW j \in Id, a[i] # None, b[j] # None,
                            a[i].key = b[j].key
                     PROVE  i = j
            BY DEF OneIdPerSecret
        <3>1. a[i] = api_keys[i] \/ (need /\ i = "admin-bootstrap" /\ a[i] = key)
            BY <1>10
        <3>2. b[j] = api_keys[j] \/ (need /\ j = "admin-bootstrap" /\ b[j] = key)
            BY <1>10
        <3> QED
            BY <1>3, <1>6, <1>11, <3>1, <3>2 DEF OneIdPerSecret, Unlisted
    <2> QED
        BY <2>1 DEF SecretsListedOnce
<1>14. NoStoreNoRows'
    BY <1>5, <1>6 DEF NoStoreNoRows
<1>15. RevokedGone'
    <2> SUFFICES ASSUME NEW s \in revoked'
                 PROVE  Unlisted(s, api_keys') /\ registry'.lookup[s] = None
        BY DEF RevokedGone
    <2>1. s \in revoked /\ s \in Secret /\ Unlisted(s, api_keys) /\ (need => s # secret)
        BY <1>5, <1>6 DEF RevokedGone, TypeOK
    <2>2. Unlisted(s, api_keys')
        BY <1>3, <1>10, <2>1 DEF Unlisted
    <2>3. registry'.lookup[s] = lookup(_load_from_store(api_keys), s)
        BY <1>2, <2>1
    <2> QED
        BY <1>4, <2>1, <2>2, <2>3
<1>16. PromiseKept'
    <2> SUFFICES ASSUME NEW k \in KeyId, promised[k] # None
                 PROVE  /\ persistent => api_keys'[k] = IssuedKey(k, promised[k])
                        /\ registry'.keys[k] = IssuedKey(k, promised[k])
                        /\ registry'.lookup[k] = IssuedKey(k, promised[k])
        BY <1>5 DEF PromiseKept
    <2>1. api_keys[k] = IssuedKey(k, promised[k])
        BY <1>5, <1>6 DEF PromiseKept
    <2>2. promised[k] \in ALL_ROLES
        BY <1>6 DEF TypeOK
    <2>3. api_keys[k] # None /\ api_keys[k].key = k
        BY <2>1, <2>2, IssuedKeyType
    <2>4. registry'.keys[k] = api_keys[k] /\ api_keys'[k] = api_keys[k]
        BY <1>7, <1>10, KeysConstants
    <2>5. need => secret # k
        BY <1>7, <1>11, <2>3 DEF Unlisted
    <2>6. registry'.lookup[k] = lookup(_load_from_store(api_keys), k)
        BY <1>2, <1>7, <2>5
    <2> QED
        BY <1>4, <1>7, <2>1, <2>3, <2>4, <2>6
<1> QED
    BY <1>9, <1>12, <1>13, <1>14, <1>15, <1>16 DEF KeysInv

\* A key whose secret was never drawn joins the registry, and the store if
\* the write does not raise.
LEMMA IssueKeepsInv ==
    ASSUME KeysInv, NEW k \in KeyId, NEW role \in ALL_ROLES,
           IssueApiKey(k, role) \/ IssueFails(k, role)
    PROVE  KeysInv'
<1> DEFINE key == IssuedKey(k, role)
<1>1. /\ TypeOK /\ SecretsKnown /\ SecretsListedOnce
      /\ NoStoreNoRows /\ RevokedGone /\ PromiseKept
      /\ registry \in Registry /\ api_keys \in Table
    BY TypeOfRegistry DEF KeysInv
<1>2. key \in ApiKey /\ key # None /\ key.key = k /\ key.key_id = k /\ key.role = role
    BY IssuedKeyType
<1>3. /\ up /\ up' = up /\ k \notin taken /\ taken' = taken \cup {k}
      /\ persistent' = persistent /\ revoked' = revoked
      /\ registry' = issue(registry, key)
      /\ \/ api_keys' = api_keys
         \/ persistent /\ api_keys' = [api_keys EXCEPT ![k] = key]
      /\ \/ promised' = promised
         \/ /\ promised' = [promised EXCEPT ![k] = role]
            /\ persistent => api_keys' = [api_keys EXCEPT ![k] = key]
    BY <1>2 DEF IssueApiKey, IssueFails, save_key, IssuedKey
<1> HIDE DEF key
<1>4. k \in Id /\ k \in Secret /\ k \notin BootSecret
    BY KeysConstants DEF Id, Secret
<1>5. /\ registry' \in Registry
      /\ registry'.keys[k] = key
      /\ \A i \in Id \ {k} : registry'.keys[i] = registry.keys[i]
      /\ registry'.lookup[k] = key
      /\ \A s \in Secret \ {k} : registry'.lookup[s] = registry.lookup[s]
    BY <1>1, <1>2, <1>3, IssuedRegistry
<1>6. /\ api_keys' \in Table
      /\ \A i \in Id \ {k} : api_keys'[i] = api_keys[i]
      /\ api_keys'[k] = key \/ api_keys'[k] = api_keys[k]
    BY <1>1, <1>2, <1>3, <1>4 DEF Table
<1>7. Unlisted(k, api_keys) /\ Unlisted(k, registry.keys) /\ k \notin revoked
    BY <1>1, <1>3 DEF SecretsKnown
<1>8. TypeOK'
    <2>1. registry' \in [keys : [Id -> ApiKey \cup {None}], lookup : [Secret -> ApiKey \cup {None}]]
        BY <1>5 DEF Registry, Table
    <2>2. api_keys' \in [Id -> ApiKey \cup {None}]
        BY <1>6 DEF Table
    <2>3. failures' \in 0 .. MaxFailures
        BY <1>1, KeysConstants DEF IssueApiKey, IssueFails, TypeOK
    <2>4. /\ promised' \in [KeyId -> ALL_ROLES \cup {None}]
          /\ taken' \subseteq KeyId
          /\ handed' \subseteq taken'
        BY <1>1, <1>3 DEF IssueApiKey, IssueFails, TypeOK
    <2> QED
        BY <1>1, <1>3, <2>1, <2>2, <2>3, <2>4 DEF IssueApiKey, IssueFails, TypeOK
<1>9. SecretsKnown'
    BY <1>1, <1>2, <1>3, <1>5, <1>6 DEF SecretsKnown, Unlisted
<1>10. SecretsListedOnce'
    <2>1. ASSUME NEW a, NEW b, NEW a0, NEW b0,
                 \A i \in Id \ {k} : a[i] = a0[i] /\ b[i] = b0[i],
                 a[k] = key \/ a[k] = a0[k],
                 b[k] = key \/ b[k] = b0[k],
                 Unlisted(k, a0), Unlisted(k, b0),
                 OneIdPerSecret(a0, b0)
          PROVE  OneIdPerSecret(a, b)
        <3> SUFFICES ASSUME NEW i \in Id, NEW j \in Id, a[i] # None, b[j] # None,
                            a[i].key = b[j].key
                     PROVE  i = j
            BY DEF OneIdPerSecret
        <3>1. a[i] = a0[i] \/ (i = k /\ a[i] = key)
            BY <2>1
        <3>2. b[j] = b0[j] \/ (j = k /\ b[j] = key)
            BY <2>1
        <3> QED
            BY <1>2, <2>1, <3>1, <3>2 DEF OneIdPerSecret, Unlisted
    <2>2. OneIdPerSecret(api_keys', api_keys')
        BY <1>1, <1>6, <1>7, <2>1 DEF SecretsListedOnce
    <2>3. OneIdPerSecret(registry'.keys, registry'.keys)
        BY <1>1, <1>5, <1>7, <2>1 DEF SecretsListedOnce
    <2>4. OneIdPerSecret(registry'.keys, api_keys')
        BY <1>1, <1>5, <1>6, <1>7, <2>1 DEF SecretsListedOnce
    <2> QED
        BY <2>2, <2>3, <2>4 DEF SecretsListedOnce
<1>11. NoStoreNoRows'
    BY <1>1, <1>3 DEF NoStoreNoRows
<1>12. RevokedGone'
    <2> SUFFICES ASSUME NEW s \in revoked
                 PROVE  Unlisted(s, api_keys') /\ registry'.lookup[s] = None
        BY <1>3 DEF RevokedGone
    <2>1. s \in Secret /\ s # k /\ Unlisted(s, api_keys) /\ registry.lookup[s] = None
        BY <1>1, <1>7 DEF RevokedGone, TypeOK
    <2> QED
        BY <1>2, <1>5, <1>6, <2>1 DEF Unlisted
<1>13. PromiseKept'
    <2> SUFFICES ASSUME NEW j \in KeyId, promised'[j] # None
                 PROVE  /\ persistent => api_keys'[j] = IssuedKey(j, promised'[j])
                        /\ registry'.keys[j] = IssuedKey(j, promised'[j])
                        /\ registry'.lookup[j] = IssuedKey(j, promised'[j])
        BY <1>3 DEF PromiseKept
    <2>1. j \in Id /\ j \in Secret
        BY DEF Id, Secret
    <2>2. promised \in [KeyId -> ALL_ROLES \cup {None}]
        BY <1>1 DEF TypeOK
    <2>3. CASE j # k
        <3>1. promised'[j] = promised[j]
            BY <1>3, <2>2, <2>3
        <3> QED
            BY <1>1, <1>3, <1>5, <1>6, <2>1, <2>3, <3>1 DEF PromiseKept
    <2>4. CASE j = k
        <3>1. promised[k] = None
            <4> SUFFICES ASSUME promised[k] # None PROVE FALSE
                OBVIOUS
            <4>1. promised[k] \in ALL_ROLES
                BY <2>2
            <4>2. registry.keys[k] = IssuedKey(k, promised[k])
                BY <1>1, <1>3 DEF PromiseKept
            <4> QED
                BY <1>4, <1>7, <4>1, <4>2, IssuedKeyType DEF Unlisted
        <3>2. promised' = [promised EXCEPT ![k] = role]
            BY <1>3, <2>4, <3>1
        <3>3. promised'[k] = role /\ (persistent => api_keys'[k] = key)
            BY <1>1, <1>3, <1>4, <2>2, <2>4, <3>1, <3>2 DEF Table
        <3> QED
            BY <1>5, <2>4, <3>3 DEF key
    <2> QED
        BY <2>3, <2>4
<1> QED
    BY <1>8, <1>9, <1>10, <1>11, <1>12, <1>13 DEF KeysInv

\* A key leaves the registry with its secret, and the store if the write does
\* not raise; only then is the secret revoked.
LEMMA RevokeKeepsInv ==
    ASSUME KeysInv, NEW id \in Id, RevokeApiKey(id) \/ RevokeFails(id)
    PROVE  KeysInv'
<1> DEFINE secret == registry.keys[id].key
<1>1. /\ TypeOK /\ SecretsKnown /\ SecretsListedOnce
      /\ NoStoreNoRows /\ RevokedGone /\ PromiseKept
      /\ registry \in Registry /\ api_keys \in Table
    BY TypeOfRegistry DEF KeysInv
<1>2. /\ up /\ up' = up /\ registry.keys[id] # None
      /\ persistent' = persistent /\ taken' = taken
      /\ registry' = revoke(registry, id)
      /\ promised' = Withdraw(id)
      /\ \/ api_keys' = api_keys /\ revoked' = revoked
         \/ /\ api_keys' = IF persistent THEN [api_keys EXCEPT ![id] = None] ELSE api_keys
            /\ revoked' = revoked \cup {secret}
    BY DEF RevokeApiKey, RevokeFails, delete_key
<1>3. /\ secret \in Secret
      /\ registry' \in Registry
      /\ registry'.keys[id] = None
      /\ \A i \in Id \ {id} : registry'.keys[i] = registry.keys[i]
      /\ registry'.lookup[secret] = None
      /\ \A s \in Secret \ {secret} : registry'.lookup[s] = registry.lookup[s]
    BY <1>1, <1>2, RevokedRegistry
<1> HIDE DEF secret
<1>4. /\ api_keys' \in Table
      /\ \A i \in Id : api_keys'[i] = api_keys[i] \/ api_keys'[i] = None
      /\ \A i \in Id \ {id} : api_keys'[i] = api_keys[i]
    BY <1>1, <1>2 DEF Table
<1>5. \A i \in Id : registry'.keys[i] = registry.keys[i] \/ registry'.keys[i] = None
    BY <1>3
<1>6. secret \notin KeyId \ taken
    BY <1>1, <1>2 DEF SecretsKnown, Unlisted, secret
<1>7. TypeOK'
    <2>1. registry' \in [keys : [Id -> ApiKey \cup {None}], lookup : [Secret -> ApiKey \cup {None}]]
        BY <1>3 DEF Registry, Table
    <2>2. api_keys' \in [Id -> ApiKey \cup {None}]
        BY <1>4 DEF Table
    <2>3. failures' \in 0 .. MaxFailures
        BY <1>1, KeysConstants DEF RevokeApiKey, RevokeFails, TypeOK
    <2>4. promised' \in [KeyId -> ALL_ROLES \cup {None}] /\ revoked' \subseteq Secret
        BY <1>1, <1>2, <1>3 DEF TypeOK, Withdraw
    <2> QED
        BY <1>1, <1>2, <2>1, <2>2, <2>3, <2>4 DEF RevokeApiKey, RevokeFails, TypeOK
<1>8. SecretsKnown'
    BY <1>1, <1>2, <1>4, <1>5, <1>6 DEF SecretsKnown, Unlisted
<1>9. SecretsListedOnce'
    BY <1>1, <1>4, <1>5 DEF SecretsListedOnce, OneIdPerSecret
<1>10. NoStoreNoRows'
    BY <1>1, <1>2, <1>4 DEF NoStoreNoRows
<1>11. RevokedGone'
    <2> SUFFICES ASSUME NEW s \in revoked'
                 PROVE  Unlisted(s, api_keys') /\ registry'.lookup[s] = None
        BY DEF RevokedGone
    <2>1. CASE s \in revoked
        <3>1. s \in Secret /\ Unlisted(s, api_keys) /\ registry.lookup[s] = None
            BY <1>1, <2>1 DEF RevokedGone, TypeOK
        <3> QED
            BY <1>3, <1>4, <3>1 DEF Unlisted
    <2>2. CASE s \notin revoked
        <3>1. s = secret /\ (persistent => api_keys' = [api_keys EXCEPT ![id] = None])
            BY <1>2, <2>2
        <3>2. api_keys'[id] = None
            BY <1>1, <1>4, <3>1 DEF NoStoreNoRows, Table
        <3>3. \A i \in Id \ {id} : api_keys[i] # None => api_keys[i].key # secret
            BY <1>1, <1>2 DEF SecretsListedOnce, OneIdPerSecret, secret
        <3> QED
            BY <1>3, <1>4, <3>1, <3>2, <3>3 DEF Unlisted
    <2> QED
        BY <2>1, <2>2
<1>12. PromiseKept'
    <2> SUFFICES ASSUME NEW k \in KeyId, promised'[k] # None
                 PROVE  /\ persistent => api_keys'[k] = IssuedKey(k, promised'[k])
                        /\ registry'.keys[k] = IssuedKey(k, promised'[k])
                        /\ registry'.lookup[k] = IssuedKey(k, promised'[k])
        BY <1>2 DEF PromiseKept
    <2>1. k # id /\ promised'[k] = promised[k]
        BY <1>2 DEF Withdraw
    <2>2. /\ k \in Id /\ k \in Secret
          /\ promised[k] \in ALL_ROLES
        BY <1>1, <2>1 DEF Id, Secret, TypeOK
    <2>3. /\ persistent => api_keys[k] = IssuedKey(k, promised[k])
          /\ registry.keys[k] = IssuedKey(k, promised[k])
          /\ registry.lookup[k] = IssuedKey(k, promised[k])
        BY <1>1, <1>2, <2>1 DEF PromiseKept
    <2>4. registry.keys[k] # None /\ registry.keys[k].key = k
        BY <2>2, <2>3, IssuedKeyType
    <2>5. secret # k
        BY <1>1, <1>2, <2>1, <2>2, <2>4 DEF SecretsListedOnce, OneIdPerSecret, secret
    <2> QED
        BY <1>3, <1>4, <2>1, <2>2, <2>3, <2>5
<1> QED
    BY <1>7, <1>8, <1>9, <1>10, <1>11, <1>12 DEF KeysInv

LEMMA StutterKeepsInv ==
    ASSUME KeysInv, UNCHANGED vars
    PROVE  KeysInv'
BY DEF KeysInv, vars, TypeOK, SecretsKnown, SecretsListedOnce, OneIdPerSecret, Unlisted,
       NoStoreNoRows, RevokedGone, PromiseKept

LEMMA NextKeepsInv == KeysInv /\ [Next]_vars => KeysInv'
<1> SUFFICES ASSUME KeysInv, [Next]_vars PROVE KeysInv'
    OBVIOUS
<1>1. ASSUME NEW enabled \in BOOLEAN, NEW jwt \in BOOLEAN, NEW secret \in Secret,
             Start(enabled, jwt, secret)
      PROVE  KeysInv'
    BY <1>1, StartKeepsInv
<1>2. CASE Stop
    BY <1>2, StopKeepsInv
<1>3. ASSUME NEW k \in KeyId, NEW role \in ALL_ROLES, IssueApiKey(k, role) \/ IssueFails(k, role)
      PROVE  KeysInv'
    BY <1>3, IssueKeepsInv
<1>4. ASSUME NEW id \in Id, RevokeApiKey(id) \/ RevokeFails(id)
      PROVE  KeysInv'
    BY <1>4, RevokeKeepsInv
<1>5. CASE UNCHANGED vars
    BY <1>5, StutterKeepsInv
<1> QED
    BY <1>1, <1>2, <1>3, <1>4, <1>5 DEF Next

LEMMA SpecKeysInv == Spec => []KeysInv
BY InitKeysInv, NextKeepsInv, PTL DEF Spec

-----------------------------------------------------------------------------
(* LookupExact and RowsNamed, given KeysInv.                            *)

LEMMA ReplacedIs ==
    ASSUME api_keys \in Table, NEW s \in Secret
    PROVE  Replaced(s) <=> /\ registry.lookup[s] = BootstrapKey(s)
                           /\ admin_secret # s
                           /\ Unlisted(s, api_keys)
BY DEF Replaced, Unlisted, load_all

LEMMA InitLookupExact == Init => LookupExact /\ RowsNamed
BY EmptyRegistry DEF Init, LookupExact, RowsNamed, Id

LEMMA StartKeepsLookup ==
    ASSUME KeysInv, RowsNamed, KeysInv',
           NEW enabled \in BOOLEAN, NEW jwt \in BOOLEAN, NEW secret \in Secret,
           Start(enabled, jwt, secret)
    PROVE  LookupExact' /\ RowsNamed'
<1> DEFINE key == BootstrapKey(secret)
           need == NeedsBootstrap(api_keys, enabled, secret)
           boot == "admin-bootstrap"
<1>1. /\ api_keys \in Table /\ OneIdPerSecret(api_keys, api_keys)
      /\ api_keys' \in Table
    <2>1. api_keys \in Table /\ OneIdPerSecret(api_keys, api_keys)
        BY TypeOfRegistry DEF KeysInv, SecretsListedOnce
    <2>2. api_keys' \in Table
        BY DEF KeysInv, TypeOK, Table
    <2> QED
        BY <2>1, <2>2
<1>2. /\ need <=> enabled /\ Unlisted(secret, api_keys)
      /\ need => /\ registry'.keys = [api_keys EXCEPT ![boot] = key]
                 /\ registry'.lookup[secret] = key
                 /\ \A s \in Secret \ {secret} :
                      registry'.lookup[s] = lookup(_load_from_store(api_keys), s)
      /\ ~need => /\ registry'.keys = api_keys
                  /\ \A s \in Secret : registry'.lookup[s] = lookup(_load_from_store(api_keys), s)
    BY <1>1, InitRegistry DEF Start
<1>3. key \in ApiKey /\ key # None /\ key.key = secret /\ key.key_id = boot
    BY BootstrapKeyType
<1>4. \A s \in Secret :
        /\ lookup(_load_from_store(api_keys), s) = None <=> Unlisted(s, api_keys)
        /\ \A i \in Id : api_keys[i] # None /\ api_keys[i].key = s
             => lookup(_load_from_store(api_keys), s) = api_keys[i]
    BY <1>1, LoadedLookup
<1>5. /\ api_keys' = IF need /\ persistent THEN [api_keys EXCEPT ![boot] = key] ELSE api_keys
      /\ enabled => admin_secret' = secret
    BY <1>3 DEF Start, save_key
<1>6. boot \in Id
    BY DEF Id
<1>7. \A i \in Id : api_keys[i] # None => api_keys[i] \in ApiKey /\ api_keys[i].key \in Secret
    BY <1>1 DEF Table, ApiKey
<1>8. ~persistent => \A i \in Id : api_keys[i] = None
    BY DEF KeysInv, NoStoreNoRows
<1> HIDE DEF need, key
<1>9. RowsNamed'
    <2>1. \A k \in KeyId : k \in Id /\ k # boot
        BY KeysConstants DEF Id
    <2>2. \A k \in KeyId : api_keys'[k] = api_keys[k] /\ registry'.keys[k] = api_keys[k]
        BY <1>1, <1>2, <1>5, <2>1 DEF Table
    <2>3. api_keys'[boot] = api_keys[boot] \/ api_keys'[boot] = key
        BY <1>1, <1>5, <1>6 DEF Table
    <2>4. key = BootstrapKey(key.key)
        BY <1>3 DEF key
    <2> QED
        BY <2>2, <2>3, <2>4 DEF RowsNamed
<1>10. ASSUME NEW i \in Id, registry'.keys[i] # None
       PROVE  registry'.lookup[registry'.keys[i].key] = registry'.keys[i]
    <2>1. CASE need /\ i = boot
        BY <1>1, <1>2, <1>3, <1>6, <2>1 DEF Table
    <2>2. CASE ~(need /\ i = boot)
        <3>1. registry'.keys[i] = api_keys[i]
            BY <1>1, <1>2, <2>2 DEF Table
        <3>2. need => api_keys[i].key # secret
            BY <1>2, <1>10, <3>1 DEF Unlisted
        <3> QED
            BY <1>2, <1>4, <1>7, <1>10, <3>1, <3>2
    <2> QED
        BY <2>1, <2>2
<1>11. ASSUME NEW s \in Secret, registry'.lookup[s] # None
       PROVE  Replaced(s)' \/ \E i \in Id : registry'.keys[i] = registry'.lookup[s] /\ registry'.keys[i].key = s
    <2>1. CASE need /\ s = secret
        <3>1. registry'.keys[boot] = registry'.lookup[s] /\ registry'.keys[boot].key = s
            BY <1>1, <1>2, <1>3, <1>6, <2>1 DEF Table
        <3> QED
            BY <1>6, <3>1
    <2>2. CASE ~(need /\ s = secret)
        <3>1. registry'.lookup[s] = lookup(_load_from_store(api_keys), s)
            BY <1>2, <2>2
        <3>2. PICK i \in Id : api_keys[i] # None /\ api_keys[i].key = s
            BY <1>4, <1>11, <3>1 DEF Unlisted
        <3>3. registry'.lookup[s] = api_keys[i]
            BY <1>4, <3>1, <3>2
        <3>4. CASE registry'.keys[i] = api_keys[i]
            BY <3>2, <3>3, <3>4
        <3>5. CASE registry'.keys[i] # api_keys[i]
            <4>1. need /\ i = boot
                BY <1>1, <1>2, <3>5 DEF Table
            <4>2. persistent
                BY <1>8, <3>2
            <4>3. registry'.lookup[s] = BootstrapKey(s)
                BY <3>2, <3>3, <4>1 DEF RowsNamed
            <4>4. admin_secret' # s
                BY <1>2, <1>5, <2>2, <4>1
            <4>5. \A j \in Id : api_keys'[j] # None => api_keys'[j].key # s
                <5> SUFFICES ASSUME NEW j \in Id, api_keys'[j] # None
                             PROVE  api_keys'[j].key # s
                    OBVIOUS
                <5>1. CASE j = boot
                    BY <1>1, <1>3, <1>5, <1>6, <2>2, <4>1, <4>2, <5>1 DEF Table
                <5>2. CASE j # boot
                    BY <1>1, <1>5, <3>2, <4>1, <4>2, <5>2 DEF Table, OneIdPerSecret
                <5> QED
                    BY <5>1, <5>2
            <4> QED
                BY <4>3, <4>4, <4>5 DEF Replaced, load_all
        <3> QED
            BY <3>4, <3>5
    <2> QED
        BY <2>1, <2>2
<1> QED
    BY <1>9, <1>10, <1>11 DEF LookupExact

LEMMA IssueKeepsLookup ==
    ASSUME KeysInv, LookupExact, RowsNamed, NEW k \in KeyId, NEW role \in ALL_ROLES,
           IssueApiKey(k, role) \/ IssueFails(k, role)
    PROVE  LookupExact' /\ RowsNamed'
<1> DEFINE key == IssuedKey(k, role)
<1>1. registry \in Registry /\ api_keys \in Table
    BY TypeOfRegistry DEF KeysInv
<1>2. key \in ApiKey /\ key # None /\ key.key = k /\ key.key_id = k
    BY IssuedKeyType
<1>3. /\ registry' = issue(registry, key)
      /\ api_keys' = api_keys \/ api_keys' = [api_keys EXCEPT ![k] = key]
      /\ admin_secret' = admin_secret
      /\ Unlisted(k, registry.keys)
    BY <1>2 DEF IssueApiKey, IssueFails, save_key, IssuedKey, KeysInv, SecretsKnown
<1> HIDE DEF key
<1>4. k \in Id /\ k \in Secret /\ k # "admin-bootstrap" /\ "admin-bootstrap" \in Id
    BY KeysConstants DEF Id, Secret
<1>5. /\ registry'.keys[k] = key
      /\ \A i \in Id \ {k} : registry'.keys[i] = registry.keys[i]
      /\ registry'.lookup[k] = key
      /\ \A s \in Secret \ {k} : registry'.lookup[s] = registry.lookup[s]
    BY <1>1, <1>2, <1>3, IssuedRegistry
<1>6. \A i \in Id : api_keys'[i] = api_keys[i] \/ (i = k /\ api_keys'[i] = key)
    BY <1>1, <1>3 DEF Table
<1>7. RowsNamed'
    <2>1. KeyId \subseteq Id
        BY DEF Id
    <2> QED
        BY <1>2, <1>4, <1>5, <1>6, <2>1 DEF RowsNamed
<1>8. ASSUME NEW i \in Id, registry'.keys[i] # None
      PROVE  registry'.lookup[registry'.keys[i].key] = registry'.keys[i]
    <2>1. CASE i = k
        BY <1>2, <1>5, <2>1
    <2>2. CASE i # k
        <3>1. registry'.keys[i] = registry.keys[i] /\ registry.keys[i].key # k
            BY <1>3, <1>5, <1>8, <2>2 DEF Unlisted
        <3>2. registry.keys[i].key \in Secret
            BY <1>1, <1>8, <3>1 DEF Registry, Table, ApiKey
        <3> QED
            BY <1>5, <1>8, <3>1, <3>2 DEF LookupExact
    <2> QED
        BY <2>1, <2>2
<1>9. ASSUME NEW s \in Secret, registry'.lookup[s] # None
      PROVE  Replaced(s)' \/ \E i \in Id : registry'.keys[i] = registry'.lookup[s] /\ registry'.keys[i].key = s
    <2>1. CASE s = k
        BY <1>2, <1>4, <1>5, <2>1
    <2>2. CASE s # k
        <3>1. registry'.lookup[s] = registry.lookup[s]
            BY <1>5, <2>2
        <3>2. CASE Replaced(s)
            <4>1. Unlisted(s, api_keys)
                BY <1>1, <3>2, ReplacedIs
            <4>2. \A i \in Id : api_keys'[i] # None => api_keys'[i].key # s
                BY <1>2, <1>6, <2>2, <4>1 DEF Unlisted
            <4> QED
                BY <1>3, <3>1, <3>2, <4>2 DEF Replaced, load_all
        <3>3. CASE \E i \in Id : registry.keys[i] = registry.lookup[s] /\ registry.keys[i].key = s
            <4>1. PICK i \in Id : registry.keys[i] = registry.lookup[s] /\ registry.keys[i].key = s
                BY <3>3
            <4>2. i # k
                BY <1>9, <2>2, <3>1, <4>1 DEF RowsNamed
            <4> QED
                BY <1>5, <3>1, <4>1, <4>2
        <3> QED
            BY <1>9, <3>1, <3>2, <3>3 DEF LookupExact
    <2> QED
        BY <2>1, <2>2
<1> QED
    BY <1>7, <1>8, <1>9 DEF LookupExact

LEMMA RevokeKeepsLookup ==
    ASSUME KeysInv, LookupExact, RowsNamed, NEW id \in Id, RevokeApiKey(id) \/ RevokeFails(id)
    PROVE  LookupExact' /\ RowsNamed'
<1> DEFINE secret == registry.keys[id].key
<1>1. registry \in Registry /\ api_keys \in Table
    BY TypeOfRegistry DEF KeysInv
<1>2. /\ registry.keys[id] # None
      /\ registry' = revoke(registry, id)
      /\ api_keys' = api_keys \/ api_keys' = [api_keys EXCEPT ![id] = None]
      /\ admin_secret' = admin_secret
    BY DEF RevokeApiKey, RevokeFails, delete_key
<1>3. /\ secret \in Secret
      /\ registry'.keys[id] = None
      /\ \A i \in Id \ {id} : registry'.keys[i] = registry.keys[i]
      /\ registry'.lookup[secret] = None
      /\ \A s \in Secret \ {secret} : registry'.lookup[s] = registry.lookup[s]
    BY <1>1, <1>2, RevokedRegistry
<1> HIDE DEF secret
<1>4. \A i \in Id : api_keys'[i] = api_keys[i] \/ api_keys'[i] = None
    BY <1>1, <1>2 DEF Table
<1>5. RowsNamed'
    <2>1. "admin-bootstrap" \in Id /\ KeyId \subseteq Id
        BY DEF Id
    <2> QED
        BY <1>3, <1>4, <2>1 DEF RowsNamed
<1>6. ASSUME NEW i \in Id, registry'.keys[i] # None
      PROVE  registry'.lookup[registry'.keys[i].key] = registry'.keys[i]
    <2>1. i # id /\ registry'.keys[i] = registry.keys[i]
        BY <1>3, <1>6
    <2>2. registry.keys[i].key # secret
        BY <1>2, <1>6, <2>1 DEF KeysInv, SecretsListedOnce, OneIdPerSecret, secret
    <2>3. registry.keys[i].key \in Secret
        BY <1>1, <1>6, <2>1 DEF Registry, Table, ApiKey
    <2> QED
        BY <1>3, <1>6, <2>1, <2>2, <2>3 DEF LookupExact
<1>7. ASSUME NEW s \in Secret, registry'.lookup[s] # None
      PROVE  Replaced(s)' \/ \E i \in Id : registry'.keys[i] = registry'.lookup[s] /\ registry'.keys[i].key = s
    <2>1. s # secret /\ registry'.lookup[s] = registry.lookup[s]
        BY <1>3, <1>7
    <2>2. CASE Replaced(s)
        <3>1. \A i \in Id : api_keys'[i] # None => api_keys'[i].key # s
            BY <1>1, <1>4, <2>2, ReplacedIs DEF Unlisted
        <3> QED
            BY <1>2, <2>1, <2>2, <3>1 DEF Replaced, load_all
    <2>3. CASE \E i \in Id : registry.keys[i] = registry.lookup[s] /\ registry.keys[i].key = s
        BY <1>3, <2>1, <2>3 DEF secret
    <2> QED
        BY <1>7, <2>1, <2>2, <2>3 DEF LookupExact
<1> QED
    BY <1>5, <1>6, <1>7 DEF LookupExact

LEMMA SpecLookupExact == Spec => []LookupExact
<1>1. ASSUME KeysInv, KeysInv', LookupExact, RowsNamed, [Next]_vars
      PROVE  LookupExact' /\ RowsNamed'
    <2>1. ASSUME NEW enabled \in BOOLEAN, NEW jwt \in BOOLEAN, NEW secret \in Secret,
                 Start(enabled, jwt, secret)
          PROVE  LookupExact' /\ RowsNamed'
        BY <1>1, <2>1, StartKeepsLookup
    <2>2. CASE Stop
        BY <1>1, <2>2, EmptyRegistry DEF Stop, LookupExact, RowsNamed, Id
    <2>3. ASSUME NEW k \in KeyId, NEW role \in ALL_ROLES, IssueApiKey(k, role) \/ IssueFails(k, role)
          PROVE  LookupExact' /\ RowsNamed'
        BY <1>1, <2>3, IssueKeepsLookup
    <2>4. ASSUME NEW id \in Id, RevokeApiKey(id) \/ RevokeFails(id)
          PROVE  LookupExact' /\ RowsNamed'
        BY <1>1, <2>4, RevokeKeepsLookup
    <2>5. CASE UNCHANGED vars
        BY <1>1, <2>5 DEF vars, LookupExact, RowsNamed, Replaced
    <2> QED
        BY <1>1, <2>1, <2>2, <2>3, <2>4, <2>5 DEF Next
<1> QED
    BY <1>1, InitLookupExact, SpecKeysInv, PTL DEF Spec

-----------------------------------------------------------------------------
(* The theorems.                                                           *)

\* Type correctness: in particular the secrets ever handed out were drawn by
\* issue_api_key, and the failed writes and the starts stay within their bounds.
THEOREM SpecTypeOK == Spec => []TypeOK
<1>1. KeysInv => TypeOK
    BY DEF KeysInv
<1> QED
    BY <1>1, SpecKeysInv, PTL

\* issue_api_key: a key answered with 201 and not yet the subject of a DELETE
\* opens exactly the doors of its role, whatever is bootstrapped, issued and
\* revoked meanwhile, whichever writes fail, and over every restart with a
\* store.
THEOREM SpecIssuedKeysAccepted == Spec => []IssuedKeysAccepted
<1>1. ASSUME KeysInv
      PROVE  IssuedKeysAccepted
    <2> SUFFICES ASSUME up, NEW k \in KeyId, promised[k] # None, NEW role \in ALL_ROLES
                 PROVE  _check({role}, k, None) = "pass" <=> ~auth_enabled \/ role = promised[k]
        BY DEF IssuedKeysAccepted
    <2>1. promised[k] \in ALL_ROLES /\ k \in Secret /\ k # None
        BY <1>1, KeysConstants DEF KeysInv, TypeOK, Secret
    <2>2. lookup(registry, k) = IssuedKey(k, promised[k])
        BY <1>1, <2>1 DEF KeysInv, PromiseKept, lookup
    <2>3. lookup(registry, k) # None /\ lookup(registry, k).role = promised[k]
        BY <2>1, <2>2, IssuedKeyType
    <2> QED
        BY <2>1, <2>3 DEF _check
<1> QED
    BY <1>1, SpecKeysInv, PTL

\* revoke_api_key: a secret whose revocation was answered 204 opens no door
\* again, over every restart, unless it becomes the ECN_ADMIN_KEY of one.
THEOREM SpecRevokedStaysRevoked == Spec => []RevokedStaysRevoked
<1>1. ASSUME KeysInv
      PROVE  RevokedStaysRevoked
    <2> SUFFICES ASSUME up, auth_enabled, NEW s \in revoked
                 PROVE  _check(ALL_ROLES, s, None) # "pass"
        BY DEF RevokedStaysRevoked
    <2>1. s \in Secret /\ s # None /\ lookup(registry, s) = None
        BY <1>1, KeysConstants DEF KeysInv, TypeOK, RevokedGone, lookup
    <2> QED
        BY <2>1 DEF _check
<1> QED
    BY <1>1, SpecKeysInv, PTL

\* init_registry: whoever starts the service with authentication on gets in
\* as admin with the ECN_ADMIN_KEY of that start, whatever that key is and
\* whatever is in the store, except exactly when the store lists that secret
\* for another role.
THEOREM SpecBootstrapOpensAdmin == Spec => BootstrapOpensAdmin
<1>1. ASSUME KeysInv, [Next]_vars, ~up, up', auth_enabled'
      PROVE  require_admin(admin_secret, None)' = "pass" <=> ~StoredForAnotherRole(admin_secret')
    <2>1. PICK enabled \in BOOLEAN, jwt \in BOOLEAN, secret \in Secret : Start(enabled, jwt, secret)
        BY <1>1 DEF Next, Stop, IssueApiKey, IssueFails, RevokeApiKey, RevokeFails, vars
    <2>2. /\ secret # None
          /\ admin_secret' = secret
          /\ enabled
          /\ registry' = init_registry(api_keys, enabled, secret)
        BY <1>1, <2>1, KeysConstants DEF Start
    <2>3. api_keys \in Table /\ OneIdPerSecret(api_keys, api_keys)
        BY <1>1, TypeOfRegistry DEF KeysInv, SecretsListedOnce
    <2>4. StoredForAnotherRole(secret)
            <=> \E i \in Id : api_keys[i] # None /\ api_keys[i].key = secret /\ api_keys[i].role # "admin"
        BY DEF StoredForAnotherRole, load_all
    <2>5. /\ registry'.lookup[secret] # None
          /\ registry'.lookup[secret].role = "admin" <=> ~StoredForAnotherRole(secret)
        <3>1. CASE Unlisted(secret, api_keys)
            <4>1. registry'.lookup[secret] = BootstrapKey(secret)
                BY <2>2, <2>3, <3>1, InitRegistry
            <4> QED
                BY <2>4, <3>1, <4>1, BootstrapKeyType DEF Unlisted
        <3>2. CASE ~Unlisted(secret, api_keys)
            <4>1. PICK i \in Id : api_keys[i] # None /\ api_keys[i].key = secret
                BY <3>2 DEF Unlisted
            <4>2. registry'.lookup[secret] = lookup(_load_from_store(api_keys), secret)
                BY <2>2, <2>3, <3>2, InitRegistry
            <4>3. lookup(_load_from_store(api_keys), secret) = api_keys[i]
                BY <2>3, <4>1, LoadedLookup
            <4>4. \A j \in Id : api_keys[j] # None /\ api_keys[j].key = secret => j = i
                BY <2>3, <4>1 DEF OneIdPerSecret
            <4> QED
                BY <2>4, <4>1, <4>2, <4>3, <4>4
        <3> QED
            BY <3>1, <3>2
    <2>6. require_admin(secret, None)' = "pass" <=> registry'.lookup[secret].role = "admin"
        BY <1>1, <2>2, <2>5 DEF require_admin, _check, lookup
    <2>7. require_admin(admin_secret, None)' = require_admin(secret, None)'
        BY <2>2 DEF require_admin, _check, lookup
    <2> QED
        BY <2>2, <2>5, <2>6, <2>7
<1> QED
    BY <1>1, SpecKeysInv, PTL DEF Spec, BootstrapOpensAdmin

\* require_role: a key passes for a role exactly if it is listed with that
\* role, or is the secret of a bootstrap key that this start has replaced;
\* a token passes exactly if it is usable, whatever key comes with it.
THEOREM SpecOnlyAuthorisedPass == Spec => []OnlyAuthorisedPass
<1>1. ASSUME KeysInv, LookupExact
      PROVE  OnlyAuthorisedPass
    <2> SUFFICES ASSUME up, auth_enabled, NEW s \in Secret \cup {None}, NEW role \in ALL_ROLES
                 PROVE  /\ _check({role}, s, None) = "pass"
                              <=> Listed(s, role) \/ (role = "admin" /\ Replaced(s))
                        /\ \A t \in Token : _check({role}, s, t) = "pass" <=> Usable(t, role)
        BY DEF OnlyAuthorisedPass
    <2>1. registry \in Registry /\ api_keys \in Table
        BY <1>1, TypeOfRegistry DEF KeysInv
    <2>2. ASSUME s \in Secret
          PROVE  _check({role}, s, None) = "pass"
                   <=> registry.lookup[s] # None /\ registry.lookup[s].role = role
        BY <2>2, KeysConstants DEF _check, lookup
    <2>3. ASSUME s \in Secret
          PROVE  Listed(s, role)
                   <=> \E i \in Id : registry.keys[i] # None /\ registry.keys[i].key = s
                                       /\ registry.keys[i].role = role
        BY <2>3 DEF Listed, list_keys
    <2>4. ASSUME s \in Secret, registry.lookup[s] # None, registry.lookup[s].role = role
          PROVE  Listed(s, role) \/ (role = "admin" /\ Replaced(s))
        <3>1. CASE Replaced(s)
            BY <2>4, <3>1, BootstrapKeyType DEF Replaced
        <3>2. CASE \E i \in Id : registry.keys[i] = registry.lookup[s] /\ registry.keys[i].key = s
            BY <2>3, <2>4, <3>2
        <3> QED
            BY <1>1, <2>4, <3>1, <3>2 DEF LookupExact
    <2>5. ASSUME s \in Secret, Listed(s, role) \/ (role = "admin" /\ Replaced(s))
          PROVE  registry.lookup[s] # None /\ registry.lookup[s].role = role
        <3>1. CASE Listed(s, role)
            BY <1>1, <2>3, <2>5, <3>1 DEF LookupExact
        <3>2. CASE role = "admin" /\ Replaced(s)
            BY <2>5, <3>2, BootstrapKeyType DEF Replaced
        <3> QED
            BY <2>5, <3>1, <3>2
    <2>6. ASSUME s = None
          PROVE  /\ _check({role}, s, None) # "pass"
                 /\ ~Listed(s, role)
                 /\ ~Replaced(s)
        <3>1. _check({role}, s, None) # "pass"
            BY <2>6 DEF _check
        <3>2. \A key \in list_keys(registry) : key.key \in Secret
            BY <2>1 DEF list_keys, Registry, Table, ApiKey
        <3> QED
            BY <2>6, <3>1, <3>2, KeysConstants DEF Listed, Replaced
    <2>7. ASSUME NEW t \in Token
          PROVE  _check({role}, s, t) = "pass" <=> Usable(t, role)
        <3>1. t # None /\ role \notin {"401", "403", "500", "raises"}
            BY NoneIsNoToken DEF ALL_ROLES
        <3>2. t.current \in {"yes", "no", "raises"}
            BY DEF Token
        <3>3. _verify_jwt_and_get_role(t) = role <=> Usable(t, role)
            <4>1. CASE Usable(t, role)
                BY <3>1, <4>1 DEF _verify_jwt_and_get_role, Usable
            <4>2. CASE ~Usable(t, role)
                BY <3>1, <3>2, <4>2 DEF _verify_jwt_and_get_role, Usable
            <4> QED
                BY <4>1, <4>2
        <3>4. _check({role}, s, t) = "pass" <=> _verify_jwt_and_get_role(t) = role
            BY <3>1 DEF _check
        <3> QED
            BY <3>3, <3>4
    <2> QED
        BY <2>2, <2>4, <2>5, <2>6, <2>7
<1> QED
    BY <1>1, SpecKeysInv, SpecLookupExact, PTL
=============================================================================
