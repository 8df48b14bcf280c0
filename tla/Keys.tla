-------------------------------- MODULE Keys ---------------------------------
(***************************************************************************)
(* API keys: the registry of ecn/auth.py with the key store behind it      *)
(* (ecn/persistence.py), the admin endpoints of ecn/api.py, the decision   *)
(* of require_role, and the start of the service, which loads the stored   *)
(* keys and bootstraps an admin key.                                       *)
(*                                                                         *)
(* The registry never awaits, so a request is one step, except that a      *)
(* store write may raise after memory has been changed.  The process may   *)
(* die at any time and start again with another configuration.             *)
(*                                                                         *)
(* The id and the secret of a key issued through the API are both fresh    *)
(* random values: one model value stands for the pair.  Descriptions and   *)
(* tenant ids are stored and never read.                                   *)
(***************************************************************************)
EXTENDS Integers, FiniteSets, Values

CONSTANTS
    KeyId,           \* keys issued through the API; names their secrets too
    BootSecret,      \* values of ECN_ADMIN_KEY, or generated in its absence
    ExpectIssuer,    \* is ECN_JWT_ISSUER set
    ExpectAudience,  \* is ECN_JWT_AUDIENCE set
    MaxFailures,     \* bound: store writes that raise
    MaxStarts        \* bound: starts of the service

ALL_ROLES == {"admin", "submitter", "auditor", "readonly"}

Id     == KeyId \cup {"admin-bootstrap"}
Secret == KeyId \cup BootSecret
ApiKey == [key_id : Id, key : Secret, role : ALL_ROLES]

ASSUME KeysConstants ==
    /\ KeyId \cap BootSecret = {}
    /\ "admin-bootstrap" \notin KeyId
    /\ None \notin Secret
    /\ None \notin Id
    /\ None \notin ApiKey
    /\ None \notin ALL_ROLES
    /\ {ExpectIssuer, ExpectAudience} \subseteq BOOLEAN
    /\ MaxFailures \in Nat
    /\ MaxStarts \in Nat

VARIABLES
    up,            \* is the service running
    auth_enabled,  \* ECN_AUTH_ENABLED at its last start
    jwt_configured, \* ECN_JWT_SECRET was set at its last start
    admin_secret,  \* ECN_ADMIN_KEY at its last start, None if not looked at
    registry,      \* the ApiKeyRegistry: keys by id, and lookup by secret
    persistent,    \* is there a key store (ECN_DB_PATH)
    api_keys,      \* the table of the key store
    \* history
    promised,      \* promised[k]: role of k, from its 201 to the first DELETE
    revoked,       \* secrets whose revocation was answered 204
    taken,         \* keys drawn
    handed,        \* those whose secret was answered with 201
    failures, starts

vars == <<up, auth_enabled, jwt_configured, admin_secret, registry, persistent, api_keys,
          promised, revoked, taken, handed, failures, starts>>

-----------------------------------------------------------------------------
(* The key store: a table with one row per key id.                         *)

save_key(rows, key) == [rows EXCEPT ![key.key_id] = key]

delete_key(rows, id) == [rows EXCEPT ![id] = None]

load_all(rows) == {rows[id] : id \in Id} \ {None}

(* The registry.                                                           *)

\* A key of that id that is replaced keeps its entry in _lookup.
issue(reg, key) ==
    [keys   |-> [reg.keys EXCEPT ![key.key_id] = key],
     lookup |-> [reg.lookup EXCEPT ![key.key] = key]]

\* Mutant: the secret stays in _lookup.
revoke_IdOnly(reg, id) == [reg EXCEPT !.keys[id] = None]

revoke(reg, id) ==
    [keys   |-> [reg.keys EXCEPT ![id] = None],
     lookup |-> [reg.lookup EXCEPT ![reg.keys[id].key] = None]]

lookup(reg, secret) == IF secret \in Secret THEN reg.lookup[secret] ELSE None

list_keys(reg) == {reg.keys[id] : id \in Id} \ {None}

Empty == [keys |-> [id \in Id |-> None], lookup |-> [s \in Secret |-> None]]

\* _load_from_store.
_load_from_store(rows) ==
    [keys   |-> rows,
     lookup |-> [s \in Secret |->
        IF \E key \in load_all(rows) : key.key = s
        THEN CHOOSE key \in load_all(rows) : key.key = s
        ELSE None]]

BootstrapKey(secret) == [key_id |-> "admin-bootstrap", key |-> secret, role |-> "admin"]

\* Mutant: looks for a bootstrap key instead of its secret.
NeedsBootstrap_ById(rows, enabled, secret) == enabled /\ rows["admin-bootstrap"] = None

\* init_registry issues the bootstrap key unless its secret is known.
NeedsBootstrap(rows, enabled, secret) ==
    enabled /\ lookup(_load_from_store(rows), secret) = None

init_registry(rows, enabled, secret) ==
    IF NeedsBootstrap(rows, enabled, secret)
    THEN issue(_load_from_store(rows), BootstrapKey(secret))
    ELSE _load_from_store(rows)

-----------------------------------------------------------------------------
(* Who may do what.                                                        *)

\* A Bearer token, by what the checks find out about it: "signed" if it has
\* three segments, the right signature and a JSON payload, "current" by its
\* exp and nbf.  A check raises where exp or nbf is not a number, the role is
\* not hashable or the claims are not an object.
Token == [signed : BOOLEAN, current : {"yes", "no", "raises"}, issuer : BOOLEAN,
          audience : BOOLEAN, role : ALL_ROLES \cup {None, "raises"}]

ASSUME NoneIsNoToken == None \notin Token

\* _verify_jwt_and_get_role: the role of a token, or the status it raises.
_verify_jwt_and_get_role(token) ==
    IF ~jwt_configured \/ ~token.signed THEN "401"
    ELSE IF token.current = "raises" THEN "500"
    ELSE IF \/ token.current = "no"
            \/ ExpectIssuer /\ ~token.issuer
            \/ ExpectAudience /\ ~token.audience
    THEN "401"
    ELSE IF token.role = "raises" THEN "500"
    ELSE IF token.role \notin ALL_ROLES THEN "403" ELSE token.role

\* Mutant: an unusable token falls through to the API key.
_check_FallsThrough(allowed, x_api_key, bearer) ==
    LET role == _verify_jwt_and_get_role(bearer)
        key  == lookup(registry, x_api_key)
    IN  IF ~auth_enabled THEN "pass"
        ELSE IF bearer # None /\ role \in allowed THEN "pass"
        ELSE IF x_api_key = None THEN "401"
        ELSE IF key = None \/ key.role \notin allowed THEN "403"
        ELSE "pass"

\* The dependency that require_role returns: "pass" or the status raised.
\* A Bearer token takes precedence over an API key.
_check(allowed, x_api_key, bearer) ==
    IF ~auth_enabled THEN "pass"
    ELSE IF bearer # None
    THEN LET role == _verify_jwt_and_get_role(bearer)
         IN  IF role \in {"401", "500"} THEN role ELSE IF role \in allowed THEN "pass" ELSE "403"
    ELSE IF x_api_key = None THEN "401"
    ELSE LET key == lookup(registry, x_api_key)
         IN  IF key # None /\ key.role \in allowed THEN "pass" ELSE "403"

require_admin(x_api_key, bearer) == _check({"admin"}, x_api_key, bearer)

\* Some caller gets through require_admin.
AdminCalls ==
    ~ \A x_api_key \in BootSecret \cup handed \cup {None}, bearer \in Token \cup {None} :
          require_admin(x_api_key, bearer) # "pass"

-----------------------------------------------------------------------------

Init ==
    /\ up = FALSE
    /\ auth_enabled = FALSE
    /\ jwt_configured = FALSE
    /\ admin_secret = None
    /\ registry = Empty
    /\ persistent \in BOOLEAN
    /\ api_keys = [id \in Id |-> None]
    /\ promised = [k \in KeyId |-> None]
    /\ revoked = {}
    /\ taken = {}
    /\ handed = {}
    /\ failures = 0
    /\ starts = 0

\* lifespan starts the service.  ECN_ADMIN_KEY may be any secret an operator
\* has, those of issued and of revoked keys included.  When the write of the
\* bootstrap key raises, the start is abandoned and nothing has happened.
Start(enabled, jwt, secret) ==
    /\ ~up
    /\ starts < MaxStarts
    /\ starts' = starts + 1
    /\ secret \in BootSecret \cup handed
    /\ up' = TRUE
    /\ auth_enabled' = enabled
    /\ jwt_configured' = jwt
    /\ admin_secret' = IF enabled THEN secret ELSE None
    /\ registry' = init_registry(api_keys, enabled, secret)
    /\ LET bootstrap == NeedsBootstrap(api_keys, enabled, secret)
       IN  /\ api_keys' = IF bootstrap /\ persistent
                          THEN save_key(api_keys, BootstrapKey(secret)) ELSE api_keys
           /\ revoked' = IF bootstrap THEN revoked \ {secret} ELSE revoked
    /\ UNCHANGED <<persistent, promised, taken, handed, failures>>

\* The process stops or dies: what is not in the store is lost.
Stop ==
    /\ up
    /\ up' = FALSE
    /\ registry' = Empty
    /\ promised' = IF persistent THEN promised ELSE [k \in KeyId |-> None]
    /\ UNCHANGED <<auth_enabled, jwt_configured, admin_secret, persistent, api_keys, revoked, taken,
                   handed, failures, starts>>

\* Mutant: the new key is not written to the store.
IssueApiKey_MemoryOnly(k, role) ==
    /\ up
    /\ AdminCalls
    /\ k \notin taken
    /\ taken' = taken \cup {k}
    /\ registry' = issue(registry, [key_id |-> k, key |-> k, role |-> role])
    /\ promised' = [promised EXCEPT ![k] = role]
    /\ handed' = handed \cup {k}
    /\ UNCHANGED <<up, auth_enabled, jwt_configured, admin_secret, persistent, api_keys, revoked,
                   failures, starts>>

\* issue_api_key: memory, then the store, then 201 with the secret.
IssueApiKey(k, role) ==
    /\ up
    /\ AdminCalls
    /\ k \notin taken
    /\ taken' = taken \cup {k}
    /\ LET key == [key_id |-> k, key |-> k, role |-> role]
       IN  /\ registry' = issue(registry, key)
           /\ api_keys' = IF persistent THEN save_key(api_keys, key) ELSE api_keys
    /\ promised' = [promised EXCEPT ![k] = role]
    /\ handed' = handed \cup {k}
    /\ UNCHANGED <<up, auth_enabled, jwt_configured, admin_secret, persistent, revoked, failures, starts>>

\* save_key raises: 500, and the key is in memory, its secret known to nobody.
IssueFails(k, role) ==
    /\ up
    /\ AdminCalls
    /\ persistent
    /\ failures < MaxFailures
    /\ failures' = failures + 1
    /\ k \notin taken
    /\ taken' = taken \cup {k}
    /\ registry' = issue(registry, [key_id |-> k, key |-> k, role |-> role])
    /\ UNCHANGED <<up, auth_enabled, jwt_configured, admin_secret, persistent, api_keys, promised,
                   revoked, handed, starts>>

\* From the first DELETE on nothing is promised about a key.
Withdraw(id) == [k \in KeyId |-> IF k = id THEN None ELSE promised[k]]

\* revoke_api_key of a key that is there: memory, then the store, then 204.
\* An id that is not in memory is answered 404 and nothing changes.
RevokeApiKey(id) ==
    /\ up
    /\ AdminCalls
    /\ registry.keys[id] # None
    /\ registry' = revoke(registry, id)
    /\ api_keys' = IF persistent THEN delete_key(api_keys, id) ELSE api_keys
    /\ promised' = Withdraw(id)
    /\ revoked' = revoked \cup {registry.keys[id].key}
    /\ UNCHANGED <<up, auth_enabled, jwt_configured, admin_secret, persistent, taken, handed,
                   failures, starts>>

\* delete_key raises: 500, and the key is gone from memory only.
RevokeFails(id) ==
    /\ up
    /\ AdminCalls
    /\ persistent
    /\ failures < MaxFailures
    /\ failures' = failures + 1
    /\ registry.keys[id] # None
    /\ registry' = revoke(registry, id)
    /\ promised' = Withdraw(id)
    /\ UNCHANGED <<up, auth_enabled, jwt_configured, admin_secret, persistent, api_keys, revoked, taken,
                   handed, starts>>

Next ==
    \/ \E enabled, jwt \in BOOLEAN, secret \in Secret : Start(enabled, jwt, secret)
    \/ Stop
    \/ \E k \in KeyId, role \in ALL_ROLES : IssueApiKey(k, role) \/ IssueFails(k, role)
    \/ \E id \in Id : RevokeApiKey(id) \/ RevokeFails(id)

Spec == Init /\ [][Next]_vars

-----------------------------------------------------------------------------
(* Properties                                                              *)

TypeOK ==
    /\ up \in BOOLEAN
    /\ auth_enabled \in BOOLEAN
    /\ jwt_configured \in BOOLEAN
    /\ admin_secret \in Secret \cup {None}
    /\ registry \in [keys : [Id -> ApiKey \cup {None}], lookup : [Secret -> ApiKey \cup {None}]]
    /\ persistent \in BOOLEAN
    /\ api_keys \in [Id -> ApiKey \cup {None}]
    /\ promised \in [KeyId -> ALL_ROLES \cup {None}]
    /\ revoked \subseteq Secret
    /\ taken \subseteq KeyId
    /\ handed \subseteq taken
    /\ failures \in 0 .. MaxFailures
    /\ starts \in 0 .. MaxStarts

\* A key answered with 201 and not yet the subject of a DELETE opens exactly
\* the doors of its role, over all restarts if there is a store and until
\* the next one otherwise, whatever is bootstrapped, issued or revoked
\* meanwhile and whichever writes fail.
IssuedKeysAccepted ==
    up => \A k \in KeyId : promised[k] # None =>
        \A role \in ALL_ROLES :
            _check({role}, k, None) = "pass" <=> ~auth_enabled \/ role = promised[k]

\* A secret whose revocation was answered 204 opens no door again, over all
\* restarts, unless an operator starts the service with it as ECN_ADMIN_KEY.
RevokedStaysRevoked ==
    up /\ auth_enabled => \A s \in revoked : _check(ALL_ROLES, s, None) # "pass"

\* What a caller may have who is let through for a role, said without the
\* order of the checks: a listed key, a usable token and nothing else, or
\* the secret of a bootstrap key that another start has replaced.  That one
\* is not in the store any more: the next start ends it.
Listed(s, role) == \E key \in list_keys(registry) : key.key = s /\ key.role = role
Usable(t, role) ==
    /\ jwt_configured /\ t.signed /\ t.current = "yes"
    /\ ExpectIssuer => t.issuer
    /\ ExpectAudience => t.audience
    /\ t.role = role
Replaced(s) ==
    /\ s \in Secret
    /\ registry.lookup[s] = BootstrapKey(s)
    /\ admin_secret # s
    /\ \A key \in load_all(api_keys) : key.key # s
OnlyAuthorisedPass ==
    up /\ auth_enabled =>
        \A s \in Secret \cup {None}, role \in ALL_ROLES :
            /\ _check({role}, s, None) = "pass"
                  <=> Listed(s, role) \/ (role = "admin" /\ Replaced(s))
            /\ \A t \in Token : _check({role}, s, t) = "pass" <=> Usable(t, role)

\* Who starts the service with authentication on gets in as admin with the
\* ECN_ADMIN_KEY of that start, whatever was revoked, replaced or left in the
\* store before, with one exception: a stored key of another role with that
\* very secret.  init_registry then issues no admin key, taking the key it
\* found for the bootstrap key, and the secret opens no door of an admin.
StoredForAnotherRole(secret) ==
    \E key \in load_all(api_keys) : key.key = secret /\ key.role # "admin"
BootstrapOpensAdmin ==
    [][~up /\ up' /\ auth_enabled'
         => (require_admin(admin_secret, None)' = "pass" <=> ~StoredForAnotherRole(admin_secret'))]_vars
=============================================================================
