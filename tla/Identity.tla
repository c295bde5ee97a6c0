------------------------------ MODULE Identity ------------------------------
(***************************************************************************)
(* Who a request is from.  The configured provider verifies the bearer     *)
(* token: the built-in one against the account's current record, OpenID    *)
(* Connect against the provider's published keys and a linked account,     *)
(* Firebase through its SDK.  Administrators edit accounts, signing keys   *)
(* rotate and the OIDC key cache is shared while requests are under way.   *)
(*                                                                         *)
(* auth/__init__.py, auth/identity.py, auth/local_jwt.py, auth/oidc.py,    *)
(* auth/firebase_auth.py, auth/local_mode_stub.py, auth/routes.py,         *)
(* admin/accounts_routes.py                                                *)
(***************************************************************************)
EXTENDS Integers, FiniteSets, Store

CONSTANTS
    Emails,           \* account keys
    AdminEmail,       \* the platform administrator's account
    OidcRequests,     \* concurrent OIDC verifications and logins
    MaxIdentityOps,   \* operations in a behaviour
    MaxKeys           \* signing keys that the OIDC provider ever publishes

\* An e-mail is no answer of a verification that names no account.
ASSUME IdentityAssumption ==
    /\ AdminEmail \in Emails /\ MaxIdentityOps \in Nat /\ MaxKeys \in Nat \ {0}
    /\ Emails \cap {None, "refused", "workshop", "firebase"} = {}
    /\ None \notin OidcRequests /\ None \notin Nat

VARIABLES
    provider,       \* the configured backend
    accounts,       \* e-mail -> None or [uid, password, disabled, version]
    uidsMade,       \* uids and passwords made so far
    bearer,         \* local tokens issued: [email, sub, key, version]
    signingKey,     \* number of the current local signing key
    previousKeys,   \* how many earlier keys still verify
    login,          \* a built-in login between password check and issue: None or an account
    accountEdit,    \* an admin edit between read and write: None or [email, kind, seen]
    firebaseUser,   \* the resolve-by-uid cache: "empty", "user" or "failed"
    verified,       \* what the last verification returned: None, "refused" or an account
    published,      \* signing keys the OIDC provider has published, 1..published
    jwks,           \* the key cache: None or the number of keys it holds
    jwksLock,       \* the request that loads the keys, or None
    oidcReq,        \* request -> None or its progress
    linked,         \* e-mails whose OIDC subject is linked -> the uid at linking, or None
    transactions,   \* stored login transactions: [state, nonce, age]
    nonces,         \* login transactions created so far
    identityOps

localVars == <<accounts, uidsMade, bearer, signingKey, previousKeys, login, accountEdit,
               firebaseUser, verified>>
oidcVars == <<published, jwks, jwksLock, oidcReq, linked, transactions, nonces>>
identityVars == <<provider, localVars, oidcVars, identityOps>>

IdentityOp == identityOps < MaxIdentityOps /\ identityOps' = identityOps + 1

\* The explicit setting wins; without one, local mode uses the stub.  The stub
\* outside local mode is refused at start.
AuthBackend(explicit, localMode) ==
    IF explicit = "" THEN (IF localMode THEN "stub" ELSE "firebase")
    ELSE IF explicit = "stub" /\ ~localMode THEN None ELSE explicit

(***************************************************************************)
(* Built-in accounts.                                                      *)
(***************************************************************************)

Live(email) == accounts[email] # None /\ ~accounts[email].disabled

\* create_local_user: the existing row is read first; the written row carries
\* no token version.
CreateLocalUser(email) ==
    /\ provider = "local-jwt" /\ IdentityOp /\ accounts[email] = None
    /\ uidsMade' = uidsMade + 1
    /\ accounts' = [accounts EXCEPT ![email] =
           [uid |-> uidsMade + 1, password |-> uidsMade + 1, disabled |-> FALSE, version |-> 0]]
    /\ UNCHANGED <<provider, oidcVars, bearer, signingKey, previousKeys, login, accountEdit,
                   firebaseUser, verified>>

AuthenticateCredentials(email, password) ==
    /\ provider = "local-jwt" /\ login = None /\ IdentityOp
    /\ Live(email) /\ accounts[email].password = password
    /\ login' = [email |-> email, uid |-> accounts[email].uid]
    /\ UNCHANGED <<provider, oidcVars, accounts, uidsMade, bearer, signingKey, previousKeys,
                   accountEdit, firebaseUser, verified>>

\* The token carries the account's token version at issue.
IssueAccessToken ==
    /\ login # None /\ login' = None
    /\ bearer' = bearer \cup {[email |-> login.email, sub |-> login.uid, key |-> signingKey,
                               version |-> IF accounts[login.email] = None THEN 0
                                           ELSE accounts[login.email].version]}
    /\ UNCHANGED <<provider, oidcVars, accounts, uidsMade, signingKey, previousKeys, accountEdit,
                   firebaseUser, verified, identityOps>>

VerificationKeys == {k \in 1..signingKey : k >= signingKey - previousKeys}
DecodeAccessToken(token) == token.key \in VerificationKeys

(* Faulty variant of UserFromToken: only the account's uid is compared.     *)
UserFromStaleToken(token) ==
    IF DecodeAccessToken(token) /\ accounts[token.email] # None
       /\ accounts[token.email].uid = token.sub
    THEN token.email ELSE "refused"

UserFromToken(token) ==
    IF DecodeAccessToken(token) /\ Live(token.email) /\ accounts[token.email].uid = token.sub
       /\ accounts[token.email].version = token.version
    THEN token.email ELSE "refused"

GetCurrentUserLocalJwt(token) ==
    /\ provider = "local-jwt" /\ IdentityOp /\ verified' = UserFromToken(token)
    /\ UNCHANGED <<provider, oidcVars, accounts, uidsMade, bearer, signingKey, previousKeys, login,
                   accountEdit, firebaseUser>>

\* The operator rotates the signing key and keeps some earlier ones.
RotateSigningKey(keep) ==
    /\ provider = "local-jwt" /\ IdentityOp /\ signingKey < 2
    /\ signingKey' = signingKey + 1 /\ previousKeys' = keep
    /\ verified' = None
    /\ UNCHANGED <<provider, oidcVars, accounts, uidsMade, bearer, login, accountEdit, firebaseUser>>

\* Admin routes read the row, then write: disabling or enabling an account and
\* resetting its password each raise the token version they read.
MayDisable(email) == email # AdminEmail
BeginAccountEdit(email, kind) ==
    /\ provider \in {"local-jwt", "oidc"} /\ IdentityOp
    /\ accountEdit = None /\ accounts[email] # None
    /\ kind = "disable" => MayDisable(email)
    /\ kind = "password" => provider = "local-jwt"
    /\ accountEdit' = [email |-> email, kind |-> kind, seen |-> accounts[email]]
    /\ UNCHANGED <<provider, oidcVars, accounts, uidsMade, bearer, signingKey, previousKeys, login,
                   firebaseUser, verified>>

ApplyAccountEdit ==
    /\ accountEdit # None /\ accountEdit.kind \in {"disable", "enable"}
    /\ LET target == accountEdit.kind = "disable"
       IN accounts' = IF accountEdit.seen.disabled = target THEN accounts
                      ELSE [accounts EXCEPT ![accountEdit.email].disabled = target,
                                            ![accountEdit.email].version = accountEdit.seen.version + 1]
    /\ accountEdit' = None /\ verified' = None
    /\ UNCHANGED <<provider, oidcVars, uidsMade, bearer, signingKey, previousKeys, login,
                   firebaseUser, identityOps>>

ResetPassword ==
    /\ accountEdit # None /\ accountEdit.kind = "password"
    /\ uidsMade' = uidsMade + 1
    /\ accounts' = [accounts EXCEPT ![accountEdit.email].password = uidsMade + 1,
                                    ![accountEdit.email].version = accountEdit.seen.version + 1]
    /\ accountEdit' = None /\ verified' = None
    /\ UNCHANGED <<provider, oidcVars, bearer, signingKey, previousKeys, login, firebaseUser,
                   identityOps>>

(***************************************************************************)
(* The other providers.                                                    *)
(***************************************************************************)

\* The stub accepts one token; Firebase whatever its SDK verifies.
GetCurrentUserLocalMode(token) ==
    /\ provider = "stub" /\ IdentityOp /\ verified' = IF token = "stub" THEN "workshop" ELSE "refused"
    /\ UNCHANGED <<provider, oidcVars, accounts, uidsMade, bearer, signingKey, previousKeys, login,
                   accountEdit, firebaseUser>>
FirebaseGetCurrentUser(ok) ==
    /\ provider = "firebase" /\ IdentityOp /\ verified' = IF ok THEN "firebase" ELSE "refused"
    /\ UNCHANGED <<provider, oidcVars, accounts, uidsMade, bearer, signingKey, previousKeys, login,
                   accountEdit, firebaseUser>>

\* Channels resolve a linked user by uid; failures are cached as well.
ResolveUserByUid(found) ==
    /\ provider = "firebase" /\ IdentityOp
    /\ firebaseUser' = IF firebaseUser # "empty" THEN firebaseUser
                       ELSE IF found THEN "user" ELSE "failed"
    /\ verified' = IF firebaseUser' = "user" THEN "firebase" ELSE "refused"
    /\ UNCHANGED <<provider, oidcVars, accounts, uidsMade, bearer, signingKey, previousKeys, login,
                   accountEdit>>
FirebaseCacheLapses ==
    /\ firebaseUser # "empty" /\ firebaseUser' = "empty"
    /\ UNCHANGED <<provider, oidcVars, accounts, uidsMade, bearer, signingKey, previousKeys, login,
                   accountEdit, verified, identityOps>>

(***************************************************************************)
(* OpenID Connect: linked subjects and the key cache.                      *)
(***************************************************************************)

LinkOidcSubject(email) ==
    /\ provider = "oidc" /\ IdentityOp /\ accounts[email] # None /\ linked[email] = None
    /\ linked' = [linked EXCEPT ![email] = accounts[email].uid]
    /\ UNCHANGED <<provider, localVars, published, jwks, jwksLock, oidcReq, transactions, nonces>>

LocalUserFromSubject(email) ==
    IF linked[email] # None /\ Live(email) /\ accounts[email].uid = linked[email]
    THEN email ELSE "refused"

\* The provider publishes a key before it signs with it.
ProviderRotates ==
    /\ provider = "oidc" /\ published < MaxKeys /\ published' = published + 1
    /\ UNCHANGED <<provider, localVars, jwks, jwksLock, oidcReq, linked, transactions, nonces,
                   identityOps>>
JwksLapses ==
    /\ jwks # None /\ jwks' = None
    /\ UNCHANGED <<provider, localVars, published, jwksLock, oidcReq, linked, transactions, nonces,
                   identityOps>>

Progress(r, step) == oidcReq' = [oidcReq EXCEPT ![r].step = step]
Running(r, step) == oidcReq[r] # None /\ oidcReq[r].step = step

\* A bearer token names its signing key; good says the key is published. Any
\* other key may be named, one the provider is about to publish included.
VerifyOidcToken(r, email, kid) ==
    /\ provider = "oidc" /\ IdentityOp /\ oidcReq[r] = None
    /\ oidcReq' = [oidcReq EXCEPT ![r] =
           [email |-> email, kid |-> kid, nonce |-> None, expected |-> None, step |-> "keys",
            looked |-> 0, refreshed |-> FALSE, good |-> kid <= published]]
    /\ UNCHANGED <<provider, localVars, published, jwks, jwksLock, linked, transactions, nonces>>

\* A fresh cache is used at once; otherwise the request queues for the lock and
\* looks again when it holds it.
CachedJwks(r) ==
    /\ Running(r, "keys") /\ jwks # None
    /\ oidcReq' = [oidcReq EXCEPT ![r].step = "select", ![r].looked = jwks]
    /\ UNCHANGED <<provider, localVars, published, jwks, jwksLock, linked, transactions, nonces,
                   identityOps>>

(* Faulty variant of LoadJwks: the keys are fetched outside the lock.       *)
LoadJwksUnlocked(r) ==
    /\ Running(r, "keys") /\ jwks = None /\ jwksLock' = r
    /\ oidcReq' = [oidcReq EXCEPT ![r].step = "loading", ![r].looked = published]
    /\ UNCHANGED <<provider, localVars, published, jwks, linked, transactions, nonces, identityOps>>

LoadJwks(r) ==
    /\ Running(r, "keys") /\ jwks = None /\ jwksLock = None /\ jwksLock' = r
    /\ oidcReq' = [oidcReq EXCEPT ![r].step = "loading", ![r].looked = published]
    /\ UNCHANGED <<provider, localVars, published, jwks, linked, transactions, nonces, identityOps>>
JwksArrives(r) ==
    /\ Running(r, "loading") /\ jwks' = oidcReq[r].looked /\ jwksLock' = None
    /\ Progress(r, "select")
    /\ UNCHANGED <<provider, localVars, published, linked, transactions, nonces, identityOps>>
JwksFails(r) ==
    /\ Running(r, "loading") /\ jwksLock' = None /\ verified' = "refused"
    /\ oidcReq' = [oidcReq EXCEPT ![r] = None]
    /\ UNCHANGED <<provider, accounts, uidsMade, bearer, signingKey, previousKeys, login,
                   accountEdit, firebaseUser, published, jwks, linked, transactions, nonces,
                   identityOps>>

\* An unknown key drops the cache and asks once more before the request fails.
SelectJwk(r) ==
    /\ Running(r, "select")
    /\ IF oidcReq[r].kid <= oidcReq[r].looked
       THEN Progress(r, "claims") /\ UNCHANGED <<jwks, verified>>
       ELSE IF ~oidcReq[r].refreshed
       THEN /\ oidcReq' = [oidcReq EXCEPT ![r].step = "keys", ![r].refreshed = TRUE]
            /\ jwks' = None /\ UNCHANGED verified
       ELSE Progress(r, "unknown") /\ verified' = "refused" /\ UNCHANGED jwks
    /\ UNCHANGED <<provider, accounts, uidsMade, bearer, signingKey, previousKeys, login,
                   accountEdit, firebaseUser, published, jwksLock, linked, transactions, nonces,
                   identityOps>>

(* Faulty variant of Claims: the nonce is not compared.                     *)
ClaimsUnbound(r) == LocalUserFromSubject(oidcReq[r].email)

\* The nonce is compared when the token came from a browser login.
Claims(r) ==
    IF oidcReq[r].expected # None /\ oidcReq[r].nonce # oidcReq[r].expected THEN "refused"
    ELSE LocalUserFromSubject(oidcReq[r].email)
DecodeOidcToken(r) ==
    /\ Running(r, "claims") /\ verified' = Claims(r)
    /\ Progress(r, IF Claims(r) = "refused" THEN "refused" ELSE "done")
    /\ UNCHANGED <<provider, accounts, uidsMade, bearer, signingKey, previousKeys, login,
                   accountEdit, firebaseUser, published, jwks, jwksLock, linked, transactions,
                   nonces, identityOps>>
OidcAnswered(r) ==
    /\ oidcReq[r] # None /\ oidcReq[r].step \in {"done", "refused", "unknown"}
    /\ oidcReq' = [oidcReq EXCEPT ![r] = None]
    /\ UNCHANGED <<provider, localVars, published, jwks, jwksLock, linked, transactions, nonces,
                   identityOps>>

(***************************************************************************)
(* OpenID Connect: the browser login.                                      *)
(***************************************************************************)

CreateOidcAuthorizationRequest ==
    /\ provider = "oidc" /\ IdentityOp /\ nonces' = nonces + 1
    /\ transactions' = transactions \cup {[state |-> nonces + 1, nonce |-> nonces + 1, late |-> FALSE]}
    /\ UNCHANGED <<provider, localVars, published, jwks, jwksLock, oidcReq, linked>>
TransactionLapses(x) ==
    /\ x \in transactions /\ ~x.late
    /\ transactions' = (transactions \ {x}) \cup {[x EXCEPT !.late = TRUE]}
    /\ UNCHANGED <<provider, localVars, published, jwks, jwksLock, oidcReq, linked, nonces, identityOps>>

\* The callback brings a state and a code; the code stands for the nonce of the
\* login in which the provider issued it.  The transaction is deleted before
\* the code is exchanged, and a late one is refused.
ConsumeOidcTransaction(r, x, email, code) ==
    /\ provider = "oidc" /\ IdentityOp /\ oidcReq[r] = None /\ x \in transactions
    /\ transactions' = transactions \ {x}
    /\ oidcReq' = [oidcReq EXCEPT ![r] =
           [email |-> email, kid |-> published, nonce |-> code, expected |-> x.nonce,
            step |-> IF x.late THEN "refused" ELSE "exchange",
            looked |-> 0, refreshed |-> FALSE, good |-> TRUE]]
    /\ UNCHANGED <<provider, localVars, published, jwks, jwksLock, linked, nonces>>

ExchangeAuthorizationCode(r, ok) ==
    /\ Running(r, "exchange")
    /\ Progress(r, IF ok THEN "keys" ELSE "refused")
    /\ UNCHANGED <<provider, localVars, published, jwks, jwksLock, linked, transactions, nonces,
                   identityOps>>

(***************************************************************************)
(* Specification.                                                          *)
(***************************************************************************)

\* An OIDC deployment has its accounts from a bootstrap.
IdentityInit ==
    /\ \E explicit \in {"", "local-jwt", "oidc"}, localMode \in BOOLEAN :
           provider = AuthBackend(explicit, localMode)
    /\ accounts = [e \in Emails |->
           IF provider = "oidc" THEN [uid |-> 0, password |-> 0, disabled |-> FALSE, version |-> 0]
           ELSE None]
    /\ uidsMade = 0 /\ bearer = {} /\ signingKey = 1 /\ previousKeys = 0
    /\ login = None /\ accountEdit = None /\ firebaseUser = "empty" /\ verified = None
    /\ published = 1 /\ jwks = None /\ jwksLock = None
    /\ oidcReq = [r \in OidcRequests |-> None] /\ linked = [e \in Emails |-> None]
    /\ transactions = {} /\ nonces = 0 /\ identityOps = 0

AccountNext ==
    \/ \E e \in Emails :
           \/ CreateLocalUser(e) \/ LinkOidcSubject(e)
           \/ \E pw \in 1..uidsMade : AuthenticateCredentials(e, pw)
           \/ \E kind \in {"disable", "enable", "password"} : BeginAccountEdit(e, kind)
    \/ IssueAccessToken \/ ApplyAccountEdit \/ ResetPassword
    \/ \E keep \in 0..1 : RotateSigningKey(keep)
    \/ \E token \in bearer : GetCurrentUserLocalJwt(token)
    \/ \E token \in {"stub", "other"} : GetCurrentUserLocalMode(token)
    \/ \E ok \in BOOLEAN : FirebaseGetCurrentUser(ok) \/ ResolveUserByUid(ok)
    \/ FirebaseCacheLapses

OidcNext ==
    \/ ProviderRotates \/ JwksLapses \/ CreateOidcAuthorizationRequest
    \/ \E x \in transactions : TransactionLapses(x)
    \/ \E r \in OidcRequests :
           \/ \E e \in Emails, kid \in 1..MaxKeys : VerifyOidcToken(r, e, kid)
           \/ \E x \in transactions, e \in Emails, code \in 1..nonces :
                  ConsumeOidcTransaction(r, x, e, code)
           \/ \E ok \in BOOLEAN : ExchangeAuthorizationCode(r, ok)
           \/ CachedJwks(r) \/ LoadJwks(r) \/ JwksArrives(r) \/ JwksFails(r)
           \/ SelectJwk(r) \/ DecodeOidcToken(r) \/ OidcAnswered(r)

IdentityNext == AccountNext \/ OidcNext

IdentitySpec == IdentityInit /\ [][IdentityNext]_identityVars

(***************************************************************************)
(* Properties.                                                             *)
(***************************************************************************)

\* Whatever administrators do between a password check, the issue of the token
\* and its use, a verification never returns an account that is disabled at
\* that moment, or one whose record was replaced by another account's.
VerifyStep ==
    verified' \in Emails /\ (verified' # verified \/ identityOps' # identityOps) => Live(verified')
OnlyLiveAccounts == [][VerifyStep]_identityVars

\* A browser login that completes was started by the transaction it consumed:
\* a code of another login is refused, however callbacks are mixed up.
LoginBound ==
    \A r \in OidcRequests :
        oidcReq[r] # None /\ oidcReq[r].step = "done" /\ oidcReq[r].expected # None =>
            oidcReq[r].nonce = oidcReq[r].expected

\* A token signed with a published key is never refused for an unknown key,
\* although keys rotate and other requests load, drop and fill the shared
\* cache in the meantime: the keys a request looks at after it missed its own
\* were fetched after that key was published.
RefreshIsFresh ==
    \A r \in OidcRequests :
        oidcReq[r] # None /\ oidcReq[r].good => oidcReq[r].step # "unknown"
=============================================================================
