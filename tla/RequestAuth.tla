----------------------------- MODULE RequestAuth -----------------------------
(***************************************************************************)
(* How a request is authenticated, from the client's credential to the     *)
(* server's answer:                                                        *)
(*   - the client (client/request): goroutines share one bearer token, and *)
(*     a rejected request refreshes it under refreshMu and is sent again;  *)
(*   - the server (internal/httpapi/middleware, internal/access/           *)
(*     authentication): the runtime assembled at start-up evaluates a      *)
(*     request to a session or a refusal; a bearer token is verified with  *)
(*     the issuer's keys, cached under one mutex that is held while they   *)
(*     are fetched;                                                        *)
(*   - the issuer (Fence, external): rotates and retires signing keys,     *)
(*     issues tokens, and answers what the user may do.                    *)
(* Time is a clock that never goes back.  Signatures, header encodings and *)
(* the JSON of the key set are left out: a token is its key id and expiry. *)
(***************************************************************************)
EXTENDS Integers, Sequences

CONSTANTS
    Clients,       \* the client's goroutines, one request each at a time
    Deployments,   \* the server configurations considered
    Messages,      \* the requests considered: route, header, sent by the retrying client
    Ttl,           \* defaultJWKSCacheTTL
    Cooldown,      \* defaultUnknownKeyCooldown
    FetchTimeout,  \* defaultAuthenticationTimeout of the issuer client
    RetryMax,      \* retryablehttp's RetryMax
    TokenLife,     \* lifetime of an issued token
    MaxTime,       \* bound: the clock
    MaxKid,        \* bound: key rotations
    MaxTokens      \* bound: issued tokens

Never == -1
Nobody == "nobody"

\* A line of the local authorization file, for the project the routes are about;
\* an empty method set or an empty password is a line that does not parse.
Row == [user : {"admin", "listed"}, password : {"", "right", "wrong"}, methods : SUBSET {"read", "write", "*"}]

\* "current": the shared bearer token; the other values are what a local client
\* or a caller that sets its own header sends.
Headers == {"none", "current", "admin", "listed", "unlisted", "other"}
Routes == {"metadata", "protected"}

ASSUME AuthAssumption ==
    /\ {Ttl, Cooldown, FetchTimeout, RetryMax, TokenLife, MaxTime, MaxKid, MaxTokens} \subseteq Nat
    /\ FetchTimeout < Ttl /\ Cooldown <= Ttl
    /\ Nobody \notin Clients
    /\ Messages \subseteq [route : Routes, hdr : Headers, retryable : BOOLEAN]
    /\ Deployments \subseteq [mode : {"gen3", "local"}, authn : {"builtin", "plugin"}, authz : BOOLEAN,
                              mock : BOOLEAN, mockHeader : BOOLEAN,
                              basic : BOOLEAN, csv : BOOLEAN, rows : Seq(Row)]

VARIABLES
    clock,
    signing, published, retired,   \* issuer: current kid, key set, retirement times
    tokens,                        \* issued tokens: kid, expiry, the token refreshed
    granted,                       \* issuer: does the user hold the privilege
    current,                       \* client: index of the shared access token
    refreshMu,                     \* client: holder of refreshMu
    cfg,                           \* server: its deployment
    cache, mu,                     \* server: the key cache, the holder of its mutex
    req                            \* req[p]: the request of p, through client and server

issuerState == <<signing, published, retired, granted>>
clientState == <<tokens, current, refreshMu>>
serverState == <<cache, mu>>
authVars == <<clock, issuerState, clientState, cfg, serverState, req>>

IdleRequest == [pc |-> "idle", route |-> "metadata", hdr |-> "none", retryable |-> FALSE, tok |-> 0,
         tries |-> 0, status |-> 0, forced |-> FALSE, start |-> 0,
         reply |-> {}, atSend |-> FALSE]

AuthInit ==
    /\ clock = 0
    /\ signing = 1 /\ published = {1} /\ retired = [k \in 1..MaxKid |-> Never]
    /\ tokens = <<[kid |-> 1, exp |-> TokenLife, replaces |-> 0]>>
    /\ granted = TRUE
    /\ current = 1
    /\ refreshMu = Nobody
    /\ cfg \in Deployments
    /\ cache = [keys |-> {}, loaded |-> FALSE, lastFetch |-> 0, lastUnknownKeyRefresh |-> Never]
    /\ mu = Nobody
    /\ req = [p \in Clients |-> IdleRequest]

-----------------------------------------------------------------------------
(* The issuer, and time. *)

Tick ==
    /\ clock < MaxTime
    /\ cfg.mode = "gen3" /\ ~cfg.mock
    /\ clock' = clock + 1
    /\ UNCHANGED <<issuerState, clientState, cfg, serverState, req>>

RotateKey ==
    /\ cfg.mode = "gen3" /\ ~cfg.mock
    /\ signing < MaxKid
    /\ signing' = signing + 1
    /\ published' = published \cup {signing + 1}
    /\ UNCHANGED <<clock, retired, granted, clientState, cfg, serverState, req>>

RetireKey(k) ==
    /\ k \in published \ {signing}
    /\ published' = published \ {k}
    /\ retired' = [retired EXCEPT ![k] = clock]
    /\ UNCHANGED <<clock, signing, granted, clientState, cfg, serverState, req>>

Revoke ==
    /\ cfg.mode = "gen3" /\ ~cfg.mock
    /\ granted
    /\ granted' = FALSE
    /\ UNCHANGED <<clock, signing, published, retired, clientState, cfg, serverState, req>>

Unexpired(t) == tokens[t].exp > clock

-----------------------------------------------------------------------------
(* The server's runtime and middleware. *)

\* The authentication mechanism assembled at start-up: a plugin that loads wins,
\* the built-in ones are the fallback, and gen3 mock mode has none.
Authentication ==
    CASE cfg.authn = "plugin" -> "plugin"
      [] cfg.mode = "local" -> "local"
      [] cfg.mock -> "absent"
      [] OTHER -> "gen3"

\* loadLocalAuthzCSV: one bad line, two passwords for one user, or no user at all
\* and the file does not load.
FileLoads(rows) ==
    /\ rows # <<>>
    /\ \A i \in 1..Len(rows) : rows[i].password # "" /\ rows[i].methods # {}
    /\ \A i, j \in 1..Len(rows) : rows[i].user = rows[j].user => rows[i].password = rows[j].password

FileUsers(rows) == {rows[i].user : i \in 1..Len(rows)}
FilePassword(rows, user) == LET i == CHOOSE j \in 1..Len(rows) : rows[j].user = user IN rows[i].password

\* expandLocalAuthzMethods: "write" stands for the four mutating methods.
ExpandMethods(methods) ==
    (methods \ {"write"}) \cup (IF "write" \in methods THEN {"file_upload", "create", "update", "delete"} ELSE {})

\* The privileges of a user add up over the lines of the file.
FilePrivileges(rows, user) ==
    UNION {ExpandMethods(rows[i].methods) : i \in {j \in 1..Len(rows) : rows[j].user = user}}

\* A plugin that accepts live tokens and the known local users.
PluginAccepts(p) ==
    \/ /\ req[p].hdr = "current"
       /\ req[p].tok # 0
       /\ Unexpired(req[p].tok)
       /\ tokens[req[p].tok].kid \in published
    \/ req[p].hdr \in {"admin", "listed"}

\* localAuthPlugin: the users of the file replace the one configured pair, and
\* without either every request is accepted, with no subject.
LocalAccepts(hdr) ==
    CASE cfg.csv -> hdr \in FileUsers(cfg.rows) /\ FilePassword(cfg.rows, hdr) = "right"
      [] ~cfg.csv /\ cfg.basic -> hdr = "admin"
      [] OTHER -> TRUE

Done(p) == req' = [req EXCEPT ![p] = IdleRequest]
GoTo(p, pc) == req' = [req EXCEPT ![p].pc = pc, ![p].forced = FALSE, ![p].start = 0, ![p].reply = {}]
Answer(p, status) ==
    req' = [req EXCEPT ![p].pc = "reply", ![p].status = status,
                       ![p].forced = FALSE, ![p].start = 0, ![p].reply = {}]

\* The handler's decision, through HasMethodAccess, and ClassifyError's status.
HandlerStatus(p, session) ==
    CASE req[p].route = "metadata" \/ session \in {"privileged", "unenforced"} -> 200
      [] req[p].route = "protected" /\ session = "anonymous" -> 401
      [] req[p].route = "protected" /\ session = "unprivileged" -> 403

Continue(p, session) == Answer(p, HandlerStatus(p, session))

\* authorize: without a plugin the request goes on; a plugin decides for itself
\* or fails.
Authorize(p, session) ==
    \/ Continue(p, session)
    \/ cfg.authz /\ Answer(p, 403)
    \/ cfg.authz /\ Answer(p, 401)

LocalMechanismAccepts(p) ==
    IF Authentication = "plugin" THEN PluginAccepts(p) ELSE LocalAccepts(req[p].hdr)

\* Mutant: a file that does not load is only logged.
EvaluateLocalAnyway(p) ==
    IF LocalMechanismAccepts(p) THEN Continue(p, "unenforced") ELSE Answer(p, 401)

\* evaluateLocal: a file that does not load refuses everything; one that does
\* also decides who, of the users a plugin accepts, gets in and with which
\* privileges ("update" is what the protected route needs).
EvaluateLocal(p) ==
    LET user == req[p].hdr
    IN  CASE cfg.csv /\ ~FileLoads(cfg.rows) -> Answer(p, 500)
          [] (cfg.csv => FileLoads(cfg.rows)) /\ ~LocalMechanismAccepts(p) -> Answer(p, 401)
          [] ~cfg.csv /\ LocalMechanismAccepts(p) -> Continue(p, "unenforced")
          [] cfg.csv /\ FileLoads(cfg.rows) /\ LocalMechanismAccepts(p) ->
               IF user \notin FileUsers(cfg.rows) THEN Answer(p, 403)
               ELSE IF {"update", "*"} \cap FilePrivileges(cfg.rows, user) # {}
                      THEN Continue(p, "privileged") ELSE Continue(p, "unprivileged")

\* evaluateGen3, up to the verification of the token: without a header the
\* request goes on as anonymous; the built-in mechanism accepts any header, and
\* the token decides about privileges only.
EvaluateGen3(p) ==
    LET hdr == req[p].hdr
    IN  CASE cfg.mock /\ cfg.mockHeader /\ hdr = "none" -> Continue(p, "anonymous")
          [] cfg.mock /\ ~(cfg.mockHeader /\ hdr = "none") ->
               Authorize(p, "privileged")
          [] ~cfg.mock /\ hdr = "none" -> Continue(p, "anonymous")
          [] ~cfg.mock /\ hdr # "none" /\ Authentication = "plugin" /\ ~PluginAccepts(p) -> Answer(p, 401)
          [] OTHER -> IF hdr = "current" THEN GoTo(p, "lookup") ELSE Authorize(p, "unprivileged")

\* FiberMiddleware: an anonymous request for public metadata is not evaluated.
Middleware(p) ==
    /\ req[p].pc = "middleware"
    /\ IF req[p].route = "metadata" /\ req[p].hdr = "none"
         THEN Continue(p, IF cfg.mode = "gen3" THEN "anonymous" ELSE "unenforced")
         ELSE IF cfg.mode = "gen3" THEN EvaluateGen3(p) ELSE EvaluateLocal(p)
    /\ UNCHANGED <<clock, issuerState, clientState, cfg, serverState>>

-----------------------------------------------------------------------------
(* The issuer's key set, cached: tokenVerifier and jwksCache. *)

Fresh == cache.loaded /\ clock - cache.lastFetch < Ttl

RefreshCooldownActive ==
    /\ cache.lastUnknownKeyRefresh # Never
    /\ clock - cache.lastUnknownKeyRefresh < Cooldown

\* The token is verified, and its expiry is looked at last; a token that is not
\* good leaves the session without privileges, it does not end the request.
Verified(p, keys) == tokens[req[p].tok].kid \in keys /\ Unexpired(req[p].tok)
AfterVerify(p, keys) ==
    IF Verified(p, keys) THEN GoTo(p, "privileges") ELSE Authorize(p, "unprivileged")

\* keyForToken, from taking the mutex to the answer or to the fetch it needs:
\* an ordinary one for a cold or expired set, a forced one for an unknown key.
KeyForToken(p) ==
    LET known == tokens[req[p].tok].kid \in cache.keys
        ordinary == ~Fresh /\ ~RefreshCooldownActive
        forced == Fresh /\ ~known /\ ~RefreshCooldownActive
    IN  /\ req[p].pc = "lookup"
        /\ mu = Nobody
        /\ IF ordinary \/ forced
             THEN /\ mu' = p
                  /\ req' = [req EXCEPT ![p].pc = "fetch", ![p].forced = forced, ![p].start = clock]
             ELSE /\ AfterVerify(p, IF Fresh THEN cache.keys ELSE {})
                  /\ UNCHANGED mu
        /\ cache' = [cache EXCEPT !.lastUnknownKeyRefresh = IF forced THEN clock ELSE @]
        /\ UNCHANGED <<clock, issuerState, clientState, cfg>>

\* The issuer answers; the answer may reach the server after a later rotation.
ServeKeys(p) ==
    /\ req[p].pc = "fetch"
    /\ req' = [req EXCEPT ![p].pc = "fetched", ![p].reply = published]
    /\ UNCHANGED <<clock, issuerState, clientState, cfg, serverState>>

\* Mutant: a key set counts as fresh from the moment its answer arrived, and a
\* set that was already there is kept beside it.
FetchedCacheKeepingOld(p) ==
    [keys |-> req[p].reply \cup cache.keys, loaded |-> TRUE, lastFetch |-> clock,
     lastUnknownKeyRefresh |-> cache.lastUnknownKeyRefresh]

\* fetchKeysLocked replaces the set as a whole, dated by the start of the fetch;
\* keyForToken then settles the cooldown.
FetchedCache(p) ==
    [keys |-> req[p].reply, loaded |-> TRUE, lastFetch |-> req[p].start,
     lastUnknownKeyRefresh |->
        CASE req[p].forced -> cache.lastUnknownKeyRefresh
          [] ~req[p].forced /\ tokens[req[p].tok].kid \in req[p].reply -> Never
          [] OTHER -> req[p].start]

FetchKeys(p) ==
    /\ req[p].pc = "fetched"
    /\ clock - req[p].start <= FetchTimeout
    /\ cache' = FetchedCache(p)
    /\ AfterVerify(p, req[p].reply)
    /\ mu' = Nobody
    /\ UNCHANGED <<clock, issuerState, clientState, cfg>>

\* The issuer cannot be reached, answers with an error, or answers too late: a
\* failed ordinary fetch consumes the cooldown too.
FetchKeysFails(p) ==
    /\ req[p].pc \in {"fetch", "fetched"}
    /\ cache' = [cache EXCEPT !.lastUnknownKeyRefresh = req[p].start]
    /\ Authorize(p, "unprivileged")
    /\ mu' = Nobody
    /\ UNCHANGED <<clock, issuerState, clientState, cfg>>

\* Mutant: privileges are taken from the token when the issuer does not answer.
PrivilegesOr(p, answered) == IF answered => granted THEN "privileged" ELSE "unprivileged"

\* Resolve: what the issuer says the user may do now, or nothing.
ResolvedSession(p, answered) == IF answered /\ granted THEN "privileged" ELSE "unprivileged"

FetchPrivileges(p, answered) ==
    /\ req[p].pc = "privileges"
    /\ Authorize(p, ResolvedSession(p, answered))
    /\ UNCHANGED <<clock, issuerState, clientState, cfg, serverState>>

-----------------------------------------------------------------------------
(* The client: AuthTransport and the retrying requestor. *)

\* apply: the token the transport puts on a request, read when it is sent.
Carried(hdr) == IF hdr = "current" THEN current ELSE 0

Send(p, c) ==
    /\ req[p].pc = "idle"
    /\ c.hdr = "current" => cfg.mode = "gen3"
    /\ c.hdr \in {"admin", "listed", "unlisted"} => cfg.mode = "local"
    /\ req' = [req EXCEPT ![p] = [IdleRequest EXCEPT !.pc = "middleware", !.route = c.route, !.hdr = c.hdr,
                                  !.retryable = c.retryable, !.tok = Carried(c.hdr), !.atSend = granted]]
    /\ UNCHANGED <<clock, issuerState, clientState, cfg, serverState>>

Bearer(p) == req[p].hdr = "current"

\* CheckRetry: a 401 to a request that carried the shared token refreshes the
\* token before the remaining attempts are counted; a 5xx is simply sent again;
\* only bodyless reads go through the retrying client at all.
CheckRetry(p) ==
    /\ req[p].pc = "reply"
    /\ CASE req[p].retryable /\ req[p].status = 401 /\ Bearer(p) -> GoTo(p, "refresh")
         [] req[p].retryable /\ req[p].status >= 500 -> GoTo(p, "retry")
         [] OTHER -> Done(p)
    /\ UNCHANGED <<clock, issuerState, clientState, cfg, serverState>>

Resend(p) ==
    /\ req[p].pc = "retry"
    /\ IF req[p].tries = RetryMax
         THEN Done(p)
         ELSE req' = [req EXCEPT ![p] = [IdleRequest EXCEPT !.pc = "middleware", !.route = req[p].route,
                                         !.hdr = req[p].hdr, !.retryable = TRUE, !.tries = req[p].tries + 1,
                                         !.tok = Carried(req[p].hdr), !.atSend = granted]]
    /\ UNCHANGED <<clock, issuerState, clientState, cfg, serverState>>

\* Mutant: any rejection refreshes, whatever the current token is.
AlwaysStale(p) == TRUE

\* The rejected token is still the current one: nobody refreshed it meanwhile.
RejectedIsCurrent(p) == current = req[p].tok

RefreshIfCurrent(p) ==
    /\ req[p].pc = "refresh"
    /\ refreshMu = Nobody
    /\ IF RejectedIsCurrent(p)
         THEN refreshMu' = p /\ GoTo(p, "renew")
         ELSE GoTo(p, "retry") /\ UNCHANGED refreshMu
    /\ UNCHANGED <<clock, issuerState, tokens, current, cfg, serverState>>

\* NewAccessToken: a new token replaces the old one once it has been saved.
NewAccessToken(p) ==
    /\ req[p].pc = "renew"
    /\ Len(tokens) < MaxTokens
    /\ tokens' = Append(tokens, [kid |-> signing, exp |-> clock + TokenLife, replaces |-> req[p].tok])
    /\ current' = Len(tokens) + 1
    /\ refreshMu' = Nobody
    /\ GoTo(p, "retry")
    /\ UNCHANGED <<clock, issuerState, cfg, serverState>>

\* The refresh or the saving of its result fails: the old token stays, and the
\* request ends with the error.
NewAccessTokenFails(p) ==
    /\ req[p].pc = "renew"
    /\ refreshMu' = Nobody
    /\ Done(p)
    /\ UNCHANGED <<clock, issuerState, tokens, current, cfg, serverState>>

Step(p) ==
    \/ Middleware(p) \/ KeyForToken(p) \/ ServeKeys(p) \/ FetchKeys(p) \/ FetchKeysFails(p)
    \/ \E answered \in BOOLEAN : FetchPrivileges(p, answered)
    \/ CheckRetry(p) \/ Resend(p) \/ RefreshIfCurrent(p)
    \/ NewAccessToken(p) \/ NewAccessTokenFails(p)

AuthNext ==
    \/ Tick \/ RotateKey \/ Revoke
    \/ \E k \in 1..MaxKid : RetireKey(k)
    \/ \E p \in Clients :
         \/ \E c \in Messages : Send(p, c)
         \/ Step(p)

AuthSpec == AuthInit /\ [][AuthNext]_authVars

-----------------------------------------------------------------------------
(* Properties. *)

AuthTypeOK ==
    /\ published \subseteq 1..MaxKid /\ signing \in published
    /\ current \in 1..Len(tokens)
    /\ cache.keys \subseteq 1..MaxKid
    /\ mu \in Clients \cup {Nobody} /\ refreshMu \in Clients \cup {Nobody}
    /\ \A p \in Clients : req[p].pc \in {"fetch", "fetched"} <=> mu = p
    /\ \A p \in Clients : req[p].pc = "renew" <=> refreshMu = p

\* A key the issuer has withdrawn stops verifying tokens within the cache's time
\* to live: a set is dated by the start of its fetch, so neither a slow answer
\* nor a late rotation stretches it (jwks.go fetchKeysLocked, keyForToken).
RetiredKeysExpire ==
    [][\A p \in Clients :
         (req[p].pc \in {"lookup", "fetched"} /\ req'[p].pc = "privileges") =>
           LET k == tokens[req[p].tok].kid
           IN  k \in published \/ clock - retired[k] < Ttl]_authVars

\* A protected operation succeeds only for a user who holds the privilege.  In
\* gen3 mode, one who held it when that attempt was sent: a revocation is not
\* outlived by any state of the server (token_auth.go Resolve, evaluate.go
\* evaluateGen3).  With a local authorization file, one to whom a line of a file
\* that loads gives the method, also when a plugin authenticates (evaluate.go
\* evaluateLocal).
ProtectedAuthorized ==
    \A p \in Clients :
      (req[p].pc = "reply" /\ req[p].status = 200 /\ req[p].route = "protected") =>
        /\ cfg.mode = "gen3" /\ ~cfg.mock => req[p].atSend /\ req[p].tok # 0
        /\ cfg.mode = "local" /\ cfg.csv =>
             /\ FileLoads(cfg.rows)
             /\ \E i \in 1..Len(cfg.rows) :
                  cfg.rows[i].user = req[p].hdr /\ {"write", "*"} \cap cfg.rows[i].methods # {}

\* Requests rejected together refresh the token they carried once: no two tokens
\* replace the same one, so a fresh token is never thrown away
\* (client/request/auth.go refreshIfCurrent).
OneRefreshPerToken ==
    \A i, j \in 1..Len(tokens) : tokens[i].replaces = tokens[j].replaces => i = j

=============================================================================
