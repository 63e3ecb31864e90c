-------------------------- MODULE RequestAuthProofs --------------------------
(***************************************************************************)
(* The guarantees of authentication, for every set of concurrent requests, *)
(* every deployment and authorization file, and all durations: retired     *)
(* keys expire, protected operations are authorized, a token is refreshed  *)
(* once.                                                                   *)
(***************************************************************************)
EXTENDS RequestAuth, TLAPS

Steps == {"idle", "middleware", "lookup", "fetch", "fetched", "privileges", "reply",
          "refresh", "retry", "renew"}

RequestStates ==
    [pc : Steps, route : Routes, hdr : Headers, retryable : BOOLEAN, tok : Nat, tries : Nat,
     status : Int, forced : BOOLEAN, start : Nat, reply : SUBSET Nat, atSend : BOOLEAN]

TypeInv ==
    /\ clock \in Nat
    /\ signing \in Nat /\ published \subseteq Nat /\ retired \in [1..MaxKid -> Int]
    /\ granted \in BOOLEAN
    /\ tokens \in Seq([kid : Nat, exp : Int, replaces : Nat])
    /\ cfg \in Deployments
    /\ cache \in [keys : SUBSET Nat, loaded : BOOLEAN, lastFetch : Nat,
                  lastUnknownKeyRefresh : Int]
    /\ req \in [Clients -> RequestStates]

\* The current token is the last one issued, and each replaced the one before.
TokensInTurn ==
    /\ current = Len(tokens) /\ current # 0
    /\ \A i \in 1..Len(tokens) : tokens[i].replaces = i - 1

\* Key k was published at time t or later.
PublishedSince(k, t) == k \in published \/ (k \in 1..MaxKid /\ retired[k] >= t)

\* The cached keys were all published when their fetch started, or later.
CacheDated ==
    /\ cache.lastFetch <= clock
    /\ \A k \in cache.keys : PublishedSince(k, cache.lastFetch)

\* A protected operation was answered with success for a user who may.
Permitted(r) ==
    /\ cfg.mode = "gen3" /\ ~cfg.mock => r.atSend /\ r.tok # 0
    /\ cfg.mode = "local" /\ cfg.csv =>
         /\ FileLoads(cfg.rows)
         /\ \E i \in 1..Len(cfg.rows) :
              cfg.rows[i].user = r.hdr /\ {"write", "*"} \cap cfg.rows[i].methods # {}

\* What holds of the request r of goroutine p on its way.
OnItsWay(p, r) ==
    /\ r.pc = "renew" => refreshMu = p /\ r.tok = current
    /\ r.pc \in {"fetch", "fetched"} => r.start <= clock
    /\ r.pc = "fetched" => \A k \in r.reply : PublishedSince(k, r.start)
    /\ r.pc \in {"lookup", "fetch", "fetched", "privileges"} =>
         r.hdr = "current" /\ cfg.mode = "gen3" /\ ~cfg.mock
    /\ r.pc # "idle" => /\ granted => r.atSend
                        /\ r.hdr = "current" => r.tok \in 1..Len(tokens)
    /\ r.pc = "reply" /\ r.status = 200 /\ r.route = "protected" => Permitted(r)

IInv ==
    /\ TypeInv /\ TokensInTurn /\ CacheDated
    /\ \A p \in Clients : OnItsWay(p, req[p])

-----------------------------------------------------------------------------
(* How a request moves. *)

\* What a request carries stays with it while the server answers.
Carries(r, s) == r.route = s.route /\ r.hdr = s.hdr /\ r.tok = s.tok /\ r.atSend = s.atSend

LEMMA IdleType == IdleRequest \in RequestStates /\ IdleRequest.pc = "idle"
BY DEF IdleRequest, RequestStates, Steps, Routes, Headers

LEMMA Moved ==
    ASSUME TypeInv, NEW p \in Clients, NEW r \in RequestStates, req' = [req EXCEPT ![p] = r]
    PROVE  /\ req' \in [Clients -> RequestStates]
           /\ req'[p] = r
           /\ \A q \in Clients \ {p} : req'[q] = req[q]
BY DEF TypeInv

LEMMA GoToEffect ==
    ASSUME TypeInv, NEW p \in Clients, NEW pc \in Steps, GoTo(p, pc)
    PROVE  \E r \in RequestStates :
             req' = [req EXCEPT ![p] = r] /\ r.pc = pc /\ Carries(r, req[p])
<1> DEFINE r == [req[p] EXCEPT !.pc = pc, !.forced = FALSE, !.start = 0, !.reply = {}]
<1>1. req[p] \in RequestStates
  BY DEF TypeInv
<1>2. r \in RequestStates
  BY <1>1 DEF RequestStates
<1>3. r.pc = pc /\ Carries(r, req[p])
  BY <1>1 DEF RequestStates, Carries
<1>4. req' = [req EXCEPT ![p] = r]
  BY DEF GoTo, TypeInv
<1> HIDE DEF r
<1> QED
  BY <1>2, <1>3, <1>4

LEMMA AnswerEffect ==
    ASSUME TypeInv, NEW p \in Clients, NEW status \in Int, Answer(p, status)
    PROVE  \E r \in RequestStates :
             /\ req' = [req EXCEPT ![p] = r]
             /\ r.pc = "reply" /\ r.status = status /\ Carries(r, req[p])
<1> DEFINE r == [req[p] EXCEPT !.pc = "reply", !.status = status,
                               !.forced = FALSE, !.start = 0, !.reply = {}]
<1>1. req[p] \in RequestStates
  BY DEF TypeInv
<1>2. r \in RequestStates
  BY <1>1 DEF RequestStates, Steps
<1>3. r.pc = "reply" /\ r.status = status /\ Carries(r, req[p])
  BY <1>1 DEF RequestStates, Carries
<1>4. req' = [req EXCEPT ![p] = r]
  BY DEF Answer, TypeInv
<1> HIDE DEF r
<1> QED
  BY <1>2, <1>3, <1>4

\* A step of one request that leaves issuer, clock, tokens and deployment alone
\* has to be right about that request, the key cache and the refresh lock.
LEMMA RequestMoves ==
    ASSUME IInv, NEW p \in Clients, NEW r \in RequestStates, req' = [req EXCEPT ![p] = r],
           UNCHANGED <<clock, signing, published, retired, granted, tokens, current, cfg>>,
           cache' \in [keys : SUBSET Nat, loaded : BOOLEAN, lastFetch : Nat,
                       lastUnknownKeyRefresh : Int],
           CacheDated',
           \A q \in Clients \ {p} : refreshMu = q => refreshMu' = q,
           OnItsWay(p, r)'
    PROVE  IInv'
<1>1. /\ req' \in [Clients -> RequestStates]
      /\ req'[p] = r
      /\ \A q \in Clients \ {p} : req'[q] = req[q]
  BY Moved DEF IInv
<1>2. TypeInv'
  BY <1>1 DEF IInv, TypeInv
<1>3. TokensInTurn'
  BY DEF IInv, TokensInTurn
<1>4. ASSUME NEW q \in Clients \ {p} PROVE OnItsWay(q, req[q])'
  <2>1. OnItsWay(q, req[q])
    BY DEF IInv
  <2>2. req'[q] = req[q]
    BY <1>1
  <2> QED
    BY <2>1, <2>2 DEF OnItsWay, PublishedSince, Permitted
<1>5. \A q \in Clients : OnItsWay(q, req[q])'
  BY <1>1, <1>4
<1> QED
  BY <1>2, <1>3, <1>5 DEF IInv

\* The same for a step that leaves the cache and the refresh lock alone too.
LEMMA RequestAlone ==
    ASSUME IInv, NEW p \in Clients, NEW r \in RequestStates, req' = [req EXCEPT ![p] = r],
           UNCHANGED <<clock, signing, published, retired, granted, tokens, current, cfg, cache,
                       refreshMu>>,
           OnItsWay(p, r)
    PROVE  IInv'
<1>1. CacheDated'
  BY DEF IInv, CacheDated, PublishedSince
<1>2. OnItsWay(p, r)'
  BY DEF OnItsWay, PublishedSince, Permitted
<1> QED
  BY <1>1, <1>2, RequestMoves DEF IInv, TypeInv

LEMMA InitInv == AuthInit => IInv
<1> SUFFICES ASSUME AuthInit PROVE IInv
  OBVIOUS
<1>1. tokens \in Seq([kid : Nat, exp : Int, replaces : Nat]) /\ Len(tokens) = 1 /\ tokens[1].replaces = 0
  BY AuthAssumption DEF AuthInit
<1>2. TypeInv
  BY AuthAssumption, <1>1, IdleType DEF AuthInit, TypeInv, Never
<1>3. TokensInTurn
  BY <1>1 DEF AuthInit, TokensInTurn
<1>4. CacheDated
  BY DEF AuthInit, CacheDated
<1>5. \A p \in Clients : req[p].pc = "idle"
  BY IdleType DEF AuthInit
<1>6. \A p \in Clients : OnItsWay(p, req[p])
  BY <1>5 DEF OnItsWay
<1> QED
  BY <1>2, <1>3, <1>4, <1>6 DEF IInv

-----------------------------------------------------------------------------
(* The issuer and time. *)

LEMMA TickInv ==
    ASSUME IInv, Tick
    PROVE  IInv'
<1>1. TypeInv' /\ TokensInTurn' /\ CacheDated'
  BY DEF Tick, IInv, TypeInv, TokensInTurn, CacheDated, PublishedSince, issuerState, clientState, serverState
<1>2. ASSUME NEW p \in Clients PROVE OnItsWay(p, req[p])'
  <2>1. OnItsWay(p, req[p]) /\ req[p].start \in Nat
    BY DEF IInv, TypeInv, RequestStates
  <2> QED
    BY <2>1 DEF Tick, IInv, TypeInv, OnItsWay, PublishedSince, Permitted, issuerState, clientState, serverState
<1> QED
  BY <1>1, <1>2 DEF IInv

\* Publishing a key, or retiring one now, changes nothing about the past.
LEMMA KeysStayDated ==
    ASSUME IInv, RotateKey \/ \E k \in 1..MaxKid : RetireKey(k),
           NEW j, NEW t \in Nat, t <= clock, PublishedSince(j, t)
    PROVE  PublishedSince(j, t)'
<1>1. CASE RotateKey
  BY <1>1 DEF RotateKey, PublishedSince
<1>2. ASSUME NEW k \in 1..MaxKid, RetireKey(k) PROVE PublishedSince(j, t)'
  <2>1. retired'[k] = clock /\ \A i \in (1..MaxKid) \ {k} : retired'[i] = retired[i]
    BY <1>2 DEF RetireKey, IInv, TypeInv
  <2> QED
    BY <1>2, <2>1 DEF RetireKey, PublishedSince
<1> QED
  BY <1>1, <1>2

LEMMA IssuerInv ==
    ASSUME IInv, RotateKey \/ Revoke \/ \E k \in 1..MaxKid : RetireKey(k)
    PROVE  IInv'
<1>1. CASE Revoke
  <2>1. TypeInv' /\ TokensInTurn' /\ CacheDated'
    BY <1>1 DEF Revoke, IInv, TypeInv, TokensInTurn, CacheDated, PublishedSince, clientState, serverState
  <2>2. ASSUME NEW p \in Clients PROVE OnItsWay(p, req[p])'
    <3>1. OnItsWay(p, req[p])
      BY DEF IInv
    <3> QED
      BY <1>1, <3>1 DEF Revoke, OnItsWay, PublishedSince, Permitted, clientState, serverState
  <2> QED
    BY <2>1, <2>2 DEF IInv
<1>2. CASE RotateKey \/ \E k \in 1..MaxKid : RetireKey(k)
  <2>1. UNCHANGED <<clock, granted, clientState, cfg, serverState, req>>
    BY <1>2 DEF RotateKey, RetireKey
  <2>2. signing' \in Nat /\ published' \subseteq Nat /\ retired' \in [1..MaxKid -> Int]
    <3>1. CASE RotateKey
      BY <3>1 DEF RotateKey, IInv, TypeInv
    <3>2. ASSUME NEW k \in 1..MaxKid, RetireKey(k)
          PROVE  signing' \in Nat /\ published' \subseteq Nat /\ retired' \in [1..MaxKid -> Int]
      BY <3>2 DEF RetireKey, IInv, TypeInv
    <3> QED
      BY <1>2, <3>1, <3>2
  <2>3. TypeInv' /\ TokensInTurn'
    BY <2>1, <2>2 DEF IInv, TypeInv, TokensInTurn, clientState, serverState
  <2>4. CacheDated'
    <3>1. cache.lastFetch \in Nat
      BY DEF IInv, TypeInv
    <3>2. PICK t \in Nat : t = cache.lastFetch
      BY <3>1
    <3>3. \A k \in cache.keys : PublishedSince(k, t)'
      BY <1>2, <3>2, KeysStayDated DEF IInv, CacheDated
    <3> QED
      BY <2>1, <3>2, <3>3 DEF IInv, CacheDated, PublishedSince, serverState
  <2>5. ASSUME NEW p \in Clients PROVE OnItsWay(p, req[p])'
    <3>1. OnItsWay(p, req[p]) /\ req[p].start \in Nat
      BY DEF IInv, TypeInv, RequestStates
    <3>2. PICK t \in Nat : t = req[p].start
      BY <3>1
    <3>3. req[p].pc = "fetched" => \A k \in req[p].reply : PublishedSince(k, t)'
      BY <1>2, <3>1, <3>2, KeysStayDated DEF OnItsWay
    <3> QED
      BY <2>1, <3>1, <3>2, <3>3 DEF OnItsWay, Permitted, PublishedSince, clientState
  <2> QED
    BY <2>3, <2>4, <2>5 DEF IInv
<1> QED
  BY <1>1, <1>2

-----------------------------------------------------------------------------
(* The server's answer. *)

\* The handler lets a protected operation through for privileged sessions only,
\* and a plugin can only refuse.
LEMMA AuthorizeEffect ==
    ASSUME TypeInv, NEW p \in Clients,
           NEW session \in {"privileged", "unenforced", "anonymous", "unprivileged"},
           Authorize(p, session)
    PROVE  \E r \in RequestStates :
             /\ req' = [req EXCEPT ![p] = r]
             /\ r.pc = "reply" /\ Carries(r, req[p])
             /\ r.status = 200 /\ r.route = "protected" => session \in {"privileged", "unenforced"}
<1>1. req[p].route \in Routes
  BY DEF TypeInv, RequestStates
<1>2. PICK status \in Int :
        /\ Answer(p, status)
        /\ status = 200 /\ req[p].route = "protected" => session \in {"privileged", "unenforced"}
  <2>1. CASE Continue(p, session)
    <3>1. /\ HandlerStatus(p, session) \in Int
          /\ HandlerStatus(p, session) = 200 /\ req[p].route = "protected" =>
               session \in {"privileged", "unenforced"}
      BY <1>1 DEF HandlerStatus, Routes
    <3> QED
      BY <2>1, <3>1 DEF Continue
  <2>2. CASE Answer(p, 403) \/ Answer(p, 401)
    BY <2>2
  <2> QED
    BY <2>1, <2>2 DEF Authorize
<1> QED
  BY <1>2, AnswerEffect DEF Carries

\* An answer to a request on its way: what is left to show is that a success is
\* permitted.
LEMMA Answered ==
    ASSUME IInv, NEW p \in Clients, req[p].pc # "idle",
           NEW r \in RequestStates, r.pc = "reply", Carries(r, req[p]),
           r.status = 200 /\ r.route = "protected" => Permitted(r)
    PROVE  OnItsWay(p, r)
<1>1. OnItsWay(p, req[p])
  BY DEF IInv
<1> QED
  BY <1>1 DEF OnItsWay, Carries

\* A request that goes on to a step that asks for nothing more.
LEMMA GoesOn ==
    ASSUME IInv, NEW p \in Clients, req[p].pc # "idle",
           NEW r \in RequestStates, Carries(r, req[p]),
           r.pc \in {"lookup", "privileges", "refresh", "retry"},
           r.pc \in {"lookup", "privileges"} =>
             req[p].hdr = "current" /\ cfg.mode = "gen3" /\ ~cfg.mock
    PROVE  OnItsWay(p, r)
<1>1. OnItsWay(p, req[p])
  BY DEF IInv
<1> QED
  BY <1>1 DEF OnItsWay, Carries

\* In gen3 mode with an issuer only a resolved session is privileged, and none
\* is unenforced.
LEMMA Gen3NotPermitted ==
    ASSUME IInv, NEW p \in Clients, req[p].pc # "idle",
           NEW session \in {"anonymous", "unprivileged"}, Authorize(p, session)
    PROVE  \E r \in RequestStates : req' = [req EXCEPT ![p] = r] /\ OnItsWay(p, r) /\ r.pc = "reply"
<1>1. PICK r \in RequestStates :
             /\ req' = [req EXCEPT ![p] = r]
             /\ r.pc = "reply" /\ Carries(r, req[p])
             /\ ~(r.status = 200 /\ r.route = "protected")
  BY AuthorizeEffect DEF IInv
<1> QED
  BY <1>1, Answered

LEMMA EvaluateGen3Effect ==
    ASSUME IInv, NEW p \in Clients, req[p].pc # "idle", cfg.mode = "gen3",
           EvaluateGen3(p)
    PROVE  \E r \in RequestStates : req' = [req EXCEPT ![p] = r] /\ OnItsWay(p, r)
<1> DEFINE hdr == req[p].hdr
<1>0. /\ TypeInv
      /\ \A session : Continue(p, session) => Authorize(p, session)
  BY DEF IInv, Authorize
<1>1. CASE cfg.mock
  <2>1. PICK session \in {"anonymous", "privileged"} : Authorize(p, session)
    BY <1>0, <1>1 DEF EvaluateGen3
  <2>2. PICK r \in RequestStates :
          req' = [req EXCEPT ![p] = r] /\ r.pc = "reply" /\ Carries(r, req[p])
    BY <1>0, <2>1, AuthorizeEffect
  <2> QED
    BY <1>1, <2>2, Answered DEF Permitted
<1>2. CASE ~cfg.mock
  <2>1. \/ Continue(p, "anonymous")
        \/ Answer(p, 401)
        \/ hdr = "current" /\ GoTo(p, "lookup")
        \/ Authorize(p, "unprivileged")
    BY <1>2 DEF EvaluateGen3
  <2>2. CASE Continue(p, "anonymous") \/ Authorize(p, "unprivileged")
    BY <1>0, <2>2, Gen3NotPermitted
  <2>3. CASE Answer(p, 401)
    <3>1. PICK r \in RequestStates :
             /\ req' = [req EXCEPT ![p] = r]
             /\ r.pc = "reply" /\ r.status = 401 /\ Carries(r, req[p])
      BY <1>0, <2>3, AnswerEffect
    <3>2. r.status # 200
      BY <3>1
    <3>3. OnItsWay(p, r)
      BY <3>1, <3>2, Answered
    <3> QED
      BY <3>1, <3>3
  <2>4. CASE hdr = "current" /\ GoTo(p, "lookup")
    <3>1. PICK r \in RequestStates :
             req' = [req EXCEPT ![p] = r] /\ r.pc = "lookup" /\ Carries(r, req[p])
      BY <1>0, <2>4, GoToEffect DEF Steps
    <3> QED
      BY <1>2, <2>4, <3>1, GoesOn
  <2> QED
    BY <2>1, <2>2, <2>3, <2>4
<1> QED
  BY <1>1, <1>2

\* The line of the file that gives a user the privilege to update.
LEMMA UpdateComesFromWrite ==
    ASSUME NEW rows \in Seq(Row), NEW user, {"update", "*"} \cap FilePrivileges(rows, user) # {}
    PROVE  \E i \in 1..Len(rows) : rows[i].user = user /\ {"write", "*"} \cap rows[i].methods # {}
<1>1. PICK i \in 1..Len(rows) :
        rows[i].user = user /\ {"update", "*"} \cap ExpandMethods(rows[i].methods) # {}
  BY DEF FilePrivileges
<1>2. rows[i].methods \subseteq {"read", "write", "*"}
  <2>1. rows[i] \in Row
    OBVIOUS
  <2> QED
    BY <2>1 DEF Row
<1>3. {"write", "*"} \cap rows[i].methods # {}
  BY <1>1, <1>2 DEF ExpandMethods
<1> QED
  BY <1>1, <1>3

LEMMA EvaluateLocalEffect ==
    ASSUME IInv, NEW p \in Clients, req[p].pc # "idle", cfg.mode = "local",
           EvaluateLocal(p)
    PROVE  \E r \in RequestStates : req' = [req EXCEPT ![p] = r] /\ OnItsWay(p, r)
<1>0. /\ TypeInv /\ cfg.rows \in Seq(Row) /\ cfg.csv \in BOOLEAN
      /\ \A session : Continue(p, session) => Authorize(p, session)
  BY AuthAssumption DEF IInv, TypeInv, Authorize
<1> DEFINE user == req[p].hdr
           May == {"update", "*"} \cap FilePrivileges(cfg.rows, user) # {}
<1>1. \/ Answer(p, 500) \/ Answer(p, 401) \/ Answer(p, 403)
      \/ ~cfg.csv /\ Continue(p, "unenforced")
      \/ FileLoads(cfg.rows) /\ May /\ Continue(p, "privileged")
      \/ Continue(p, "unprivileged")
  BY <1>0 DEF EvaluateLocal
<1>2. CASE Answer(p, 500) \/ Answer(p, 401) \/ Answer(p, 403)
  <2>1. PICK status \in {500, 401, 403} : Answer(p, status)
    BY <1>2
  <2>2. PICK r \in RequestStates :
             /\ req' = [req EXCEPT ![p] = r]
             /\ r.pc = "reply" /\ r.status = status /\ Carries(r, req[p])
    BY <1>0, <2>1, AnswerEffect
  <2>3. r.status # 200
    BY <2>2
  <2>4. OnItsWay(p, r)
    BY <2>2, <2>3, Answered
  <2> QED
    BY <2>2, <2>4
<1>3. CASE ~cfg.csv /\ Continue(p, "unenforced")
  <2>1. PICK r \in RequestStates :
          req' = [req EXCEPT ![p] = r] /\ r.pc = "reply" /\ Carries(r, req[p])
    BY <1>0, <1>3, AuthorizeEffect
  <2> QED
    BY <1>3, <2>1, Answered DEF Permitted
<1>4. CASE FileLoads(cfg.rows) /\ May /\ Continue(p, "privileged")
  <2>1. PICK r \in RequestStates :
          req' = [req EXCEPT ![p] = r] /\ r.pc = "reply" /\ Carries(r, req[p])
    BY <1>0, <1>4, AuthorizeEffect
  <2>2. \E i \in 1..Len(cfg.rows) :
          cfg.rows[i].user = user /\ {"write", "*"} \cap cfg.rows[i].methods # {}
    BY <1>0, <1>4, UpdateComesFromWrite
  <2>3. Permitted(r)
    BY <1>4, <2>1, <2>2 DEF Permitted, Carries
  <2> QED
    BY <2>1, <2>3, Answered
<1>5. CASE Continue(p, "unprivileged")
  BY <1>0, <1>5, Gen3NotPermitted
<1> QED
  BY <1>1, <1>2, <1>3, <1>4, <1>5

LEMMA MiddlewareEffect ==
    ASSUME IInv, NEW p \in Clients, Middleware(p)
    PROVE  \E r \in RequestStates : req' = [req EXCEPT ![p] = r] /\ OnItsWay(p, r)
<1>1. req[p].pc # "idle" /\ cfg.mode \in {"gen3", "local"} /\ TypeInv
  BY AuthAssumption DEF Middleware, IInv, TypeInv
<1>2. CASE req[p].route = "metadata" /\ req[p].hdr = "none"
  <2>1. PICK session \in {"anonymous", "unenforced"} : Authorize(p, session)
    BY <1>2 DEF Middleware, Authorize
  <2>2. PICK r \in RequestStates :
          req' = [req EXCEPT ![p] = r] /\ r.pc = "reply" /\ Carries(r, req[p])
    BY <1>1, <2>1, AuthorizeEffect
  <2>3. r.route # "protected"
    BY <1>2, <2>2 DEF Carries
  <2> QED
    BY <1>1, <2>2, <2>3, Answered
<1>3. CASE ~(req[p].route = "metadata" /\ req[p].hdr = "none")
  BY <1>1, <1>3, EvaluateGen3Effect, EvaluateLocalEffect DEF Middleware
<1> QED
  BY <1>2, <1>3

LEMMA MiddlewareInv ==
    ASSUME IInv, NEW p \in Clients, Middleware(p)
    PROVE  IInv'
BY MiddlewareEffect, RequestAlone DEF Middleware, issuerState, clientState, serverState

-----------------------------------------------------------------------------
(* The key cache. *)

\* After the verification: the session stays without privileges, or the token's
\* key was in the set and the privileges are asked for.
LEMMA AfterVerifyEffect ==
    ASSUME IInv, NEW p \in Clients, NEW keys, AfterVerify(p, keys),
           req[p].pc \in {"lookup", "fetched"}
    PROVE  \E r \in RequestStates : req' = [req EXCEPT ![p] = r] /\ OnItsWay(p, r)
<1>1. req[p].hdr = "current" /\ cfg.mode = "gen3" /\ ~cfg.mock
  BY DEF IInv, OnItsWay
<1>2. CASE GoTo(p, "privileges")
  <2>1. PICK r \in RequestStates :
           req' = [req EXCEPT ![p] = r] /\ r.pc = "privileges" /\ Carries(r, req[p])
    BY <1>2, GoToEffect DEF Steps, IInv
  <2> QED
    BY <1>1, <2>1, GoesOn
<1>3. CASE Authorize(p, "unprivileged")
  BY <1>3, Gen3NotPermitted
<1> QED
  BY <1>2, <1>3 DEF AfterVerify

\* The fetch that is started is dated now.
LEMMA KeyForTokenInv ==
    ASSUME IInv, NEW p \in Clients, KeyForToken(p)
    PROVE  IInv'
<1>1. /\ req[p].pc = "lookup"
      /\ UNCHANGED <<clock, signing, published, retired, granted, tokens, current, refreshMu, cfg>>
  BY DEF KeyForToken, issuerState, clientState
<1>2. PICK mark \in Int : cache' = [cache EXCEPT !.lastUnknownKeyRefresh = mark]
  <2>1. clock \in Int /\ cache.lastUnknownKeyRefresh \in Int
    BY DEF IInv, TypeInv
  <2>2. \/ cache' = [cache EXCEPT !.lastUnknownKeyRefresh = clock]
        \/ cache' = [cache EXCEPT !.lastUnknownKeyRefresh = cache.lastUnknownKeyRefresh]
    BY DEF KeyForToken
  <2> QED
    BY <2>1, <2>2
<1>3. /\ cache' \in [keys : SUBSET Nat, loaded : BOOLEAN, lastFetch : Nat,
                     lastUnknownKeyRefresh : Int]
      /\ cache'.keys = cache.keys /\ cache'.lastFetch = cache.lastFetch
  BY <1>2 DEF IInv, TypeInv
<1>4. CacheDated'
  BY <1>1, <1>3 DEF IInv, CacheDated, PublishedSince
<1>5. PICK r \in RequestStates : req' = [req EXCEPT ![p] = r] /\ OnItsWay(p, r)
  <2>1. ASSUME NEW forced \in BOOLEAN,
               req' = [req EXCEPT ![p].pc = "fetch", ![p].forced = forced, ![p].start = clock]
        PROVE  \E r \in RequestStates : req' = [req EXCEPT ![p] = r] /\ OnItsWay(p, r)
    <3> DEFINE r == [req[p] EXCEPT !.pc = "fetch", !.forced = forced, !.start = clock]
    <3>1. req[p] \in RequestStates /\ clock \in Nat /\ OnItsWay(p, req[p])
      BY DEF IInv, TypeInv
    <3>2. r \in RequestStates
      BY <3>1 DEF RequestStates, Steps
    <3>3. r.pc = "fetch" /\ r.start = clock /\ Carries(r, req[p])
      BY <3>1 DEF RequestStates, Carries
    <3>4. req' = [req EXCEPT ![p] = r]
      BY <2>1 DEF IInv, TypeInv
    <3> HIDE DEF r
    <3>5. OnItsWay(p, r)
      BY <1>1, <3>1, <3>3 DEF OnItsWay, Carries
    <3> QED
      BY <3>2, <3>4, <3>5
  <2>2. ASSUME NEW keys, AfterVerify(p, keys)
        PROVE  \E r \in RequestStates : req' = [req EXCEPT ![p] = r] /\ OnItsWay(p, r)
    BY <1>1, <2>2, AfterVerifyEffect
  <2>3. \/ \E forced \in BOOLEAN :
             req' = [req EXCEPT ![p].pc = "fetch", ![p].forced = forced, ![p].start = clock]
        \/ \E keys : AfterVerify(p, keys)
    <3> DEFINE known == tokens[req[p].tok].kid \in cache.keys
               ordinary == ~Fresh /\ ~RefreshCooldownActive
               forced == Fresh /\ ~known /\ ~RefreshCooldownActive
    <3>1. IF ordinary \/ forced
            THEN req' = [req EXCEPT ![p].pc = "fetch", ![p].forced = forced, ![p].start = clock]
            ELSE AfterVerify(p, IF Fresh THEN cache.keys ELSE {})
      BY DEF KeyForToken
    <3>2. forced \in BOOLEAN
      OBVIOUS
    <3> HIDE DEF forced, ordinary
    <3> QED
      BY <3>1, <3>2
  <2> QED
    BY <2>1, <2>2, <2>3
<1>6. OnItsWay(p, r)'
  BY <1>1, <1>5 DEF OnItsWay, PublishedSince, Permitted
<1> QED
  BY <1>1, <1>3, <1>4, <1>5, <1>6, RequestMoves

LEMMA ServeKeysInv ==
    ASSUME IInv, NEW p \in Clients, ServeKeys(p)
    PROVE  IInv'
<1> DEFINE r == [req[p] EXCEPT !.pc = "fetched", !.reply = published]
<1>1. req[p] \in RequestStates /\ published \subseteq Nat /\ OnItsWay(p, req[p])
  BY DEF IInv, TypeInv
<1>2. r \in RequestStates
  BY <1>1 DEF RequestStates, Steps
<1>3. r.pc = "fetched" /\ r.reply = published /\ r.start = req[p].start /\ Carries(r, req[p])
  BY <1>1 DEF RequestStates, Carries
<1>4. req' = [req EXCEPT ![p] = r]
  BY DEF ServeKeys, IInv, TypeInv
<1> HIDE DEF r
<1>5. OnItsWay(p, r)
  BY <1>1, <1>3 DEF ServeKeys, OnItsWay, Carries, PublishedSince
<1> QED
  BY <1>2, <1>4, <1>5, RequestAlone DEF ServeKeys, issuerState, clientState, serverState

\* A fetched set replaces the cache, dated by the start of its fetch.
LEMMA FetchKeysInv ==
    ASSUME IInv, NEW p \in Clients, FetchKeys(p) \/ FetchKeysFails(p)
    PROVE  IInv'
<1>1. /\ UNCHANGED <<clock, signing, published, retired, granted, tokens, current, refreshMu, cfg>>
      /\ req[p].pc \in {"fetch", "fetched"}
  BY DEF FetchKeys, FetchKeysFails, issuerState, clientState
<1>2. req[p] \in RequestStates /\ req[p].start \in Nat /\ req[p].reply \subseteq Nat
      /\ req[p].start <= clock /\ OnItsWay(p, req[p])
  BY <1>1 DEF IInv, TypeInv, RequestStates, OnItsWay
<1>3. /\ cache' \in [keys : SUBSET Nat, loaded : BOOLEAN, lastFetch : Nat,
                     lastUnknownKeyRefresh : Int]
      /\ CacheDated'
  <2>1. CASE FetchKeys(p)
    <3>1. PICK mark \in Int :
            cache' = [keys |-> req[p].reply, loaded |-> TRUE, lastFetch |-> req[p].start,
                      lastUnknownKeyRefresh |-> mark]
      <4>1. cache.lastUnknownKeyRefresh \in Int /\ Never \in Int
        BY DEF IInv, TypeInv, Never
      <4> DEFINE mark == CASE req[p].forced -> cache.lastUnknownKeyRefresh
                           [] ~req[p].forced /\ tokens[req[p].tok].kid \in req[p].reply -> Never
                           [] OTHER -> req[p].start
      <4>2. mark \in Int
        BY <1>2, <4>1
      <4>3. cache' = [keys |-> req[p].reply, loaded |-> TRUE, lastFetch |-> req[p].start,
                      lastUnknownKeyRefresh |-> mark]
        BY <2>1 DEF FetchKeys, FetchedCache
      <4> HIDE DEF mark
      <4> QED
        BY <4>2, <4>3
    <3>2. req[p].pc = "fetched"
      BY <2>1 DEF FetchKeys
    <3> QED
      BY <1>1, <1>2, <3>1, <3>2 DEF CacheDated, OnItsWay, PublishedSince
  <2>2. CASE FetchKeysFails(p)
    <3>1. cache' = [cache EXCEPT !.lastUnknownKeyRefresh = req[p].start]
      BY <2>2 DEF FetchKeysFails
    <3>2. /\ cache' \in [keys : SUBSET Nat, loaded : BOOLEAN, lastFetch : Nat,
                         lastUnknownKeyRefresh : Int]
          /\ cache'.keys = cache.keys /\ cache'.lastFetch = cache.lastFetch
      BY <1>2, <3>1 DEF IInv, TypeInv
    <3> QED
      BY <1>1, <3>2 DEF IInv, CacheDated, PublishedSince
  <2> QED
    BY <2>1, <2>2
<1>4. PICK r \in RequestStates : req' = [req EXCEPT ![p] = r] /\ OnItsWay(p, r)
  <2>1. CASE FetchKeys(p)
    BY <2>1, AfterVerifyEffect DEF FetchKeys
  <2>2. CASE FetchKeysFails(p)
    BY <1>1, <2>2, Gen3NotPermitted DEF FetchKeysFails
  <2> QED
    BY <2>1, <2>2
<1>5. OnItsWay(p, r)'
  BY <1>1, <1>4 DEF OnItsWay, PublishedSince, Permitted
<1> QED
  BY <1>1, <1>3, <1>4, <1>5, RequestMoves

\* The issuer names the privileges held now, and they were held at sending.
LEMMA FetchPrivilegesInv ==
    ASSUME IInv, NEW p \in Clients, NEW answered \in BOOLEAN, FetchPrivileges(p, answered)
    PROVE  IInv'
<1>1. /\ req[p].pc = "privileges"
      /\ OnItsWay(p, req[p]) /\ TypeInv
  BY DEF FetchPrivileges, IInv
<1>2. PICK session \in {"privileged", "unprivileged"} :
        Authorize(p, session) /\ (session = "privileged" => granted)
  BY DEF FetchPrivileges, ResolvedSession
<1>3. PICK r \in RequestStates :
             /\ req' = [req EXCEPT ![p] = r]
             /\ r.pc = "reply" /\ Carries(r, req[p])
             /\ r.status = 200 /\ r.route = "protected" => session \in {"privileged", "unenforced"}
  BY <1>1, <1>2, AuthorizeEffect
<1>4. req[p].hdr = "current" /\ req[p].tok \in 1..Len(tokens) /\ (granted => req[p].atSend)
      /\ cfg.mode = "gen3"
  BY <1>1 DEF OnItsWay
<1>5. granted => Permitted(r)
  BY <1>3, <1>4 DEF Permitted, Carries
<1>6. OnItsWay(p, r)
  BY <1>1, <1>2, <1>3, <1>5, Answered
<1> QED
  BY <1>3, <1>6, RequestAlone DEF FetchPrivileges, issuerState, clientState, serverState

-----------------------------------------------------------------------------
(* The client. *)

\* A request that is sent carries the current token and, as far as anyone can
\* know later, the privileges of that moment.
LEMMA Sent ==
    ASSUME IInv, NEW p \in Clients, NEW r \in RequestStates, req' = [req EXCEPT ![p] = r],
           r.pc = "middleware", r.tok = Carried(r.hdr), r.atSend = granted,
           UNCHANGED <<clock, issuerState, clientState, cfg, serverState>>
    PROVE  IInv'
<1>1. r.hdr = "current" => r.tok \in 1..Len(tokens)
  BY DEF IInv, TypeInv, TokensInTurn, Carried
<1>2. OnItsWay(p, r)
  BY <1>1 DEF OnItsWay
<1> QED
  BY <1>2, RequestAlone DEF issuerState, clientState, serverState

LEMMA CarriedType ==
    ASSUME IInv, NEW hdr
    PROVE  Carried(hdr) \in Nat /\ granted \in BOOLEAN
BY DEF IInv, TypeInv, TokensInTurn, Carried

LEMMA BeginInv ==
    ASSUME IInv, NEW p \in Clients, NEW c \in Messages, Send(p, c)
    PROVE  IInv'
<1> DEFINE r == [IdleRequest EXCEPT !.pc = "middleware", !.route = c.route, !.hdr = c.hdr,
                             !.retryable = c.retryable, !.tok = Carried(c.hdr), !.atSend = granted]
<1>1. c.route \in Routes /\ c.hdr \in Headers /\ c.retryable \in BOOLEAN
  BY AuthAssumption
<1>2. /\ r \in RequestStates
      /\ r.pc = "middleware" /\ r.hdr = c.hdr /\ r.tok = Carried(c.hdr) /\ r.atSend = granted
  BY <1>1, CarriedType, IdleType DEF RequestStates, Steps
<1>3. req' = [req EXCEPT ![p] = r]
  BY DEF Send
<1> HIDE DEF r
<1> QED
  BY <1>2, <1>3, Sent DEF Send

LEMMA ResendInv ==
    ASSUME IInv, NEW p \in Clients, Resend(p)
    PROVE  IInv'
<1>1. CASE Done(p)
  <2>1. OnItsWay(p, IdleRequest)
    BY IdleType DEF OnItsWay
  <2> QED
    BY <1>1, <2>1, IdleType, RequestAlone DEF Done, Resend, issuerState, clientState, serverState
<1>2. CASE ~Done(p)
  <2> DEFINE r == [IdleRequest EXCEPT !.pc = "middleware", !.route = req[p].route,
                               !.hdr = req[p].hdr, !.retryable = TRUE, !.tries = req[p].tries + 1,
                               !.tok = Carried(req[p].hdr), !.atSend = granted]
  <2>1. req[p].route \in Routes /\ req[p].hdr \in Headers /\ req[p].tries + 1 \in Nat
    BY DEF IInv, TypeInv, RequestStates
  <2>2. /\ r \in RequestStates
        /\ r.pc = "middleware" /\ r.hdr = req[p].hdr /\ r.tok = Carried(req[p].hdr)
        /\ r.atSend = granted
    BY <2>1, CarriedType, IdleType DEF RequestStates, Steps
  <2>3. req' = [req EXCEPT ![p] = r]
    BY <1>2 DEF Resend
  <2> HIDE DEF r
  <2> QED
    BY <2>2, <2>3, Sent DEF Resend
<1> QED
  BY <1>1, <1>2

LEMMA CheckRetryInv ==
    ASSUME IInv, NEW p \in Clients, CheckRetry(p)
    PROVE  IInv'
<1>1. PICK r \in RequestStates : req' = [req EXCEPT ![p] = r] /\ OnItsWay(p, r)
  <2>1. CASE Done(p)
    <3>1. OnItsWay(p, IdleRequest)
      BY IdleType DEF OnItsWay
    <3> QED
      BY <2>1, <3>1, IdleType DEF Done
  <2>2. ASSUME NEW pc \in {"refresh", "retry"}, GoTo(p, pc)
        PROVE  \E r \in RequestStates : req' = [req EXCEPT ![p] = r] /\ OnItsWay(p, r)
    <3>1. PICK r \in RequestStates :
            req' = [req EXCEPT ![p] = r] /\ r.pc = pc /\ Carries(r, req[p])
      BY <2>2, GoToEffect DEF IInv, Steps
    <3>2. OnItsWay(p, r)
      BY <3>1, GoesOn DEF CheckRetry
    <3> QED
      BY <3>1, <3>2
  <2>3. Done(p) \/ GoTo(p, "refresh") \/ GoTo(p, "retry")
    BY DEF CheckRetry
  <2> QED
    BY <2>1, <2>2, <2>3
<1> QED
  BY <1>1, RequestAlone DEF CheckRetry, issuerState, clientState, serverState

\* Whoever renews the token holds the lock, and the token is the one rejected.
LEMMA RefreshInv ==
    ASSUME IInv, NEW p \in Clients, RefreshIfCurrent(p)
    PROVE  IInv'
<1>1. /\ req[p].pc = "refresh" /\ refreshMu = Nobody /\ Nobody \notin Clients
      /\ UNCHANGED <<clock, signing, published, retired, granted, tokens, current, cfg, cache>>
  BY AuthAssumption DEF RefreshIfCurrent, issuerState, serverState
<1>2. CASE current = req[p].tok
  <2>1. refreshMu' = p /\ GoTo(p, "renew")
    BY <1>2 DEF RefreshIfCurrent, RejectedIsCurrent
  <2>2. PICK r \in RequestStates :
          req' = [req EXCEPT ![p] = r] /\ r.pc = "renew" /\ Carries(r, req[p])
    BY <2>1, GoToEffect DEF IInv, Steps
  <2>3. OnItsWay(p, r)'
    <3>1. OnItsWay(p, req[p])
      BY DEF IInv
    <3> QED
      BY <1>1, <1>2, <2>1, <2>2, <3>1 DEF OnItsWay, Carries
  <2>4. CacheDated'
    BY <1>1 DEF IInv, CacheDated, PublishedSince
  <2> QED
    BY <1>1, <2>1, <2>2, <2>3, <2>4, RequestMoves DEF IInv, TypeInv
<1>3. CASE current # req[p].tok
  <2>1. PICK r \in RequestStates :
          req' = [req EXCEPT ![p] = r] /\ r.pc = "retry" /\ Carries(r, req[p])
    BY <1>3, GoToEffect DEF RefreshIfCurrent, RejectedIsCurrent, IInv, Steps
  <2>2. OnItsWay(p, r)
    BY <1>1, <2>1, GoesOn
  <2>3. refreshMu' = refreshMu
    BY <1>3 DEF RefreshIfCurrent, RejectedIsCurrent
  <2> QED
    BY <1>1, <2>1, <2>2, <2>3, RequestAlone
<1> QED
  BY <1>2, <1>3

\* The new token replaces the last one; nobody else is renewing.
LEMMA NewAccessTokenInv ==
    ASSUME IInv, NEW p \in Clients, NewAccessToken(p)
    PROVE  IInv'
<1> DEFINE t == [kid |-> signing, exp |-> clock + TokenLife, replaces |-> req[p].tok]
           n == Len(tokens)
<1>1. /\ req[p].pc = "renew" /\ refreshMu = p /\ req[p].tok = n /\ current = n /\ n # 0
      /\ req[p] \in RequestStates /\ OnItsWay(p, req[p])
  BY DEF NewAccessToken, IInv, TypeInv, OnItsWay, TokensInTurn
<1>2. tokens \in Seq([kid : Nat, exp : Int, replaces : Nat]) /\ n \in Nat
  BY DEF IInv, TypeInv
<1>3. t \in [kid : Nat, exp : Int, replaces : Nat]
  BY AuthAssumption, <1>1, <1>2 DEF IInv, TypeInv
<1>4. tokens' = Append(tokens, t) /\ current' = n + 1
  BY DEF NewAccessToken
<1>5. t.replaces = n
  BY <1>1
<1> HIDE DEF t
<1>6. /\ tokens' \in Seq([kid : Nat, exp : Int, replaces : Nat])
      /\ Len(tokens') = n + 1
      /\ tokens'[n + 1] = t
      /\ \A i \in 1..n : tokens'[i] = tokens[i]
  BY <1>2, <1>3, <1>4
<1>7. TokensInTurn'
  <2>1. ASSUME NEW i \in 1..(n + 1) PROVE tokens'[i].replaces = i - 1
    <3>1. CASE i = n + 1
      BY <1>2, <1>5, <1>6, <3>1
    <3>2. CASE i \in 1..n
      BY <1>6, <3>2 DEF IInv, TokensInTurn
    <3> QED
      BY <1>2, <3>1, <3>2
  <2> QED
    BY <1>2, <1>4, <1>6, <2>1 DEF TokensInTurn
<1>8. UNCHANGED <<clock, signing, published, retired, granted, cfg, cache>>
  BY DEF NewAccessToken, issuerState, serverState
<1>9. PICK r \in RequestStates :
        req' = [req EXCEPT ![p] = r] /\ r.pc = "retry" /\ Carries(r, req[p])
  BY GoToEffect DEF NewAccessToken, IInv, Steps
<1>10. /\ req' \in [Clients -> RequestStates] /\ req'[p] = r
       /\ \A q \in Clients \ {p} : req'[q] = req[q]
  BY <1>9, Moved DEF IInv
<1>11. TypeInv' /\ CacheDated'
  BY <1>6, <1>8, <1>10 DEF IInv, TypeInv, CacheDated, PublishedSince
<1>12. OnItsWay(p, r)'
  <2>1. \A i : i \in 1..n => i \in 1..Len(tokens')
    BY <1>2, <1>6
  <2> HIDE DEF n
  <2> QED
    BY <1>1, <1>8, <1>9, <2>1 DEF OnItsWay, Carries, n
<1>13. ASSUME NEW q \in Clients \ {p} PROVE OnItsWay(q, req[q])'
  <2>1. OnItsWay(q, req[q]) /\ req'[q] = req[q]
    BY <1>10 DEF IInv
  <2>2. req[q].pc # "renew"
    BY <1>1, <2>1 DEF OnItsWay
  <2>3. \A i : i \in 1..n => i \in 1..Len(tokens')
    BY <1>2, <1>6
  <2> QED
    BY <1>8, <2>1, <2>2, <2>3 DEF OnItsWay, PublishedSince, Permitted
<1> QED
  BY <1>7, <1>10, <1>11, <1>12, <1>13 DEF IInv

LEMMA NewAccessTokenFailsInv ==
    ASSUME IInv, NEW p \in Clients, NewAccessTokenFails(p)
    PROVE  IInv'
<1>1. /\ req[p].pc = "renew" /\ refreshMu = p
      /\ UNCHANGED <<clock, signing, published, retired, granted, tokens, current, cfg, cache>>
      /\ req' = [req EXCEPT ![p] = IdleRequest]
  BY DEF NewAccessTokenFails, IInv, OnItsWay, Done, issuerState, serverState
<1>2. CacheDated'
  BY <1>1 DEF IInv, CacheDated, PublishedSince
<1>3. OnItsWay(p, IdleRequest)'
  BY IdleType DEF OnItsWay, IdleRequest
<1> QED
  BY <1>1, <1>2, <1>3, IdleType, RequestMoves DEF IInv, TypeInv

LEMMA NextInv ==
    IInv /\ [AuthNext]_authVars => IInv'
<1> SUFFICES ASSUME IInv, [AuthNext]_authVars PROVE IInv'
  OBVIOUS
<1>1. CASE Tick
  BY <1>1, TickInv
<1>2. CASE RotateKey \/ Revoke \/ \E k \in 1..MaxKid : RetireKey(k)
  BY <1>2, IssuerInv
<1>3. ASSUME NEW p \in Clients, NEW c \in Messages, Send(p, c) PROVE IInv'
  BY <1>3, BeginInv
<1>4. ASSUME NEW p \in Clients, Step(p) PROVE IInv'
  <2>1. CASE Middleware(p)
    BY <2>1, MiddlewareInv
  <2>2. CASE KeyForToken(p) \/ ServeKeys(p) \/ FetchKeys(p) \/ FetchKeysFails(p)
    BY <2>2, KeyForTokenInv, ServeKeysInv, FetchKeysInv
  <2>3. CASE \E answered \in BOOLEAN : FetchPrivileges(p, answered)
    BY <2>3, FetchPrivilegesInv
  <2>4. CASE CheckRetry(p) \/ Resend(p) \/ RefreshIfCurrent(p)
    BY <2>4, CheckRetryInv, ResendInv, RefreshInv
  <2>5. CASE NewAccessToken(p) \/ NewAccessTokenFails(p)
    BY <2>5, NewAccessTokenInv, NewAccessTokenFailsInv
  <2> QED
    BY <1>4, <2>1, <2>2, <2>3, <2>4, <2>5 DEF Step
<1>5. CASE UNCHANGED authVars
  <2>1. UNCHANGED <<clock, signing, published, retired, granted, tokens, current, refreshMu, cfg,
                    cache, req>>
    BY <1>5 DEF authVars, issuerState, clientState, serverState
  <2>2. TypeInv' /\ TokensInTurn' /\ CacheDated'
    BY <2>1 DEF IInv, TypeInv, TokensInTurn, CacheDated, PublishedSince
  <2>3. ASSUME NEW p \in Clients PROVE OnItsWay(p, req[p])'
    <3>1. OnItsWay(p, req[p])
      BY DEF IInv
    <3> QED
      BY <2>1, <3>1 DEF OnItsWay, PublishedSince, Permitted
  <2> QED
    BY <2>2, <2>3 DEF IInv
<1> QED
  BY <1>1, <1>2, <1>3, <1>4, <1>5 DEF AuthNext

\* Every reachable state satisfies the invariant: key sets are dated by the start
\* of their fetch, tokens replace each other in turn, and a request on its way
\* carries what it was sent with.
THEOREM AuthInvariance ==
    AuthSpec => []IInv
<1>1. AuthInit => IInv
  BY InitInv
<1>2. IInv /\ [AuthNext]_authVars => IInv'
  BY NextInv
<1> QED
  BY <1>1, <1>2, PTL DEF AuthSpec

\* Whatever the deployment and its file, however revocations, retries and key
\* fetches interleave, a protected operation succeeds only for a user who holds
\* the privilege (token_auth.go Resolve, evaluate.go).
THEOREM ProtectedAreAuthorized ==
    AuthSpec => []ProtectedAuthorized
<1>1. IInv => ProtectedAuthorized
  BY DEF IInv, OnItsWay, Permitted, ProtectedAuthorized
<1> QED
  BY <1>1, AuthInvariance, PTL

\* Any number of requests that are rejected together refresh their token once
\* (client/request/auth.go refreshIfCurrent).
THEOREM TokensRefreshedOnce ==
    AuthSpec => []OneRefreshPerToken
<1>1. IInv => OneRefreshPerToken
  BY DEF IInv, TypeInv, TokensInTurn, OneRefreshPerToken
<1> QED
  BY <1>1, AuthInvariance, PTL

\* A request goes on to the privileges only when its token was verified.
LEMMA GoesOnVerified ==
    ASSUME IInv, NEW p \in Clients, NEW keys, AfterVerify(p, keys), req'[p].pc = "privileges"
    PROVE  tokens[req[p].tok].kid \in keys
<1>1. CASE Authorize(p, "unprivileged")
  <2>1. PICK r \in RequestStates : req' = [req EXCEPT ![p] = r] /\ r.pc = "reply"
    BY <1>1, AuthorizeEffect DEF IInv
  <2> QED
    BY <2>1, Moved DEF IInv
<1> QED
  BY <1>1 DEF AfterVerify, Verified

\* A step of one request does not move another.
LEMMA OthersStay ==
    ASSUME IInv, NEW q \in Clients, NEW p \in Clients \ {q},
           Step(q) \/ \E c \in Messages : Send(q, c)
    PROVE  req'[p] = req[p]
<1> DEFINE Stays == req'[p] = req[p]
<1>1. /\ req \in [Clients -> RequestStates]
      /\ \A r \in RequestStates : req' = [req EXCEPT ![q] = r] => Stays
  BY DEF IInv, TypeInv
<1>2. /\ \A pc : GoTo(q, pc) => Stays
      /\ \A session : Authorize(q, session) => Stays
      /\ Done(q) => Stays
  BY <1>1 DEF GoTo, Done, Authorize, Continue, Answer
<1>3. \A keys : AfterVerify(q, keys) => Stays
  BY <1>2 DEF AfterVerify
<1>4. CASE Middleware(q)
  BY <1>1, <1>4, MiddlewareEffect
<1>5. CASE KeyForToken(q) \/ ServeKeys(q)
  BY <1>1, <1>3, <1>5 DEF KeyForToken, ServeKeys
<1>6. CASE FetchKeys(q) \/ FetchKeysFails(q) \/ \E answered \in BOOLEAN : FetchPrivileges(q, answered)
  BY <1>2, <1>3, <1>6 DEF FetchKeys, FetchKeysFails, FetchPrivileges
<1>7. CASE CheckRetry(q) \/ Resend(q) \/ RefreshIfCurrent(q)
  BY <1>1, <1>2, <1>7 DEF CheckRetry, Resend, RefreshIfCurrent
<1>8. CASE NewAccessToken(q) \/ NewAccessTokenFails(q) \/ \E c \in Messages : Send(q, c)
  BY <1>1, <1>2, <1>8 DEF NewAccessToken, NewAccessTokenFails, Send
<1> QED
  BY <1>4, <1>5, <1>6, <1>7, <1>8 DEF Step

\* For every time to live and every fetch timeout below it, a withdrawn key
\* verifies no token a time to live after its withdrawal (jwks.go).
THEOREM RetiredKeysDoExpire ==
    AuthSpec => RetiredKeysExpire
<1> DEFINE Expires(p) ==
      (req[p].pc \in {"lookup", "fetched"} /\ req'[p].pc = "privileges") =>
        LET k == tokens[req[p].tok].kid
        IN  k \in published \/ clock - retired[k] < Ttl
<1>1. IInv /\ [AuthNext]_authVars => [\A p \in Clients : Expires(p)]_authVars
  <2> SUFFICES ASSUME IInv, AuthNext, NEW p \in Clients,
                      req[p].pc \in {"lookup", "fetched"}, req'[p].pc = "privileges"
               PROVE  LET k == tokens[req[p].tok].kid
                      IN  k \in published \/ clock - retired[k] < Ttl
    OBVIOUS
  <2> DEFINE k == tokens[req[p].tok].kid
  <2>1. /\ clock \in Nat /\ cache.lastFetch \in Nat /\ req[p].start \in Nat
        /\ Ttl \in Nat /\ FetchTimeout \in Nat /\ FetchTimeout < Ttl
        /\ \A j \in 1..MaxKid : retired[j] \in Int
    BY AuthAssumption DEF IInv, TypeInv, RequestStates
  <2>2. CASE KeyForToken(p)
    <3>1. PICK keys : AfterVerify(p, keys) /\ (keys = {} \/ (Fresh /\ keys = cache.keys))
      <4>1. req'[p].pc # "fetch"
        OBVIOUS
      <4>2. ASSUME NEW forced,
                   req' = [req EXCEPT ![p].pc = "fetch", ![p].forced = forced, ![p].start = clock]
            PROVE  req'[p].pc = "fetch"
        <5>1. req \in [Clients -> RequestStates] /\ req[p] \in RequestStates
          BY DEF IInv, TypeInv
        <5> QED
          BY <4>2, <5>1 DEF RequestStates
      <4>3. AfterVerify(p, IF Fresh THEN cache.keys ELSE {})
        BY <2>2, <4>1, <4>2 DEF KeyForToken
      <4> QED
        BY <4>3
    <3>2. k \in keys
      BY <3>1, GoesOnVerified
    <3>3. k \in cache.keys /\ clock - cache.lastFetch < Ttl
      BY <3>1, <3>2 DEF Fresh
    <3>4. PublishedSince(k, cache.lastFetch)
      BY <3>3 DEF IInv, CacheDated
    <3> HIDE DEF k
    <3>5. k \in published \/ clock - retired[k] < Ttl
      BY <2>1, <3>3, <3>4 DEF PublishedSince
    <3> QED
      BY <3>5 DEF k
  <2>3. CASE FetchKeys(p)
    <3>1. k \in req[p].reply /\ clock - req[p].start <= FetchTimeout /\ req[p].pc = "fetched"
      BY <2>3, GoesOnVerified DEF FetchKeys
    <3>2. PublishedSince(k, req[p].start)
      BY <3>1 DEF IInv, OnItsWay
    <3> HIDE DEF k
    <3>3. k \in published \/ clock - retired[k] < Ttl
      BY <2>1, <3>1, <3>2 DEF PublishedSince
    <3> QED
      BY <3>3 DEF k
  <2>4. CASE FetchKeysFails(p)
    <3>1. PICK r \in RequestStates : req' = [req EXCEPT ![p] = r] /\ r.pc = "reply"
      BY <2>4, AuthorizeEffect DEF FetchKeysFails, IInv
    <3> QED
      BY <3>1, Moved DEF IInv
  <2>5. ASSUME NEW q \in Clients \ {p}, Step(q) \/ \E c \in Messages : Send(q, c) PROVE FALSE
    BY <2>5, OthersStay
  <2>6. CASE req' = req
    BY <2>6
  <2>7. Tick \/ RotateKey \/ Revoke \/ (\E j \in 1..MaxKid : RetireKey(j)) => req' = req
    BY DEF Tick, RotateKey, Revoke, RetireKey
  <2>8. ASSUME Step(p) \/ \E c \in Messages : Send(p, c)
        PROVE  KeyForToken(p) \/ FetchKeys(p) \/ FetchKeysFails(p)
    BY <2>8 DEF Step, Send, Middleware, ServeKeys, FetchKeysFails, FetchPrivileges, CheckRetry,
                Resend, RefreshIfCurrent, NewAccessToken, NewAccessTokenFails
  <2> QED
    BY <2>2, <2>3, <2>4, <2>5, <2>6, <2>7, <2>8 DEF AuthNext
<1> QED
  BY <1>1, AuthInvariance, PTL DEF AuthSpec, RetiredKeysExpire
==============================================================================
