-------------------------- MODULE TokenCacheProofs --------------------------
(***************************************************************************)
(* What the mutex and the slack of the token cache guarantee, for any      *)
(* number of callers, lifetimes, restarts of SFTPGo and interleavings.     *)
(***************************************************************************)
EXTENDS TokenCache, TLAPS

\* A fetch is only under way while there is no fresh token in the cache.
FetchesStale == mu # None => ~Fresh

\* A token from the cache was fresh when it was taken.
TakenFresh ==
  \A c \in Callers : req[c].cached =>
    req[c].pc = "send" /\ req[c].got + Slack < req[c].token.expires

\* A token expires within a lifetime from now; one that SFTPGo has forgotten,
\* within a lifetime from the restart.
Bounded(t) ==
  \E life \in Lifetimes :
    t.expires <= now + life /\ (t.epoch = epoch \/ t.expires <= restarted + life)

TokensBounded ==
  /\ restarted <= now
  /\ token # None => Bounded(token)
  /\ \A c \in Callers : req[c].pc = "reply" /\ req[c].token # None => Bounded(req[c].token)

CacheInv == TypeOK /\ HeldForOneFetch /\ FetchesStale /\ TakenFresh /\ TokensBounded

LEMMA CacheInvInit == Init => CacheInv
<1> SUFFICES ASSUME Init PROVE CacheInv
  OBVIOUS
<1>1. NoRequest \in Request /\ NoRequest.pc = "idle" /\ ~NoRequest.cached
  BY DEF NoRequest, Request
<1> QED
  BY <1>1, NoneAssumption, BudgetAssumption
     DEF Init, CacheInv, TypeOK, HeldForOneFetch, FetchesStale, TakenFresh, TokensBounded

-----------------------------------------------------------------------------

LEMMA Spent == ASSUME TypeOK, NEW x \in Perturbations, Spend(x)
               PROVE  budget' \in [Perturbations -> Nat]
BY DEF TypeOK, Spend

\* What a step of c that leaves SFTPGo and the clock alone has to show.
LEMMA StepOf ==
  ASSUME CacheInv, NEW c \in Callers,
         UNCHANGED <<now, server>>, budget' \in [Perturbations -> Nat],
         NEW x \in Request, req' = [req EXCEPT ![c] = x],
         x.cached => x.pc = "send" /\ x.token # None /\ x.got + Slack < x.token.expires,
         x.pc = "reply" /\ x.token # None => Bounded(x.token),
         \/ mu' = mu /\ ((x.pc \in {"fetch", "reply"}) <=> (mu = c))
         \/ mu' = c /\ mu = None /\ x.pc \in {"fetch", "reply"}
         \/ mu' = None /\ mu = c /\ x.pc \notin {"fetch", "reply"},
         \/ token' = token /\ (mu' # None => ~Fresh)
         \/ token' = None /\ mu' = None
         \/ token' \in Token /\ Bounded(token') /\ mu' = None
  PROVE  CacheInv'
<1>1. req' \in [Callers -> Request] /\ req'[c] = x
      /\ \A d \in Callers : d # c => req'[d] = req[d]
  BY DEF CacheInv, TypeOK
<1>2. TypeOK'
  BY <1>1 DEF CacheInv, TypeOK, server
<1>3. HeldForOneFetch'
  BY <1>1, NoneAssumption DEF CacheInv, HeldForOneFetch
<1>4. FetchesStale'
  BY DEF FetchesStale, Fresh
<1>5. TakenFresh'
  BY <1>1 DEF CacheInv, TakenFresh
<1>6. \A t : Bounded(t)' <=> Bounded(t)
  BY DEF Bounded, server
<1>7. TokensBounded'
  BY <1>1, <1>6, NoneAssumption, TokenAssumption DEF CacheInv, TokensBounded, server
<1> QED
  BY <1>2, <1>3, <1>4, <1>5, <1>7 DEF CacheInv

LEMMA LocalKeeps ==
  ASSUME CacheInv, NEW c \in Callers, Call(c) \/ Send(c) \/ Disconnect(c)
  PROVE  CacheInv'
<1>1. PICK x : x = IF Call(c) THEN [req[c] EXCEPT !.pc = "lock"]
                   ELSE IF Send(c) THEN NoRequest ELSE [req[c] EXCEPT !.cancelled = TRUE]
  OBVIOUS
<1>2. /\ req[c] \in Request /\ NoRequest \in Request
      /\ NoRequest.pc = "idle" /\ ~NoRequest.cached
  BY DEF CacheInv, TypeOK, NoRequest, Request
<1>3. req' = [req EXCEPT ![c] = x]
  BY <1>1 DEF Call, Send, Disconnect, Goto, Finish, CacheInv, TypeOK
<1>4. x \in Request
  BY <1>1, <1>2 DEF Request
<1>5. \/ x.pc \in {"idle", "lock"} /\ req[c].pc \in {"idle", "lock", "send"}
      \/ /\ x.pc = req[c].pc /\ x.token = req[c].token /\ req[c].pc \in {"lock", "fetch", "reply"}
  BY <1>1, <1>2 DEF Call, Send, Disconnect, Request
<1>6. budget' \in [Perturbations -> Nat]
  BY Spent DEF Call, Send, Disconnect, CacheInv, TypeOK, Perturbations
<1>7. UNCHANGED <<now, server, token, mu>>
  BY DEF Call, Send, Disconnect
<1>9. x.pc = "reply" /\ x.token # None => Bounded(x.token)
  BY <1>5 DEF CacheInv, TokensBounded
<1>10. (x.pc \in {"fetch", "reply"}) <=> (mu = c)
  BY <1>5 DEF CacheInv, HeldForOneFetch
<1>11. mu' # None => ~Fresh
  BY <1>7 DEF CacheInv, FetchesStale
<1>12. ~x.cached
  BY <1>1, <1>2 DEF Call, Send, Disconnect, CacheInv, TakenFresh, Request
<1> QED
  BY <1>3, <1>4, <1>6, <1>7, <1>9, <1>10, <1>11, <1>12, StepOf

LEMMA LockKeeps ==
  ASSUME CacheInv, NEW c \in Callers, Lock(c)
  PROVE  CacheInv'
<1>1. req[c] \in Request /\ req[c].pc = "lock" /\ mu = None /\ now \in Nat
  BY DEF Lock, CacheInv, TypeOK
<1>2. UNCHANGED <<now, token, server, budget>> /\ budget \in [Perturbations -> Nat]
  BY DEF Lock, CacheInv, TypeOK
<1>3. CASE Fresh
  <2>1. PICK x : x = [req[c] EXCEPT !.pc = "send", !.token = token, !.cached = TRUE, !.got = now]
    OBVIOUS
  <2>2. req' = [req EXCEPT ![c] = x] /\ UNCHANGED mu
    BY <1>3, <2>1 DEF Lock, ReturnCached, CacheInv, TypeOK
  <2>3. token \in Token /\ now + Slack < token.expires
    BY <1>3 DEF Fresh, CacheInv, TypeOK
  <2>4. x \in Request /\ x.pc = "send" /\ x.token = token /\ x.got = now
    BY <1>1, <2>1, <2>3 DEF Request
  <2>5. x.token # None
    BY <2>3, <2>4, TokenAssumption
  <2> QED
    BY <1>1, <1>2, <2>2, <2>3, <2>4, <2>5, NoneAssumption, StepOf
<1>4. CASE ~Fresh
  <2>1. PICK x : x = [req[c] EXCEPT !.pc = "fetch"]
    OBVIOUS
  <2>2. ~req[c].cached
    BY <1>1 DEF CacheInv, TakenFresh
  <2>3. req' = [req EXCEPT ![c] = x] /\ mu' = c
    BY <1>4, <2>1 DEF Lock, Goto, CacheInv, TypeOK
  <2>4. x \in Request /\ x.pc = "fetch" /\ ~x.cached
    BY <1>1, <2>1, <2>2 DEF Request
  <2> QED
    BY <1>1, <1>2, <1>4, <2>3, <2>4, StepOf
<1> QED
  BY <1>3, <1>4

LEMMA FetchFailsKeeps ==
  ASSUME CacheInv, NEW c \in Callers, FetchFails(c)
  PROVE  CacheInv'
<1>1. NoRequest \in Request /\ NoRequest.pc = "idle" /\ ~NoRequest.cached
  BY DEF NoRequest, Request
<1>2. mu = c /\ mu' = None /\ UNCHANGED <<now, token, server>>
  BY DEF FetchFails, CacheInv, HeldForOneFetch
<1>3. budget' \in [Perturbations -> Nat]
  BY Spent DEF FetchFails, CacheInv, TypeOK, Perturbations
<1>4. req' = [req EXCEPT ![c] = NoRequest]
  BY DEF FetchFails, Finish
<1> QED
  BY <1>1, <1>2, <1>3, <1>4, StepOf

LEMMA IssueKeeps ==
  ASSUME CacheInv, NEW c \in Callers, Issue(c)
  PROVE  CacheInv'
<1>1. PICK life \in Lifetimes :
        req' = [req EXCEPT ![c].pc = "reply",
                           ![c].token = [expires |-> now + life, epoch |-> epoch]]
  BY DEF Issue
<1>2. PICK t : t = [expires |-> now + life, epoch |-> epoch]
  OBVIOUS
<1>3. t \in Token /\ t.expires = now + life /\ t.epoch = epoch /\ now \in Nat
  BY <1>2, TimesAssumption DEF Token, CacheInv, TypeOK
<1>4. Bounded(t) /\ t # None
  BY <1>3, TokenAssumption, TimesAssumption DEF Bounded
<1>5. PICK x : x = [req[c] EXCEPT !.pc = "reply", !.token = t]
  OBVIOUS
<1>6. req[c] \in Request /\ req[c].pc = "fetch" /\ mu = c /\ ~req[c].cached
  BY DEF Issue, CacheInv, TypeOK, HeldForOneFetch, TakenFresh
<1>7. x \in Request /\ x.pc = "reply" /\ x.token = t /\ ~x.cached
  BY <1>3, <1>5, <1>6 DEF Request
<1>8. req' = [req EXCEPT ![c] = x]
  BY <1>1, <1>2, <1>5 DEF CacheInv, TypeOK
<1>9. UNCHANGED <<now, token, mu, server, budget>> /\ budget \in [Perturbations -> Nat]
  BY DEF Issue, CacheInv, TypeOK
<1>10. ~Fresh
  BY <1>6, NoneAssumption DEF CacheInv, FetchesStale
<1> QED
  BY <1>4, <1>6, <1>7, <1>8, <1>9, <1>10, StepOf

\* The reply that names no token has nothing to show.
LEMMA AnswerWithoutTokenKeeps ==
  ASSUME CacheInv, NEW c \in Callers, AnswerWithoutToken(c)
  PROVE  CacheInv'
<1>1. PICK x : x = [req[c] EXCEPT !.pc = "reply", !.token = None]
  OBVIOUS
<1>2. req[c] \in Request /\ req[c].pc = "fetch" /\ mu = c /\ ~req[c].cached
  BY DEF AnswerWithoutToken, CacheInv, TypeOK, HeldForOneFetch, TakenFresh
<1>3. x \in Request /\ x.pc = "reply" /\ x.token = None /\ ~x.cached
  BY <1>1, <1>2 DEF Request
<1>4. req' = [req EXCEPT ![c] = x]
  BY <1>1 DEF AnswerWithoutToken, CacheInv, TypeOK
<1>5. budget' \in [Perturbations -> Nat]
  BY Spent DEF AnswerWithoutToken, CacheInv, TypeOK, Perturbations
<1>6. UNCHANGED <<now, token, mu, server>> /\ ~Fresh
  BY <1>2, NoneAssumption DEF AnswerWithoutToken, CacheInv, FetchesStale
<1> QED
  BY <1>2, <1>3, <1>4, <1>5, <1>6, StepOf

LEMMA ReadReplyKeeps ==
  ASSUME CacheInv, NEW c \in Callers, ReadReply(c)
  PROVE  CacheInv'
<1>1. req[c] \in Request /\ req[c].pc = "reply" /\ mu = c
  BY DEF ReadReply, CacheInv, TypeOK, HeldForOneFetch
<1>2. req[c].token = None \/ (req[c].token \in Token /\ Bounded(req[c].token))
  BY <1>1 DEF CacheInv, TokensBounded, Request
<1>3. PICK x : x = [req[c] EXCEPT !.pc = "send"]
  OBVIOUS
<1>4. x \in Request /\ x.pc = "send" /\ x.token = req[c].token /\ x.cached = req[c].cached
  BY <1>1, <1>3 DEF Request
<1>5. req' = [req EXCEPT ![c] = x] /\ token' = req[c].token /\ mu' = None
  BY <1>3 DEF ReadReply, Goto, CacheInv, TypeOK
<1>6. UNCHANGED <<now, server, budget>> /\ budget \in [Perturbations -> Nat]
  BY DEF ReadReply, CacheInv, TypeOK
<1>7. token' = None \/ (token' \in Token /\ Bounded(token'))
  BY <1>2, <1>5
<1>8. ~x.cached
  BY <1>1, <1>4 DEF CacheInv, TakenFresh
<1> QED
  BY <1>1, <1>4, <1>5, <1>6, <1>7, <1>8, StepOf

\* SFTPGo and the clock.
LEMMA WorldKeeps ==
  ASSUME CacheInv, Restart \/ Hang \/ Recover \/ Tick
  PROVE  CacheInv'
<1>1. /\ UNCHANGED <<token, mu, req>>
      /\ \/ now' = now /\ epoch' = epoch + 1 /\ restarted' = now
         \/ now' = now /\ epoch' = epoch /\ restarted' = restarted
         \/ now' = now + 1 /\ epoch' = epoch /\ restarted' = restarted
  BY DEF Restart, Hang, Recover, Tick, server
<1>2. now \in Nat /\ epoch \in Nat /\ restarted \in Nat /\ restarted <= now
  BY DEF CacheInv, TypeOK, TokensBounded
<1>3. TypeOK'
  <2>1. budget' \in [Perturbations -> Nat]
    BY Spent DEF Restart, Hang, Recover, Tick, CacheInv, TypeOK, Perturbations
  <2>2. answers' \in BOOLEAN
    BY DEF Restart, Hang, Recover, Tick, server, CacheInv, TypeOK
  <2>3. now' \in Nat /\ epoch' \in Nat /\ restarted' \in Nat
    BY <1>1, <1>2
  <2> QED
    BY <1>1, <2>1, <2>2, <2>3 DEF CacheInv, TypeOK
<1>4. ASSUME NEW t \in Token, Bounded(t) PROVE Bounded(t)'
  <2>1. PICK life \in Lifetimes :
          t.expires <= now + life /\ (t.epoch = epoch \/ t.expires <= restarted + life)
    BY <1>4 DEF Bounded
  <2>2. t.expires \in Nat /\ life \in Nat
    BY TimesAssumption DEF Token
  <2>3. t.expires <= now' + life /\ (t.epoch = epoch' \/ t.expires <= restarted' + life)
    BY <1>1, <1>2, <2>1, <2>2
  <2> QED
    BY <2>3 DEF Bounded
<1>5. TokensBounded'
  <2>1. token # None => token \in Token
    BY DEF CacheInv, TypeOK
  <2>2. \A c \in Callers : req[c].pc = "reply" /\ req[c].token # None => req[c].token \in Token
    BY DEF CacheInv, TypeOK, Request
  <2>3. restarted' <= now'
    BY <1>1, <1>2
  <2> QED
    BY <1>1, <1>4, <2>1, <2>2, <2>3 DEF CacheInv, TokensBounded
<1>6. FetchesStale'
  <2>1. token # None => token.expires \in Nat
    BY DEF CacheInv, TypeOK, Token
  <2>2. Fresh' => Fresh
    BY <1>1, <1>2, <2>1, TimesAssumption DEF Fresh
  <2> QED
    BY <1>1, <2>2 DEF CacheInv, FetchesStale
<1>7. HeldForOneFetch' /\ TakenFresh'
  BY <1>1 DEF CacheInv, HeldForOneFetch, TakenFresh
<1> QED
  BY <1>3, <1>5, <1>6, <1>7 DEF CacheInv

LEMMA CacheInvNext == CacheInv /\ [Next]_vars => CacheInv'
<1> SUFFICES ASSUME CacheInv, [Next]_vars PROVE CacheInv'
  OBVIOUS
<1>1. CASE UNCHANGED vars
  <2>1. UNCHANGED <<now, token, mu, req, epoch, answers, budget, restarted>>
    BY <1>1 DEF vars
  <2> QED
    BY <2>1 DEF CacheInv, TypeOK, HeldForOneFetch, FetchesStale, Fresh, TakenFresh, TokensBounded, Bounded
<1> QED
  BY <1>1, LocalKeeps, LockKeeps, FetchFailsKeeps, IssueKeeps, AnswerWithoutTokenKeeps,
     ReadReplyKeeps, WorldKeeps
     DEF Next, Step

LEMMA CacheInvariant == Spec => []CacheInv
BY CacheInvInit, CacheInvNext, PTL DEF Spec

-----------------------------------------------------------------------------
(* The properties. *)

\* Every reachable state is well typed, and the cache hands out no empty token,
\* although an answer of SFTPGo may leave one in it.
THEOREM TypeCorrect == Spec => []TypeOK
<1>1. CacheInv => TypeOK
  BY DEF CacheInv
<1> QED
  BY <1>1, CacheInvariant, PTL

\* The mutex is taken exactly while its holder's fetch is under way, however the
\* fetch ends and whoever disconnects meanwhile.
THEOREM OneFetchHolds == Spec => []HeldForOneFetch
<1>1. CacheInv => HeldForOneFetch
  BY DEF CacheInv
<1> QED
  BY <1>1, CacheInvariant, PTL

\* A token from the cache outlives the slack, however the clock runs between
\* the look into the cache and the call.
THEOREM Timely == Spec => []TimelyCallsAccepted
<1>1. CacheInv => TimelyCallsAccepted
  <2> SUFFICES ASSUME CacheInv, NEW c \in Callers,
                      req[c].pc = "send", req[c].cached,
                      now <= req[c].got + Slack, req[c].token.epoch = epoch
               PROVE  now < req[c].token.expires
    BY DEF TimelyCallsAccepted, Accepted
  <2>1. req[c].token \in Token /\ req[c].got \in Nat /\ now \in Nat
    BY DEF CacheInv, TypeOK, Request
  <2>2. req[c].got + Slack < req[c].token.expires
    BY DEF CacheInv, TakenFresh
  <2> QED
    BY <2>1, <2>2, TimesAssumption DEF Token
<1> QED
  BY <1>1, CacheInvariant, PTL

\* A restart of SFTPGo makes calls fail for no longer than the longest lifetime
\* but the slack.
THEOREM StaleBounded == Spec => []StaleCacheIsBounded
<1>1. CacheInv => StaleCacheIsBounded
  <2> SUFFICES ASSUME CacheInv, NEW life \in Lifetimes, Fresh,
                      \A l \in Lifetimes : l <= life, restarted + life <= now + Slack
               PROVE  token.epoch = epoch
    BY DEF StaleCacheIsBounded
  <2>1. token \in Token /\ now \in Nat /\ restarted \in Nat /\ now + Slack < token.expires
    BY DEF CacheInv, TypeOK, Fresh
  <2>2. PICK l \in Lifetimes : token.epoch = epoch \/ token.expires <= restarted + l
    BY DEF CacheInv, TokensBounded, Bounded, Fresh
  <2>3. l <= life /\ l \in Nat /\ life \in Nat /\ Slack \in Nat /\ token.expires \in Nat
    BY <2>1, TimesAssumption DEF Token
  <2> QED
    BY <2>1, <2>2, <2>3
<1> QED
  BY <1>1, CacheInvariant, PTL

\* Callers that find the same token stale fetch one new token between them.
THEOREM OneFetch == Spec => OneFetchPerLifetime
<1>1. ASSUME CacheInv, Next, token' # token PROVE ~Fresh
  <2>1. PICK c \in Callers : ReadReply(c)
    BY <1>1 DEF Next, Step, Call, Lock, FetchFails, Issue, AnswerWithoutToken, Send, Disconnect, Restart, Hang,
                Recover, Tick
  <2>2. mu = c
    BY <1>1, <2>1 DEF ReadReply, CacheInv, HeldForOneFetch
  <2> QED
    BY <1>1, <2>2, NoneAssumption DEF CacheInv, FetchesStale
<1>2. CacheInv /\ [Next]_vars => [token' # token => ~Fresh]_vars
  BY <1>1
<1> QED
  BY <1>2, CacheInvariant, PTL DEF Spec, OneFetchPerLifetime
=============================================================================
