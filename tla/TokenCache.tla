----------------------------- MODULE TokenCache -----------------------------
(***************************************************************************)
(* The admin client's access token.  Every call to SFTPGo first asks       *)
(* getToken for one, under a mutex: it returns the cached token or fetches *)
(* a new one, and holds the mutex while the fetch is on the wire.  Time is *)
(* a clock that ticks between any two steps; the token endpoint may stop   *)
(* answering for a while, and an SFTPGo that restarts forgets the tokens   *)
(* it issued.                                                              *)
(***************************************************************************)
EXTENDS Naturals

CONSTANTS
  Callers,    \* goroutines that make a call to SFTPGo
  Lifetimes,  \* for how long SFTPGo may issue a token
  Slack,      \* how long before it expires a cached token is given up: 30 s
  MaxTime,    \* the clock stops here
  None,       \* no token, also as the empty string; nobody
  Budget      \* how often each kind of perturbation may still happen

\* A fetch that fails or brings no token, or a client that goes away; a restart or
\* a silence of SFTPGo.
Perturbations == {"calls", "outages"}

ASSUME TimesAssumption == Lifetimes \subseteq Nat /\ Slack \in Nat /\ MaxTime \in Nat
ASSUME BudgetAssumption == Budget \in [Perturbations -> Nat]
ASSUME NoneAssumption == None \notin Callers

VARIABLES
  now,       \* the clock
  token,     \* the cached token
  mu,        \* who holds the mutex
  req,       \* req[c]: the local variables of caller c
  epoch,     \* how often SFTPGo has restarted
  answers,   \* FALSE while the token endpoint accepts calls and says nothing
  budget,    \* the perturbations left
  restarted  \* history: when SFTPGo last restarted

vars == <<now, token, mu, req, epoch, answers, budget, restarted>>

server == <<epoch, answers, restarted>>

\* What SFTPGo knows of a token it issued; two that agree in it are as one.
Token == [expires : Nat, epoch : Nat]

ASSUME TokenAssumption == None \notin Token

\* The token of a caller: on its way from SFTPGo, or to be sent with the call.
Request == [pc : {"idle", "lock", "fetch", "reply", "send"}, token : Token \cup {None},
            cached : BOOLEAN, got : Nat, cancelled : BOOLEAN]

NoRequest == [pc |-> "idle", token |-> None, cached |-> FALSE, got |-> 0, cancelled |-> FALSE]

Spend(p) == budget[p] > 0 /\ budget' = [budget EXCEPT ![p] = @ - 1]

Finish(c) == req' = [req EXCEPT ![c] = NoRequest]

Goto(c, pc) == req' = [req EXCEPT ![c].pc = pc]

\* getToken returns the cached token.
ReturnCached(c) ==
  req' = [req EXCEPT ![c].pc = "send", ![c].token = token, ![c].cached = TRUE, ![c].got = now]

-----------------------------------------------------------------------------

Call(c) ==
  /\ req[c].pc = "idle"
  /\ Goto(c, "lock")
  /\ UNCHANGED <<now, token, mu, server, budget>>

\* Mutation: the slack is forgotten.
FreshToTheEnd == token # None /\ now < token.expires

\* Mutation: the slack is on the wrong side.
FreshBeyondTheEnd == token # None /\ now < token.expires + Slack

Fresh == token # None /\ now + Slack < token.expires

\* Mutation: the mutex is not taken.
LookWithoutLock(c) ==
  /\ req[c].pc = "lock"
  /\ IF Fresh THEN ReturnCached(c) ELSE Goto(c, "fetch")
  /\ UNCHANGED <<now, token, mu, server, budget>>

\* Mutation: a caller that finds a fetch under way does not wait for it.
LockOrLeave(c) ==
  /\ req[c].pc = "lock"
  /\ IF Fresh \/ mu # None
     THEN ReturnCached(c) /\ UNCHANGED mu
     ELSE Goto(c, "fetch") /\ mu' = c
  /\ UNCHANGED <<now, token, server, budget>>

\* A goroutine that waits for the mutex does not notice that its client has
\* gone: sync.Mutex knows no context.
Lock(c) ==
  /\ req[c].pc = "lock" /\ mu = None
  /\ IF Fresh
     THEN ReturnCached(c) /\ UNCHANGED mu
     ELSE Goto(c, "fetch") /\ mu' = c
  /\ UNCHANGED <<now, token, server, budget>>

\* Mutation: a fetch that fails leaves the mutex locked.
FailedFetchLocked(c) ==
  /\ req[c].pc \in {"fetch", "reply"}
  /\ IF req[c].cancelled THEN UNCHANGED budget ELSE Spend("calls")
  /\ Finish(c)
  /\ UNCHANGED <<now, token, mu, server>>

\* No connection, a refusal, a body that does not decode, or a context that is
\* cancelled, be it before the request is sent or while it waits.
FetchFails(c) ==
  /\ req[c].pc \in {"fetch", "reply"}
  /\ IF req[c].cancelled THEN UNCHANGED budget ELSE Spend("calls")
  /\ Finish(c)
  /\ mu' = None
  /\ UNCHANGED <<now, token, server>>

\* SFTPGo issues a token; its lifetime begins before the answer is read.
Issue(c) ==
  /\ req[c].pc = "fetch" /\ ~req[c].cancelled /\ answers
  /\ \E life \in Lifetimes :
       req' = [req EXCEPT ![c].pc = "reply",
                          ![c].token = [expires |-> now + life, epoch |-> epoch]]
  /\ UNCHANGED <<now, token, mu, server, budget>>

\* An answer 200 whose JSON has no access_token decodes without an error.
AnswerWithoutToken(c) ==
  /\ req[c].pc = "fetch" /\ ~req[c].cancelled /\ answers
  /\ Spend("calls")
  /\ req' = [req EXCEPT ![c].pc = "reply", ![c].token = None]
  /\ UNCHANGED <<now, token, mu, server>>

\* What was just fetched is cached and returned without a look at its expiry, nor
\* at whether it is a token at all.
ReadReply(c) ==
  /\ req[c].pc = "reply" /\ ~req[c].cancelled
  /\ token' = req[c].token
  /\ Goto(c, "send")
  /\ mu' = None
  /\ UNCHANGED <<now, server, budget>>

\* The call itself, which SFTPGo answers 401 when there is no token or one that it
\* does not accept; neither answer changes the cache.
Send(c) ==
  /\ req[c].pc = "send"
  /\ Finish(c)
  /\ UNCHANGED <<now, token, mu, server, budget>>

\* The client goes away; net/http cancels the context of its request.
Disconnect(c) ==
  /\ req[c].pc \in {"lock", "fetch", "reply"} /\ ~req[c].cancelled
  /\ Spend("calls")
  /\ req' = [req EXCEPT ![c].cancelled = TRUE]
  /\ UNCHANGED <<now, token, mu, server>>

-----------------------------------------------------------------------------
(* SFTPGo and the clock. *)

Accepted(t) == t.epoch = epoch /\ now < t.expires

\* Tokens are signed with a key that SFTPGo makes up when it starts.
Restart ==
  /\ Spend("outages")
  /\ epoch' = epoch + 1 /\ restarted' = now
  /\ UNCHANGED <<now, token, mu, req, answers>>

Hang ==
  /\ answers /\ Spend("outages")
  /\ answers' = FALSE
  /\ UNCHANGED <<now, token, mu, req, epoch, restarted>>

Recover ==
  /\ ~answers
  /\ answers' = TRUE
  /\ UNCHANGED <<now, token, mu, req, epoch, budget, restarted>>

Tick ==
  /\ now < MaxTime
  /\ now' = now + 1
  /\ UNCHANGED <<token, mu, req, server, budget>>

-----------------------------------------------------------------------------

Init ==
  /\ now = 0 /\ token = None /\ mu = None
  /\ req = [c \in Callers |-> NoRequest]
  /\ epoch = 0 /\ answers = TRUE /\ restarted = 0
  /\ budget = Budget

Step(c) == FetchFails(c) \/ Issue(c) \/ AnswerWithoutToken(c) \/ ReadReply(c) \/ Send(c)

Next ==
  \/ \E c \in Callers : Call(c) \/ Lock(c) \/ Step(c) \/ Disconnect(c)
  \/ Restart \/ Hang \/ Recover \/ Tick

Spec == Init /\ [][Next]_vars

\* A goroutine that may run does, a waiter gets the mutex at last (sync.Mutex
\* hands it over in order once somebody has waited for a millisecond), and the
\* token endpoint does not stay silent for ever: http.DefaultClient has no
\* timeout of its own.
FairSpec ==
  /\ Spec
  /\ \A c \in Callers : SF_vars(Lock(c)) /\ WF_vars(Step(c))
  /\ WF_vars(Recover)

-----------------------------------------------------------------------------
(* Properties. *)

\* Every variable stays within the domain its declaration describes, and what is
\* taken from the cache is a token: an empty one, which an answer without a token
\* leaves there, goes with the call that fetched it and with no other.
TypeOK ==
  /\ now \in Nat /\ epoch \in Nat /\ restarted \in Nat
  /\ token \in Token \cup {None}
  /\ mu \in Callers \cup {None}
  /\ req \in [Callers -> Request]
  /\ \A c \in Callers : req[c].cached => req[c].pc = "send" /\ req[c].token # None
  /\ answers \in BOOLEAN
  /\ budget \in [Perturbations -> Nat]

\* Callers that ask at the same time share one fetch: a token replaces another
\* only when that one is no longer fresh, however many callers found it stale.
OneFetchPerLifetime == [][token' # token => ~Fresh]_vars

\* A call that is sent within the slack of taking its token from the cache is
\* never refused because the token has expired meanwhile: SFTPGo accepts it
\* unless it has restarted since it issued the token.
TimelyCallsAccepted ==
  \A c \in Callers :
    (/\ req[c].pc = "send" /\ req[c].cached
     /\ now <= req[c].got + Slack
     /\ req[c].token.epoch = epoch)
    => Accepted(req[c].token)

\* The mutex is never left behind: while it is taken its holder has a fetch on
\* the wire, also when the holder's client has gone, so whoever waits waits for
\* an answer of SFTPGo and for nothing else; and nobody fetches without it.
HeldForOneFetch == \A c \in Callers : (mu = c) <=> (req[c].pc \in {"fetch", "reply"})

\* A restart of SFTPGo makes the cached token useless and nothing drops it on a
\* 401, but only for a time: once the longest lifetime but the slack has gone
\* by since the restart, a token taken from the cache is one SFTPGo knows.
StaleCacheIsBounded ==
  \A life \in Lifetimes :
    (/\ Fresh
     /\ \A l \in Lifetimes : l <= life
     /\ restarted + life <= now + Slack)
    => token.epoch = epoch

\* Whoever waits for the mutex waits for a fetch that is on the wire, so that
\* every call ends once the token endpoint answers, and one at a time fetches.
EveryCallEnds == \A c \in Callers : req[c].pc # "idle" ~> req[c].pc = "idle"
=============================================================================
