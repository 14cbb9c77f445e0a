------------------------------ MODULE Bootstrap ------------------------------
(***************************************************************************)
(* The bootstrap endpoint, POST /api/keys, and the API keys it leaves for  *)
(* the authentication of every other management call.  The endpoint is     *)
(* meant to work once: it counts the rows of "api_keys" and inserts one if *)
(* there are none.  The two statements are separate, and each handler runs *)
(* them in a goroutine of its own.                                         *)
(***************************************************************************)
EXTENDS Naturals, FiniteSets

CONSTANTS
  Handlers,        \* goroutines that serve POST /api/keys, at most so many at once
  APIKeys,         \* outcomes of newAPIKey; the table holds their hashes
  Tokens,          \* what a client may send as X-Bootstrap-Token
  BootstrapToken,  \* the configured token; None: the endpoint is disabled
  None,            \* no value
  Budget           \* how often each kind of perturbation may still happen

Perturbations == {"faults", "disconnects", "crashes"}

ASSUME HandlersAssumption == IsFiniteSet(Handlers)
ASSUME KeysAssumption == None \notin APIKeys \cup Tokens
ASSUME BudgetAssumption == Budget \in [Perturbations -> Nat]

VARIABLES
  api_keys,   \* the keys whose hash is in the SQLite table
  req,        \* req[h]: the local variables of handler h
  delivered,  \* the keys that a client has received
  budget      \* the perturbations left

vars == <<api_keys, req, delivered, budget>>

\* The program counter names what the handler does next.
Request == [pc : {"idle", "count", "insert", "reply"},
            key : APIKeys \cup {None}, cancelled : BOOLEAN]

NoRequest == [pc |-> "idle", key |-> None, cancelled |-> FALSE]

Spend(p) == budget[p] > 0 /\ budget' = [budget EXCEPT ![p] = @ - 1]

Answered(h) == ~req[h].cancelled /\ UNCHANGED budget

\* A statement under a cancelled context always fails.
Failed(h) == IF req[h].cancelled THEN UNCHANGED budget ELSE Spend("faults")

Finish(h) == req' = [req EXCEPT ![h] = NoRequest]

\* A random key: none that is stored, known to a client or held by a handler.
\* One that was generated and forgotten may as well never have been.
FreshKeys == APIKeys \ (api_keys \cup delivered \cup {req[h].key : h \in Handlers})

-----------------------------------------------------------------------------

\* A disabled endpoint and a wrong token are answered 403.
Post(h, token) ==
  /\ req[h].pc = "idle"
  /\ BootstrapToken # None /\ token = BootstrapToken
  /\ req' = [req EXCEPT ![h].pc = "count"]
  /\ UNCHANGED <<api_keys, delivered, budget>>

\* Mutation: the count is read the wrong way round.
HasNoAPIKeys == api_keys = {}

\* Mutation: the count is not asked for.
NeverHasAPIKeys == FALSE

HasAPIKeys == api_keys # {}

\* Mutation: the key is left empty.
MintNothing(h) == req' = [req EXCEPT ![h].pc = "insert"]

\* newAPIKey.
Mint(h) == \E k \in FreshKeys : req' = [req EXCEPT ![h].pc = "insert", ![h].key = k]

\* A table that has a key is answered 409.
CountKeys(h) ==
  /\ req[h].pc = "count"
  /\ \/ Answered(h) /\ ~HasAPIKeys /\ Mint(h)
     \/ Answered(h) /\ HasAPIKeys /\ Finish(h)
     \/ Failed(h) /\ Finish(h)
  /\ UNCHANGED <<api_keys, delivered>>

\* Mutation: the error of CreateAPIKey is not looked at.
InsertUnchecked(h) ==
  /\ req[h].pc = "insert"
  /\ req' = [req EXCEPT ![h].pc = "reply"]
  /\ \/ Answered(h) /\ api_keys' = api_keys \cup {req[h].key}
     \/ Failed(h) /\ UNCHANGED api_keys
  /\ UNCHANGED delivered

\* The last disjunct: the context is cancelled while the statement runs, which
\* the driver reports as an error although the row is written.
InsertKey(h) ==
  /\ req[h].pc = "insert"
  /\ \/ /\ Answered(h)
        /\ api_keys' = api_keys \cup {req[h].key}
        /\ req' = [req EXCEPT ![h].pc = "reply"]
     \/ Failed(h) /\ Finish(h) /\ UNCHANGED api_keys
     \/ /\ ~req[h].cancelled /\ Spend("disconnects")
        /\ api_keys' = api_keys \cup {req[h].key}
        /\ Finish(h)
  /\ UNCHANGED delivered

\* Mutation: the key is left out of the response.
ReplyWithoutKey(h) ==
  /\ req[h].pc = "reply"
  /\ Finish(h)
  /\ Answered(h) \/ Failed(h)
  /\ UNCHANGED <<api_keys, delivered>>

\* The response carries the only copy of the key.
Reply(h) ==
  /\ req[h].pc = "reply"
  /\ Finish(h)
  /\ \/ Answered(h) /\ delivered' = delivered \cup {req[h].key}
     \/ Failed(h) /\ UNCHANGED delivered
  /\ UNCHANGED api_keys

\* The client goes away; net/http cancels the context of its request.
Disconnect(h) ==
  /\ req[h].pc # "idle" /\ ~req[h].cancelled
  /\ Spend("disconnects")
  /\ req' = [req EXCEPT ![h].cancelled = TRUE]
  /\ UNCHANGED <<api_keys, delivered>>

\* The process dies or stops; at the next start the schema statements leave
\* the rows of the table as they are.
Crash ==
  /\ Spend("crashes")
  /\ req' = [h \in Handlers |-> NoRequest]
  /\ UNCHANGED <<api_keys, delivered>>

-----------------------------------------------------------------------------

Init ==
  /\ api_keys = {}
  /\ req = [h \in Handlers |-> NoRequest]
  /\ delivered = {}
  /\ budget = Budget

Step(h) == CountKeys(h) \/ InsertKey(h) \/ Reply(h)

Next ==
  \/ \E h \in Handlers : (\E token \in Tokens : Post(h, token)) \/ Step(h) \/ Disconnect(h)
  \/ Crash

Spec == Init /\ [][Next]_vars

\* A served request runs to its end, and an operator who was refused tries again.
FairSpec ==
  /\ Spec
  /\ \A h \in Handlers : WF_vars(Step(h))
  /\ SF_vars(\E h \in Handlers : Post(h, BootstrapToken))

-----------------------------------------------------------------------------
(* Properties. *)

\* Every variable stays within the domain its declaration describes.
TypeOK ==
  /\ api_keys \subseteq APIKeys
  /\ req \in [Handlers -> Request]
  /\ delivered \subseteq APIKeys
  /\ budget \in [Perturbations -> Nat]

\* ValidateAPIKey: the hash of the presented key is in the table.
Validates(k) == k \in api_keys

\* A key that a client was given authenticates its calls from then on, through
\* whatever failures and restarts.
DeliveredKeysWork == \A k \in delivered : Validates(k)

\* The window closes: however many times the endpoint is called, and whatever
\* fails, it never stores more keys than calls can be served at the same time.
NoMoreKeysThanRacers == Cardinality(api_keys) <= Cardinality(Handlers)

\* A bootstrap that is asked for until it succeeds does close the window.
WindowCloses == BootstrapToken \in Tokens => <>(api_keys # {})

\* Without a failure somebody ends up holding a key: racing requests never
\* refuse one another until nobody has got one.
SomeoneGetsAKey == BootstrapToken \in Tokens => <>(delivered # {} \/ budget # Budget)

-----------------------------------------------------------------------------
(* What the repository says and the code does not keep. *)

\* services.go: "BootstrapAPIKey mints the initial management API key once."
\* Violated by two calls that both count before either inserts.
AtMostOneKey == Cardinality(api_keys) <= 1
=============================================================================
