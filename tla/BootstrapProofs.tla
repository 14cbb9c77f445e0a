--------------------------- MODULE BootstrapProofs ---------------------------
(***************************************************************************)
(* Theorems about Bootstrap, for any number of handlers, keys and tokens   *)
(* and every budget of perturbations.                                      *)
(***************************************************************************)
EXTENDS Bootstrap, FiniteSetTheorems, TLAPS

KeysHeld ==
  /\ \A h \in Handlers : req[h].pc \in {"insert", "reply"} => req[h].key \in APIKeys
  /\ \A h \in Handlers : req[h].pc \in {"idle", "count"} => req[h].key = None

KeysStored ==
  /\ \A h \in Handlers : req[h].pc = "reply" => req[h].key \in api_keys
  /\ delivered \subseteq api_keys

Inserting == {h \in Handlers : req[h].pc = "insert"}

\* A stored key and a request about to store one have each had a handler that
\* counted an empty table, and no handler counts it empty twice.
Racers ==
  /\ IsFiniteSet(api_keys)
  /\ Cardinality(api_keys) + Cardinality(Inserting) <= Cardinality(Handlers)

Inv == TypeOK /\ KeysHeld /\ KeysStored /\ Racers

-----------------------------------------------------------------------------

LEMMA InsertingFinite ==
  /\ IsFiniteSet(Inserting) /\ Cardinality(Inserting) \in Nat
  /\ Cardinality(Handlers) \in Nat
  /\ Cardinality(Inserting) <= Cardinality(Handlers)
<1>1. Inserting \subseteq Handlers
  BY DEF Inserting
<1> QED
  BY <1>1, HandlersAssumption, FS_Subset, FS_CardinalityType

\* Fewer requests about to insert, and the same keys.
LEMMA RacersStay ==
  ASSUME Racers, UNCHANGED api_keys, \A h \in Handlers : req'[h].pc = "insert" => req[h].pc = "insert"
  PROVE  Racers'
<1>1. PICK S, T : S = Inserting /\ T = Inserting'
  OBVIOUS
<1>2. T \subseteq S
  BY <1>1 DEF Inserting
<1>3. /\ IsFiniteSet(S)
      /\ Cardinality(Handlers) \in Nat
  BY <1>1, InsertingFinite
<1>4. Cardinality(T) <= Cardinality(S) /\ Cardinality(T) \in Nat /\ Cardinality(S) \in Nat
  BY <1>2, <1>3, FS_Subset, FS_CardinalityType
<1>5. Cardinality(api_keys) \in Nat
  BY FS_CardinalityType DEF Racers
<1> QED
  BY <1>1, <1>3, <1>4, <1>5 DEF Racers

\* A request that stores its key turns from a racer into a key.
LEMMA RacersAfterInsert ==
  ASSUME Racers, NEW h \in Handlers, req[h].pc = "insert", req'[h].pc # "insert",
         \A g \in Handlers : g # h => req'[g] = req[g],
         NEW k, api_keys' = api_keys \cup {k}
  PROVE  Racers'
<1>1. PICK S, T : S = Inserting /\ T = Inserting'
  OBVIOUS
<1>2. h \in S /\ T = S \ {h}
  BY <1>1 DEF Inserting
<1>3. IsFiniteSet(S) /\ Cardinality(S) \in Nat /\ Cardinality(Handlers) \in Nat
  BY <1>1, InsertingFinite
<1>4. Cardinality(T) = Cardinality(S) - 1
  BY <1>2, <1>3, FS_RemoveElement
<1>5. /\ IsFiniteSet(api_keys \cup {k})
      /\ Cardinality(api_keys) \in Nat /\ Cardinality(api_keys \cup {k}) \in Nat
      /\ Cardinality(api_keys \cup {k}) <= Cardinality(api_keys) + 1
  BY FS_AddElement, FS_CardinalityType DEF Racers
<1> QED
  BY <1>1, <1>3, <1>4, <1>5 DEF Racers

\* While the table is empty there are no more racers than handlers.
LEMMA RacersWhileEmpty ==
  ASSUME api_keys' = {}
  PROVE  Racers'
<1>1. PICK T : T = Inserting'
  OBVIOUS
<1>2. T \subseteq Handlers
  BY <1>1 DEF Inserting
<1>3. Cardinality(T) \in Nat /\ Cardinality(T) <= Cardinality(Handlers)
  BY <1>2, HandlersAssumption, FS_Subset, FS_CardinalityType
<1>4. IsFiniteSet({}) /\ Cardinality({}) = 0
  BY FS_EmptySet
<1> QED
  BY <1>1, <1>3, <1>4 DEF Racers

-----------------------------------------------------------------------------

LEMMA InitInv == Init => Inv
<1> SUFFICES ASSUME Init PROVE Inv
  OBVIOUS
<1>1. TypeOK /\ KeysHeld /\ KeysStored
  BY BudgetAssumption DEF Init, TypeOK, KeysHeld, KeysStored, NoRequest, Request
<1>2. Racers
  <2>1. PICK S : S = Inserting
    OBVIOUS
  <2>2. Cardinality(S) \in Nat /\ Cardinality(S) <= Cardinality(Handlers)
    BY <2>1, InsertingFinite
  <2>3. IsFiniteSet({}) /\ Cardinality({}) = 0
    BY FS_EmptySet
  <2> QED
    BY <2>1, <2>2, <2>3 DEF Init, Racers
<1> QED
  BY <1>1, <1>2 DEF Inv

LEMMA BudgetType ==
  ASSUME TypeOK, NEW p \in Perturbations, Spend(p)
  PROVE  budget' \in [Perturbations -> Nat]
BY DEF TypeOK, Spend

\* A request that ends without storing or handing out a key.
LEMMA FinishInv ==
  ASSUME Inv, NEW h \in Handlers, Finish(h), UNCHANGED <<api_keys, delivered>>,
         budget' \in [Perturbations -> Nat]
  PROVE  Inv'
<1>1. NoRequest \in Request /\ NoRequest.pc = "idle" /\ NoRequest.key = None
  BY DEF NoRequest, Request
<1>2. req'[h] = NoRequest /\ \A g \in Handlers : g # h => req'[g] = req[g]
  BY DEF Finish, Inv, TypeOK
<1>3. TypeOK'
  BY <1>1 DEF Inv, TypeOK, Finish
<1>4. KeysHeld' /\ KeysStored'
  BY <1>1, <1>2 DEF Inv, KeysHeld, KeysStored
<1>5. Racers'
  BY <1>1, <1>2, RacersStay DEF Inv
<1> QED
  BY <1>3, <1>4, <1>5 DEF Inv

LEMMA StepInv ==
  ASSUME Inv, NEW h \in Handlers, Step(h)
  PROVE  Inv'
<1>1. req \in [Handlers -> Request] /\ req[h] \in Request
  BY DEF Inv, TypeOK
<1>2. Answered(h) \/ Failed(h) \/ Spend("disconnects") => budget' \in [Perturbations -> Nat]
  BY BudgetType DEF Answered, Failed, Perturbations, Inv, TypeOK
<1>3. CASE CountKeys(h)
  <2>1. CASE Finish(h)
    BY <1>2, <1>3, <2>1, FinishInv DEF CountKeys
  <2>2. CASE /\ Answered(h) /\ api_keys = {}
             /\ Mint(h)
    <3>1. PICK k \in FreshKeys : req' = [req EXCEPT ![h].pc = "insert", ![h].key = k]
      BY <2>2 DEF Mint
    <3>2. k \in APIKeys
      BY <3>1 DEF FreshKeys
    <3>3. /\ req'[h].pc = "insert" /\ req'[h].key = k
          /\ \A g \in Handlers : g # h => req'[g] = req[g]
      BY <1>1, <3>1 DEF Request
    <3>4. req' \in [Handlers -> Request]
      BY <1>1, <3>1, <3>2 DEF Request
    <3>5. KeysHeld' /\ KeysStored'
      BY <1>3, <3>2, <3>3 DEF CountKeys, Inv, KeysHeld, KeysStored
    <3>6. Racers'
      BY <1>3, <2>2, RacersWhileEmpty DEF CountKeys
    <3> QED
      BY <1>2, <1>3, <2>2, <3>4, <3>5, <3>6 DEF CountKeys, Inv, TypeOK
  <2> QED
    BY <1>3, <2>1, <2>2 DEF CountKeys, HasAPIKeys
<1>4. CASE InsertKey(h)
  <2>1. req[h].pc = "insert" /\ req[h].key \in APIKeys /\ UNCHANGED delivered
    BY <1>4 DEF InsertKey, Inv, KeysHeld
  <2>2. CASE Finish(h) /\ UNCHANGED api_keys
    BY <1>2, <1>4, <2>2, FinishInv DEF InsertKey
  <2>3. CASE /\ api_keys' = api_keys \cup {req[h].key}
             /\ req' = [req EXCEPT ![h].pc = "reply"] \/ Finish(h)
    <3>1. /\ \A g \in Handlers : g # h => req'[g] = req[g]
          /\ \/ req'[h].pc = "reply" /\ req'[h].key = req[h].key
             \/ req'[h].pc = "idle" /\ req'[h].key = None
      BY <1>1, <2>3 DEF Finish, NoRequest, Request
    <3>2. req' \in [Handlers -> Request]
      <4>1. [req[h] EXCEPT !.pc = "reply"] \in Request /\ NoRequest \in Request
        BY <1>1 DEF Request, NoRequest
      <4> QED
        BY <1>1, <2>3, <4>1 DEF Finish
    <3>3. KeysHeld' /\ KeysStored'
      BY <2>1, <2>3, <3>1 DEF Inv, KeysHeld, KeysStored
    <3>4. Racers'
      BY <2>1, <2>3, <3>1, RacersAfterInsert DEF Inv
    <3> QED
      BY <1>2, <1>4, <2>1, <2>3, <3>2, <3>3, <3>4 DEF InsertKey, Inv, TypeOK
  <2> QED
    BY <1>4, <2>2, <2>3 DEF InsertKey
<1>5. CASE Reply(h)
  <2>1. CASE UNCHANGED delivered
    BY <1>2, <1>5, <2>1, FinishInv DEF Reply
  <2>2. CASE delivered' = delivered \cup {req[h].key}
    <3>1. req[h].key \in api_keys /\ UNCHANGED api_keys
      BY <1>5 DEF Reply, Inv, KeysStored
    <3>2. req'[h] = NoRequest /\ \A g \in Handlers : g # h => req'[g] = req[g]
      BY <1>1, <1>5 DEF Reply, Finish
    <3>3. KeysHeld' /\ KeysStored'
      BY <2>2, <3>1, <3>2 DEF Inv, KeysHeld, KeysStored, NoRequest
    <3>4. Racers'
      BY <3>1, <3>2, RacersStay DEF Inv, NoRequest
    <3>5. req' \in [Handlers -> Request]
      BY <1>1, <1>5 DEF Reply, Finish, NoRequest, Request
    <3> QED
      BY <1>2, <1>5, <2>2, <3>1, <3>3, <3>4, <3>5 DEF Reply, Inv, TypeOK
  <2> QED
    BY <1>5, <2>1, <2>2 DEF Reply
<1> QED
  BY <1>3, <1>4, <1>5 DEF Step

LEMMA OtherInv ==
  ASSUME Inv, UNCHANGED <<api_keys, delivered>>,
         \/ \E h \in Handlers : (\E token \in Tokens : Post(h, token)) \/ Disconnect(h)
         \/ Crash \/ UNCHANGED vars
  PROVE  Inv'
<1>1. req \in [Handlers -> Request]
  BY DEF Inv, TypeOK
<1>2. \A h \in Handlers :
        \/ req'[h].pc = req[h].pc /\ req'[h].key = req[h].key
        \/ req[h].pc = "idle" /\ req'[h].pc = "count" /\ req'[h].key = req[h].key
        \/ req'[h].pc = "idle" /\ req'[h].key = None
  <2>1. ASSUME NEW g \in Handlers, NEW token \in Tokens, Post(g, token), NEW h \in Handlers
        PROVE  /\ req'[h].pc = req[h].pc \/ (req[h].pc = "idle" /\ req'[h].pc = "count")
               /\ req'[h].key = req[h].key
    BY <1>1, <2>1 DEF Post, Request
  <2>2. ASSUME NEW g \in Handlers, Disconnect(g), NEW h \in Handlers
        PROVE  req'[h].pc = req[h].pc /\ req'[h].key = req[h].key
    BY <1>1, <2>2 DEF Disconnect, Request
  <2>3. Crash => \A h \in Handlers : req'[h].pc = "idle" /\ req'[h].key = None
    BY DEF Crash, NoRequest
  <2> QED
    BY <2>1, <2>2, <2>3 DEF vars
<1>3. req' \in [Handlers -> Request]
  <2>1. NoRequest \in Request
    BY DEF NoRequest, Request
  <2>2. ASSUME NEW h \in Handlers
        PROVE  /\ [req[h] EXCEPT !.pc = "count"] \in Request
               /\ [req[h] EXCEPT !.cancelled = TRUE] \in Request
    BY <1>1 DEF Request
  <2> QED
    BY <1>1, <2>1, <2>2 DEF Post, Disconnect, Crash, vars
<1>4. budget' \in [Perturbations -> Nat]
  BY BudgetType DEF Post, Disconnect, Crash, Perturbations, Inv, TypeOK, vars
<1>5. KeysHeld' /\ KeysStored'
  BY <1>2 DEF Inv, KeysHeld, KeysStored
<1>6. Racers'
  BY <1>2, RacersStay DEF Inv
<1> QED
  BY <1>3, <1>4, <1>5, <1>6 DEF Inv, TypeOK

LEMMA Invariant == Spec => []Inv
<1>1. Inv /\ [Next]_vars => Inv'
  BY StepInv, OtherInv DEF Next, Post, Disconnect, Crash, vars
<1> QED
  BY <1>1, InitInv, PTL DEF Spec

\* The endpoint and its handlers stay within their types.
THEOREM TypeCorrect == Spec => []TypeOK
BY Invariant, PTL DEF Inv

\* Every key that ValidateAPIKey is promised to accept was stored before it was
\* handed out, and nothing takes it away again.
THEOREM KeysWork == Spec => []DeliveredKeysWork
<1>1. Inv => DeliveredKeysWork
  BY DEF Inv, KeysStored, DeliveredKeysWork, Validates
<1> QED
  BY <1>1, Invariant, PTL

\* The check-then-insert of BootstrapAPIKey lets at most one key through per
\* handler, in the whole life of the database.
THEOREM WindowBounded == Spec => []NoMoreKeysThanRacers
<1>1. Inv => NoMoreKeysThanRacers
  BY InsertingFinite, FS_CardinalityType DEF Inv, Racers, NoMoreKeysThanRacers
<1> QED
  BY <1>1, Invariant, PTL
=============================================================================
