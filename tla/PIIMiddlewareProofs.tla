-------------------------- MODULE PIIMiddlewareProofs --------------------------
(***************************************************************************)
(* What holds of PIIMiddleware for every number of threads, scopes, cached  *)
(* vaults, permits, queue slots, failures and restarts.                     *)
(*                                                                         *)
(* First the requests and the permits they hold, which depend on nothing    *)
(* else; then the cache, the vault objects and the values they hold.        *)
(***************************************************************************)
EXTENDS PIIMiddleware, PersistenceWriterProofs, FiniteOrders, SequenceTheorems

--------------------------------------------------------------------------------
(* A request and its steps.                                                   *)

Identity == {"pc", "kind", "scope", "arg", "latest", "closed"}
Findings == {"resident", "vault", "token", "content", "victim"}

\* A thread serves nothing, or a request with all its fields at some stage.
ReqShape ==
    /\ DOMAIN req = Threads
    /\ \A t \in Threads : req[t] = NoRequest \/
          /\ DOMAIN req[t] = Identity \cup Findings
          /\ req[t].pc \in Stages
          /\ req[t].kind \in Kinds
          /\ req[t].scope \in Scopes

\* No stage is the place of a thread that serves nothing.
LEMMA StageFacts ==
    /\ "idle" \notin Stages
    /\ NoRequest.pc = "idle"
    /\ \A t \in Threads : ReqShape => (req[t].pc # "idle" <=> req[t] # NoRequest)
BY DEF Stages, NoRequest, ReqShape

\* What is left of a request that goes on: its identity and what f does not change.
LEMMA ContinueFacts ==
    ASSUME ReqShape, NEW t \in Threads, req[t] # NoRequest,
           NEW pc, NEW f, Continue(t, pc, f), DOMAIN f \cap Identity = {}
    PROVE  /\ DOMAIN req' = Threads
           /\ \A u \in Threads \ {t} : req'[u] = req[u]
           /\ DOMAIN req'[t] = Identity \cup Findings
           /\ req'[t].pc = pc
           /\ req'[t].kind = req[t].kind /\ req'[t].scope = req[t].scope
           /\ req'[t].arg = req[t].arg /\ req'[t].closed = req[t].closed
           /\ \A x \in Findings : req'[t][x] = IF x \in DOMAIN f THEN f[x] ELSE req[t][x]
           /\ permits' = permits /\ reply' = reply
<1> DEFINE r == [x \in DOMAIN req[t] |->
                    IF x = "pc" THEN pc ELSE IF x \in DOMAIN f THEN f[x] ELSE req[t][x]]
<1>1. req' = [req EXCEPT ![t] = r] /\ permits' = permits /\ reply' = reply
    BY DEF Continue
<1>2. DOMAIN req[t] = Identity \cup Findings /\ DOMAIN req = Threads
    BY DEF ReqShape
<1>3. DOMAIN r = Identity \cup Findings
    BY <1>2
<1>4. r["pc"] = pc
    BY <1>2 DEF Identity
<1>5. \A x \in {"kind", "scope", "arg", "latest", "closed"} : r[x] = req[t][x]
    BY <1>2 DEF Identity
<1>6. \A x \in Findings : r[x] = IF x \in DOMAIN f THEN f[x] ELSE req[t][x]
    BY <1>2 DEF Findings
<1> HIDE DEF r
<1>7. req'[t] = r /\ DOMAIN req' = Threads /\ \A u \in Threads \ {t} : req'[u] = req[u]
    BY <1>1, <1>2
<1> QED BY <1>1, <1>3, <1>4, <1>5, <1>6, <1>7

\* The request of t goes on: whatever else changes, it stays the same request, the
\* other threads' requests stay as they are and no permit moves.
GoesOn(t) ==
    /\ req[t] # NoRequest
    /\ DOMAIN req' = Threads
    /\ \A u \in Threads \ {t} : req'[u] = req[u]
    /\ DOMAIN req'[t] = Identity \cup Findings
    /\ req'[t].pc \in Stages
    /\ req'[t].kind = req[t].kind /\ req'[t].scope = req[t].scope
    /\ permits' = permits

\* The request of t is answered.
Ends(t) ==
    /\ req[t] # NoRequest
    /\ req' = [req EXCEPT ![t] = NoRequest]
    /\ permits' = Release(req[t].kind)

\* A request comes to the thread t, with a permit if its endpoint has permits.
Begins(t) ==
    /\ req[t] = NoRequest
    /\ DOMAIN req' = Threads
    /\ \A u \in Threads \ {t} : req'[u] = req[u]
    /\ DOMAIN req'[t] = Identity \cup Findings
    /\ req'[t].pc \in Stages
    /\ req'[t].kind \in Kinds /\ req'[t].scope \in Scopes
    /\ req'[t].kind \in Endpoints => permits[req'[t].kind] > 0
    /\ permits' = [e \in Endpoints |-> IF e = req'[t].kind THEN permits[e] - 1 ELSE permits[e]]

\* Continue is the step of a request that goes on, Answer and Fail end one.
LEMMA ContinueGoesOn ==
    ASSUME ReqShape, NEW t \in Threads, req[t] # NoRequest,
           NEW pc \in Stages, NEW f, Continue(t, pc, f), DOMAIN f \cap Identity = {}
    PROVE  GoesOn(t)
BY ContinueFacts DEF GoesOn

\* A request that only changes its stage goes on.
LEMMA GotoGoesOn ==
    ASSUME ReqShape, NEW t \in Threads, req[t] # NoRequest, NEW pc \in Stages, Goto(t, pc)
    PROVE  GoesOn(t)
<1>1. DOMAIN [none |-> 0] \cap Identity = {}
    BY DEF Identity
<1> QED BY <1>1, ContinueGoesOn DEF Goto

\* A request that is answered is over, and so is one that fails.
LEMMA AnswerEnds ==
    ASSUME NEW t \in Threads, req[t] # NoRequest, NEW outcome, NEW content,
           Answer(t, outcome, content)
    PROVE  Ends(t)
BY DEF Answer, Ends

\* The same for a failure.
LEMMA FailEnds ==
    ASSUME NEW t \in Threads, req[t] # NoRequest, Fail(t)
    PROVE  Ends(t)
BY AnswerEnds DEF Fail

\* Every step of a request that is being served goes on or ends it.
LEMMA ServeStep ==
    ASSUME ReqShape, NEW t \in Threads, Serve(t)
    PROVE  GoesOn(t) \/ Ends(t)
<1> DEFINE F(x) == DOMAIN x \cap Identity = {}
<1>1. {"resident", "gate", "check", "recover", "recheck", "status", "lookup", "load",
       "insert", "engine", "snapshot", "enqueue", "pop", "delete", "destroy"} \subseteq Stages
    BY DEF Stages
<1>2. req[t].pc \in Stages => req[t] # NoRequest
    BY StageFacts
<1>3. /\ \A b : F([resident |-> b]) /\ F([vault |-> b]) /\ F([content |-> b])
                  /\ F([victim |-> b]) /\ F([token |-> b])
      /\ \A v, w : F([vault |-> v, victim |-> w])
    BY DEF Identity
<1> HIDE DEF F
<1>4. ASSUME NEW pc \in Stages, NEW f, F(f), Continue(t, pc, f), req[t] # NoRequest
      PROVE  GoesOn(t)
    BY <1>4, ContinueGoesOn DEF F
<1>5. CASE CheckResident(t)
    BY <1>1, <1>2, <1>3, <1>4, <1>5 DEF CheckResident
<1>6. CASE \/ GateEnsure(t) \/ GateCheck(t) \/ GateRecovered(t) \/ GateRecheck(t)
           \/ GateDecide(t)
    <2>1. CASE GateEnsure(t)
        <3>1. Goto(t, "check") \/ Goto(t, "lookup")
            BY <2>1 DEF GateEnsure
        <3> QED BY <1>1, <1>2, <2>1, <3>1, GotoGoesOn DEF GateEnsure
    <2>2. CASE GateCheck(t) \/ GateRecovered(t)
        BY <1>1, <1>2, <2>2, GotoGoesOn DEF GateCheck, GateRecovered
    <2>3. CASE GateRecheck(t)
        <3>1. Goto(t, "status") \/ Goto(t, "lookup")
            BY <2>3 DEF GateRecheck
        <3> QED BY <1>1, <1>2, <2>3, <3>1, GotoGoesOn DEF GateRecheck
    <2>4. CASE GateDecide(t)
        BY <1>1, <1>2, <2>4, GotoGoesOn, FailEnds DEF GateDecide
    <2> QED BY <1>6, <2>1, <2>2, <2>3, <2>4
<1>7. CASE Lookup(t)
    BY <1>1, <1>2, <1>3, <1>4, <1>7, GotoGoesOn, FailEnds DEF Lookup
<1>8. CASE Load(t) \/ LoadFails(t)
    BY <1>1, <1>2, <1>3, <1>4, <1>8, GotoGoesOn, FailEnds DEF Load, LoadFails
<1>9. CASE Insert(t)
    BY <1>1, <1>2, <1>3, <1>4, <1>9 DEF Insert
<1>10. CASE PopSession(t) \/ QueueDelete(t) \/ DestroyVault(t)
    BY <1>1, <1>2, <1>3, <1>4, <1>10, GotoGoesOn, AnswerEnds
       DEF PopSession, QueueDelete, DestroyVault
<1>11. CASE Redact(t) \/ EngineFails(t)
    <2>1. CASE Redact(t)
        <3>1. \/ \E x : Continue(t, "snapshot", [token |-> x])
              \/ \E c : Answer(t, "token", c)
            BY <2>1 DEF Redact
        <3> QED BY <1>1, <1>2, <1>3, <1>4, <2>1, <3>1, AnswerEnds DEF Redact
    <2>2. CASE EngineFails(t)
        <3>1. req[t].pc = "engine" /\ Fail(t)
            BY <2>2 DEF EngineFails
        <3> QED BY <1>1, <1>2, <3>1, FailEnds
    <2> QED BY <1>11, <2>1, <2>2
<1>12. CASE TakeSnapshot(t) \/ PersistSnapshot(t) \/ Rehydrate(t)
    BY <1>1, <1>2, <1>3, <1>4, <1>12, AnswerEnds, FailEnds
       DEF TakeSnapshot, PersistSnapshot, Rehydrate
<1> QED BY <1>5, <1>6, <1>7, <1>8, <1>9, <1>10, <1>11, <1>12 DEF Serve

\* A request arrives with a permit of its endpoint, or is turned away.
LEMMA ArriveStep ==
    ASSUME ReqShape, NEW t \in Threads, Arrive(t)
    PROVE  Begins(t) \/ UNCHANGED <<req, permits>>
<1>1. ASSUME NEW kind \in Kinds, NEW s \in Scopes, NEW closed, NEW latest, NEW arg,
             Start(t, kind, s, arg, latest, closed)
      PROVE  Begins(t)
    <2> DEFINE r == [pc |-> IF kind = "end" THEN "pop" ELSE "resident",
                     kind |-> kind, scope |-> s, arg |-> arg, latest |-> latest,
                     closed |-> closed,
                     resident |-> FALSE, vault |-> NoVault, token |-> 0,
                     content |-> NoContent, victim |-> NoVictim]
    <2>1. /\ req[t] = NoRequest /\ req' = [req EXCEPT ![t] = r]
          /\ kind \in Endpoints => permits[kind] > 0
          /\ permits' = [e \in Endpoints |-> IF e = kind THEN permits[e] - 1 ELSE permits[e]]
        BY <1>1 DEF Start
    <2>2. DOMAIN r = Identity \cup Findings /\ r.kind = kind /\ r.scope = s
        BY DEF Identity, Findings
    <2>3. r.pc \in Stages
        BY DEF Stages
    <2> HIDE DEF r
    <2>4. req'[t] = r /\ DOMAIN req' = Threads /\ \A u \in Threads \ {t} : req'[u] = req[u]
        BY <2>1 DEF ReqShape
    <2> QED BY <2>1, <2>2, <2>3, <2>4 DEF Begins
<1>2. ASSUME NEW kind, NEW s, Saturated(kind, s)
      PROVE  UNCHANGED <<req, permits>>
    BY <1>2 DEF Saturated
<1> QED BY <1>1, <1>2 DEF Arrive

\* What a step does to requests and permits: one thread begins, goes on or ends, a
\* new process has none, or nothing happens to them.
RequestStep ==
    \/ UNCHANGED <<req, permits>>
    \/ \E t \in Threads : Begins(t) \/ GoesOn(t) \/ Ends(t)
    \/ req' = [t \in Threads |-> NoRequest] /\ permits' = Permits

\* Whatever the middleware does, it does one of these to its requests.
LEMMA EveryRequestStep ==
    ASSUME ReqShape, [MiddlewareNext]_vars
    PROVE  RequestStep
<1>1. ASSUME NEW t \in Threads, Arrive(t) \/ Serve(t)
      PROVE  RequestStep
    BY <1>1, ArriveStep, ServeStep DEF RequestStep
<1>2. CASE RestartProcess
    BY <1>2 DEF RestartProcess, RequestStep
<1>3. CASE \/ \E i \in DOMAIN cache : Expire(i)
           \/ HealthProbe \/ Background \/ UNCHANGED vars
    <2>1. UNCHANGED <<req, permits>>
        BY <1>3 DEF Expire, HealthProbe, HealthPrune, Background, middlewareVars, vars
    <2> QED BY <2>1 DEF RequestStep
<1> QED BY <1>1, <1>2, <1>3 DEF MiddlewareNext

--------------------------------------------------------------------------------
(* Permits.                                                                   *)

\* The threads that serve a request of endpoint e.
HoldersOf(e) == {t \in Threads : req[t].pc # "idle" /\ req[t].kind = e}

PermitInv ==
    /\ ReqShape
    /\ permits \in [Endpoints -> Nat]
    /\ \A e \in Endpoints :
          IsFiniteSet(HoldersOf(e)) /\ permits[e] + Cardinality(HoldersOf(e)) = Permits[e]

\* At the start nobody holds a permit.
LEMMA PermitInit == Init => PermitInv
<1> SUFFICES ASSUME Init PROVE PermitInv
    OBVIOUS
<1>1. ReqShape
    BY DEF Init, ReqShape
<1>2. \A e \in Endpoints : HoldersOf(e) = {}
    BY DEF Init, HoldersOf, NoRequest
<1>3. permits = Permits /\ Permits \in [Endpoints -> Nat] /\ \A e \in Endpoints : Permits[e] \in Nat
    BY MiddlewareAssumption DEF Init
<1>4. IsFiniteSet({}) /\ Cardinality({}) = 0
    BY FS_EmptySet
<1>5. ASSUME NEW e \in Endpoints
      PROVE  IsFiniteSet(HoldersOf(e)) /\ permits[e] + Cardinality(HoldersOf(e)) = Permits[e]
    <2>1. HoldersOf(e) = {} /\ permits[e] = Permits[e] /\ Permits[e] \in Nat
        BY <1>2, <1>3
    <2> QED BY <1>4, <2>1
<1> QED BY <1>1, <1>3, <1>5 DEF PermitInv

\* A request that goes on holds what it held; one that begins has taken a permit;
\* one that ends gives it back.
LEMMA PermitStep ==
    ASSUME PermitInv, RequestStep
    PROVE  PermitInv'
<1> USE DEF PermitInv
<1>1. CASE UNCHANGED <<req, permits>>
    BY <1>1 DEF ReqShape, HoldersOf
<1>2. CASE req' = [t \in Threads |-> NoRequest] /\ permits' = Permits
    <2>1. ReqShape'
        BY <1>2 DEF ReqShape
    <2>2. \A e \in Endpoints : HoldersOf(e)' = {}
        BY <1>2 DEF HoldersOf, NoRequest
    <2>3. Permits \in [Endpoints -> Nat] /\ \A e \in Endpoints : Permits[e] \in Nat
        BY MiddlewareAssumption
    <2>4. ASSUME NEW e \in Endpoints
          PROVE  /\ IsFiniteSet(HoldersOf(e)')
                 /\ permits'[e] + Cardinality(HoldersOf(e)') = Permits[e]
        <3>1. IsFiniteSet({}) /\ Cardinality({}) = 0
            BY FS_EmptySet
        <3> QED BY <1>2, <2>2, <2>3, <3>1
    <2> QED BY <1>2, <2>1, <2>3, <2>4
<1>3. ASSUME NEW t \in Threads, GoesOn(t)
      PROVE  PermitInv'
    <2>1. ReqShape'
        BY <1>3 DEF GoesOn, ReqShape
    <2>2. \A e \in Endpoints : HoldersOf(e)' = HoldersOf(e)
        <3>1. req[t].pc # "idle" /\ req'[t].pc # "idle"
            BY <1>3, StageFacts DEF GoesOn
        <3> QED BY <1>3, <3>1 DEF GoesOn, HoldersOf
    <2> QED BY <1>3, <2>1, <2>2 DEF GoesOn
<1>4. ASSUME NEW t \in Threads, Begins(t)
      PROVE  PermitInv'
    <2>1. ReqShape'
        BY <1>4 DEF Begins, ReqShape
    <2>2. ASSUME NEW e \in Endpoints
          PROVE  /\ permits'[e] \in Nat
                 /\ IsFiniteSet(HoldersOf(e)')
                 /\ permits'[e] + Cardinality(HoldersOf(e)') = Permits[e]
        <3>1. req[t].pc = "idle" /\ req'[t].pc # "idle"
            BY <1>4, StageFacts DEF Begins
        <3>2. CASE req'[t].kind = e
            <4>1. HoldersOf(e)' = HoldersOf(e) \cup {t} /\ t \notin HoldersOf(e)
                BY <1>4, <3>1, <3>2 DEF Begins, HoldersOf
            <4>2. permits'[e] = permits[e] - 1 /\ permits[e] > 0
                BY <1>4, <3>2 DEF Begins
            <4>3. IsFiniteSet(HoldersOf(e)) /\ permits[e] + Cardinality(HoldersOf(e)) = Permits[e]
                OBVIOUS
            <4> HIDE DEF PermitInv
            <4>4. /\ IsFiniteSet(HoldersOf(e) \cup {t})
                  /\ Cardinality(HoldersOf(e) \cup {t}) = Cardinality(HoldersOf(e)) + 1
                BY <4>1, <4>3, FS_AddElement
            <4>5. Cardinality(HoldersOf(e)) \in Nat /\ permits[e] \in Nat
                BY <4>3, FS_CardinalityType DEF PermitInv
            <4> QED BY <4>1, <4>2, <4>3, <4>4, <4>5
        <3>3. CASE req'[t].kind # e
            <4>1. HoldersOf(e)' = HoldersOf(e)
                BY <1>4, <3>1, <3>3 DEF Begins, HoldersOf
            <4> QED BY <1>4, <3>3, <4>1 DEF Begins
        <3> QED BY <3>2, <3>3
    <2>3. DOMAIN permits' = Endpoints /\ permits' = [e \in Endpoints |-> permits'[e]]
        BY <1>4 DEF Begins
    <2> QED BY <2>1, <2>2, <2>3
<1>5. ASSUME NEW t \in Threads, Ends(t)
      PROVE  PermitInv'
    <2>1. ReqShape'
        BY <1>5 DEF Ends, ReqShape
    <2>2. ASSUME NEW e \in Endpoints
          PROVE  /\ permits'[e] \in Nat
                 /\ IsFiniteSet(HoldersOf(e)')
                 /\ permits'[e] + Cardinality(HoldersOf(e)') = Permits[e]
        <3>1. req[t].pc # "idle" /\ req'[t].pc = "idle"
            BY <1>5, StageFacts DEF Ends, ReqShape
        <3>2. CASE req[t].kind = e
            <4>1. HoldersOf(e)' = HoldersOf(e) \ {t} /\ t \in HoldersOf(e)
                BY <1>5, <3>1, <3>2 DEF Ends, HoldersOf, ReqShape
            <4>2. permits'[e] = permits[e] + 1
                BY <1>5, <3>2 DEF Ends, Release
            <4>3. IsFiniteSet(HoldersOf(e)) /\ permits[e] + Cardinality(HoldersOf(e)) = Permits[e]
                OBVIOUS
            <4> HIDE DEF PermitInv
            <4>4. /\ IsFiniteSet(HoldersOf(e) \ {t})
                  /\ Cardinality(HoldersOf(e) \ {t}) = Cardinality(HoldersOf(e)) - 1
                BY <4>1, <4>3, FS_RemoveElement
            <4>5. Cardinality(HoldersOf(e)) \in Nat /\ permits[e] \in Nat
                BY <4>3, FS_CardinalityType DEF PermitInv
            <4> QED BY <4>1, <4>2, <4>3, <4>4, <4>5
        <3>3. CASE req[t].kind # e
            <4>1. HoldersOf(e)' = HoldersOf(e)
                BY <1>5, <3>1, <3>3 DEF Ends, HoldersOf, ReqShape
            <4> QED BY <1>5, <3>3, <4>1 DEF Ends, Release
        <3> QED BY <3>2, <3>3
    <2>3. DOMAIN permits' = Endpoints /\ permits' = [e \in Endpoints |-> permits'[e]]
        BY <1>5 DEF Ends, Release
    <2> QED BY <2>1, <2>2, <2>3
<1> QED BY <1>1, <1>2, <1>3, <1>4, <1>5 DEF RequestStep

\* A request has all its fields, and the permits of an endpoint are all there: the
\* free ones and one for each request in a handler.
THEOREM PermitInvariant == MiddlewareSpec => []PermitInv
<1>1. PermitInv /\ [MiddlewareNext]_vars => PermitInv'
    BY PermitStep, EveryRequestStep DEF PermitInv
<1> QED BY <1>1, PermitInit, PTL DEF MiddlewareSpec

\* No exit of a handler keeps its permit or gives it back twice, the error paths and
\* the fail-open returns included (PIIMiddleware._acquire_endpoint, _release_endpoint).
THEOREM PermitsAreConserved == MiddlewareSpec => []PermitsConserved
<1>1. PermitInv => PermitsConserved
    BY DEF PermitInv, PermitsConserved, HoldersOf
<1> QED BY <1>1, PermitInvariant, PTL

--------------------------------------------------------------------------------
(* The cache.                                                                 *)

Entries == [scope : Scopes, vault : VaultIds, expired : BOOLEAN]

\* No scope and no vault has two entries.
Distinct(c) ==
    \A i, j \in DOMAIN c : i # j => c[i].scope # c[j].scope /\ c[i].vault # c[j].vault

IsCache(c) == c \in Seq(Entries) /\ Distinct(c)

\* c has an entry that gives the scope s the vault v.
Holds(c, s, v) == \E i \in DOMAIN c : c[i].scope = s /\ c[i].vault = v

\* The positions picked, in order, each once.
LEMMA PickedPositions ==
    ASSUME NEW c \in Seq(Entries), NEW K \in SUBSET DOMAIN c
    PROVE  /\ Cardinality(K) \in Nat /\ Cardinality(K) <= Len(c)
           /\ K # DOMAIN c => Cardinality(K) < Len(c)
           /\ \E p \in [1 .. Cardinality(K) -> K] :
                 /\ Picked(c, K) = [i \in 1 .. Cardinality(K) |-> c[p[i]]]
                 /\ \A i, j \in 1 .. Cardinality(K) : p[i] = p[j] => i = j
                 /\ \A k \in K : \E i \in 1 .. Cardinality(K) : p[i] = k
<1> DEFINE n == Len(c)
<1>1. n \in Nat /\ DOMAIN c = 1 .. n
    OBVIOUS
<1>2. IsFiniteSet(DOMAIN c) /\ Cardinality(DOMAIN c) = n
    <2> HIDE DEF n
    <2>1. IsFiniteSet(1 .. n) /\ Cardinality(1 .. n) = IF 1 > n THEN 0 ELSE n - 1 + 1
        BY <1>1, FS_Interval
    <2> QED BY <1>1, <2>1
<1>3. /\ IsFiniteSet(K) /\ Cardinality(K) <= n
      /\ K # DOMAIN c => Cardinality(K) # n
    BY <1>2, FS_Subset
<1>4. Cardinality(K) \in Nat
    BY <1>3, FS_CardinalityType
<1>5. K \in SUBSET Nat
    BY <1>1
<1> DEFINE at == CHOOSE p \in [1 .. Cardinality(K) -> K] :
                     \A i, j \in DOMAIN p : i < j => p[i] < p[j]
<1>6. at \in Listings(K)
    <2>1. Listings(K) # {}
        BY <1>3, <1>5, ListingExists
    <2>2. \E p \in [1 .. Cardinality(K) -> K] : \A i, j \in DOMAIN p : i < j => p[i] < p[j]
        BY <2>1 DEF Listings, Increasing
    <2>3. /\ at \in [1 .. Cardinality(K) -> K]
          /\ \A i, j \in DOMAIN at : i < j => at[i] < at[j]
        BY <2>2
    <2> HIDE DEF at
    <2> QED BY <2>3 DEF Listings, Increasing
<1>7. Picked(c, K) = [i \in 1 .. Cardinality(K) |-> c[at[i]]]
    BY DEF Picked
<1> HIDE DEF at
<1>8. /\ DOMAIN at = 1 .. Cardinality(K)
      /\ \A i \in DOMAIN at : at[i] \in K
      /\ \A i, j \in DOMAIN at : at[i] = at[j] => i = j
      /\ \A k \in K : \E i \in DOMAIN at : at[i] = k
    BY <1>3, <1>5, <1>6, ListingFacts
<1>9. at \in [1 .. Cardinality(K) -> K]
    BY <1>6 DEF Listings
<1> QED BY <1>3, <1>4, <1>7, <1>8, <1>9

\* The entries picked from a cache make a cache, of these entries.
LEMMA PickedFacts ==
    ASSUME NEW c, IsCache(c), NEW K \in SUBSET DOMAIN c
    PROVE  /\ IsCache(Picked(c, K))
           /\ Len(Picked(c, K)) <= Len(c)
           /\ K # DOMAIN c => Len(Picked(c, K)) < Len(c)
           /\ \A i \in DOMAIN Picked(c, K) : \E k \in K : Picked(c, K)[i] = c[k]
           /\ \A k \in K : \E i \in DOMAIN Picked(c, K) : Picked(c, K)[i] = c[k]
<1> DEFINE n == Cardinality(K)
           d == Picked(c, K)
<1>1. c \in Seq(Entries) /\ Distinct(c)
    BY DEF IsCache
<1>2. n \in Nat /\ n <= Len(c) /\ (K # DOMAIN c => n < Len(c))
    BY <1>1, PickedPositions
<1>3. PICK p \in [1 .. n -> K] :
          /\ d = [i \in 1 .. n |-> c[p[i]]]
          /\ \A i, j \in 1 .. n : p[i] = p[j] => i = j
          /\ \A k \in K : \E i \in 1 .. n : p[i] = k
    BY <1>1, PickedPositions
<1> HIDE DEF n, d
<1>4. \A i \in 1 .. n : p[i] \in K /\ p[i] \in DOMAIN c /\ c[p[i]] \in Entries
    <2> TAKE i \in 1 .. n
    <2>1. p[i] \in DOMAIN c
        BY <1>3
    <2> QED BY <1>1, <1>3, <2>1
<1>5. d \in [1 .. n -> Entries]
    BY <1>3, <1>4
<1>6. d \in Seq(Entries) /\ Len(d) = n /\ DOMAIN d = 1 .. n
    BY <1>2, <1>5
<1>7. Distinct(d)
    BY <1>1, <1>3, <1>4, <1>6 DEF Distinct
<1>8. \A i \in DOMAIN d : \E k \in K : d[i] = c[k]
    BY <1>3, <1>4, <1>6
<1>9. \A k \in K : \E i \in DOMAIN d : d[i] = c[k]
    BY <1>3, <1>6
<1> QED BY <1>2, <1>6, <1>7, <1>8, <1>9 DEF d, IsCache

\* A cache without the entry of a scope, which it has at most once.
LEMMA WithoutFacts ==
    ASSUME NEW c, IsCache(c), NEW s
    PROVE  /\ IsCache(Without(c, s))
           /\ Len(Without(c, s)) <= Len(c)
           /\ (\E i \in DOMAIN c : c[i].scope = s) => Len(Without(c, s)) < Len(c)
           /\ \A r, v : Holds(Without(c, s), r, v) <=> Holds(c, r, v) /\ r # s
           /\ \A i \in DOMAIN Without(c, s) : \E k \in DOMAIN c : Without(c, s)[i] = c[k]
<1> DEFINE K == {i \in DOMAIN c : c[i].scope # s}
           d == Picked(c, K)
<1>1. K \in SUBSET DOMAIN c
    OBVIOUS
<1>2. /\ IsCache(d) /\ Len(d) <= Len(c) /\ (K # DOMAIN c => Len(d) < Len(c))
      /\ \A i \in DOMAIN d : \E k \in K : d[i] = c[k]
      /\ \A k \in K : \E i \in DOMAIN d : d[i] = c[k]
    BY <1>1, PickedFacts
<1>3. d = Without(c, s)
    BY DEF Without
<1>4. \A k : k \in K <=> k \in DOMAIN c /\ c[k].scope # s
    OBVIOUS
<1> HIDE DEF d, K
<1>5. \A r, v : Holds(d, r, v) <=> Holds(c, r, v) /\ r # s
    <2>1. ASSUME NEW r, NEW v, Holds(d, r, v)
          PROVE  Holds(c, r, v) /\ r # s
        <3>1. PICK i \in DOMAIN d : d[i].scope = r /\ d[i].vault = v
            BY <2>1 DEF Holds
        <3>2. PICK k \in K : d[i] = c[k]
            BY <1>2
        <3> QED BY <1>4, <3>1, <3>2 DEF Holds
    <2>2. ASSUME NEW r, NEW v, Holds(c, r, v), r # s
          PROVE  Holds(d, r, v)
        <3>1. PICK k \in DOMAIN c : c[k].scope = r /\ c[k].vault = v
            BY <2>2 DEF Holds
        <3>2. k \in K
            BY <1>4, <2>2, <3>1
        <3>3. PICK i \in DOMAIN d : d[i] = c[k]
            BY <1>2, <3>2
        <3> QED BY <3>1, <3>3 DEF Holds
    <2> QED BY <2>1, <2>2
<1>6. (\E i \in DOMAIN c : c[i].scope = s) => K # DOMAIN c
    BY <1>4
<1> QED BY <1>2, <1>3, <1>4, <1>5, <1>6

\* An entry of a new scope and a new vault is put last.
LEMMA AppendedFacts ==
    ASSUME NEW c, IsCache(c), NEW e \in Entries,
           \A i \in DOMAIN c : c[i].scope # e.scope /\ c[i].vault # e.vault
    PROVE  /\ IsCache(Append(c, e))
           /\ Len(Append(c, e)) = Len(c) + 1
           /\ \A r, v : Holds(Append(c, e), r, v) <=>
                           Holds(c, r, v) \/ (r = e.scope /\ v = e.vault)
<1> DEFINE d == Append(c, e)
<1>1. c \in Seq(Entries) /\ Distinct(c)
    BY DEF IsCache
<1>2. /\ d \in Seq(Entries) /\ Len(d) = Len(c) + 1 /\ Len(c) \in Nat
      /\ DOMAIN d = 1 .. Len(c) + 1 /\ DOMAIN c = 1 .. Len(c)
      /\ \A i \in DOMAIN c : d[i] = c[i]
      /\ d[Len(c) + 1] = e
    BY <1>1
<1> HIDE DEF d
<1>3. Distinct(d)
    <2> SUFFICES ASSUME NEW i \in DOMAIN d, NEW j \in DOMAIN d, i < j
                 PROVE  d[i].scope # d[j].scope /\ d[i].vault # d[j].vault
        <3>1. \A i, j \in DOMAIN d : i # j => i < j \/ j < i
            BY <1>2
        <3> QED BY <3>1 DEF Distinct
    <2>1. i \in DOMAIN c /\ d[i] = c[i]
        BY <1>2
    <2>2. CASE j \in DOMAIN c
        BY <1>1, <1>2, <2>1, <2>2 DEF Distinct
    <2>3. CASE j \notin DOMAIN c
        <3>1. d[j] = e
            BY <1>2, <2>3
        <3> QED BY <2>1, <3>1
    <2> QED BY <2>2, <2>3
<1>4. \A r, v : Holds(d, r, v) <=> Holds(c, r, v) \/ (r = e.scope /\ v = e.vault)
    <2>1. \A i \in DOMAIN d : i \in DOMAIN c \/ i = Len(c) + 1
        BY <1>2
    <2>2. \A i \in DOMAIN c : i \in DOMAIN d
        BY <1>2
    <2>3. Len(c) + 1 \in DOMAIN d
        BY <1>2
    <2> QED BY <1>2, <2>1, <2>2, <2>3 DEF Holds
<1> QED BY <1>2, <1>3, <1>4 DEF d, IsCache

\* The entry used longest ago is taken off.
LEMMA TailFacts ==
    ASSUME NEW c, IsCache(c), c # <<>>
    PROVE  /\ IsCache(Tail(c)) /\ Len(Tail(c)) = Len(c) - 1
           /\ Head(c) \in Entries /\ 1 \in DOMAIN c /\ Head(c) = c[1]
           /\ \A r, v : Holds(Tail(c), r, v) <=> Holds(c, r, v) /\ v # Head(c).vault
<1> DEFINE d == Tail(c)
<1>1. c \in Seq(Entries) /\ Distinct(c)
    BY DEF IsCache
<1>2. /\ d \in Seq(Entries) /\ Len(d) = Len(c) - 1 /\ Len(c) \in Nat \ {0}
      /\ DOMAIN d = 1 .. Len(c) - 1 /\ DOMAIN c = 1 .. Len(c)
      /\ \A i \in DOMAIN d : d[i] = c[i + 1]
      /\ Head(c) = c[1] /\ 1 \in DOMAIN c /\ c[1] \in Entries
    BY <1>1
<1> HIDE DEF d
<1>3. \A i \in DOMAIN d : i + 1 \in DOMAIN c /\ i + 1 # 1
    BY <1>2
<1>4. \A k \in DOMAIN c : k # 1 => k - 1 \in DOMAIN d /\ d[k - 1] = c[k]
    BY <1>2
<1>5. Distinct(d)
    <2> SUFFICES ASSUME NEW i \in DOMAIN d, NEW j \in DOMAIN d, i # j
                 PROVE  d[i].scope # d[j].scope /\ d[i].vault # d[j].vault
        BY DEF Distinct
    <2>1. i + 1 # j + 1
        BY <1>2
    <2> QED BY <1>1, <1>2, <1>3, <2>1 DEF Distinct
<1>6. \A r, v : Holds(d, r, v) <=> Holds(c, r, v) /\ v # c[1].vault
    <2>1. ASSUME NEW r, NEW v, Holds(d, r, v)
          PROVE  Holds(c, r, v) /\ v # c[1].vault
        <3>1. PICK i \in DOMAIN d : d[i].scope = r /\ d[i].vault = v
            BY <2>1 DEF Holds
        <3> QED BY <1>1, <1>2, <1>3, <3>1 DEF Holds, Distinct
    <2>2. ASSUME NEW r, NEW v, Holds(c, r, v), v # c[1].vault
          PROVE  Holds(d, r, v)
        <3>1. PICK k \in DOMAIN c : c[k].scope = r /\ c[k].vault = v
            BY <2>2 DEF Holds
        <3>2. k # 1
            BY <2>2, <3>1
        <3> QED BY <1>4, <3>1, <3>2 DEF Holds
    <2> QED BY <2>1, <2>2
<1> QED BY <1>1, <1>2, <1>5, <1>6 DEF d, IsCache

\* A scope is resident exactly if the cache holds a vault for it, and VaultOf is it.
LEMMA ResidentFacts ==
    ASSUME IsCache(cache), NEW s
    PROVE  /\ Resident(s) <=> \E v : Holds(cache, s, v)
           /\ Resident(s) => Holds(cache, s, VaultOf(s)) /\ s \in Scopes /\ VaultOf(s) \in VaultIds
           /\ \A v : Holds(cache, s, v) => v = VaultOf(s)
           /\ \A e \in EntriesOf(s) : Holds(cache, s, e.vault)
<1>1. cache \in Seq(Entries) /\ Distinct(cache)
    BY DEF IsCache
<1>2. \A i \in DOMAIN cache : cache[i] \in Entries
    BY <1>1
<1>3. \A e : e \in EntriesOf(s) <=> \E i \in DOMAIN cache : cache[i] = e /\ e.scope = s
    BY DEF EntriesOf
<1>4. Resident(s) <=> \E v : Holds(cache, s, v)
    BY <1>3 DEF Resident, Holds
<1>5. ASSUME Resident(s)
      PROVE  Holds(cache, s, VaultOf(s)) /\ s \in Scopes /\ VaultOf(s) \in VaultIds
    <2>1. PICK e \in EntriesOf(s) : VaultOf(s) = e.vault
        BY <1>5 DEF Resident, VaultOf
    <2>2. PICK i \in DOMAIN cache : cache[i] = e /\ e.scope = s
        BY <1>3, <2>1
    <2> QED BY <1>2, <2>1, <2>2 DEF Holds, Entries
<1>6. ASSUME NEW v, Holds(cache, s, v)
      PROVE  v = VaultOf(s)
    <2>1. Resident(s)
        BY <1>4, <1>6
    <2>2. Holds(cache, s, VaultOf(s))
        BY <1>5, <2>1
    <2> QED BY <1>1, <1>6, <2>2 DEF Holds, Distinct
<1>7. \A e \in EntriesOf(s) : Holds(cache, s, e.vault)
    BY <1>3 DEF Holds
<1> QED BY <1>4, <1>5, <1>6, <1>7

\* Pruning takes the expired entries off the cache, and the vaults of these only.
LEMMA PruneFacts ==
    ASSUME IsCache(cache)
    PROVE  /\ IsCache(Fresh) /\ Len(Fresh) <= Len(cache)
           /\ IsCache(Stale)
           /\ StaleVaults \subseteq VaultIds
           /\ \A r, v : Holds(Fresh, r, v) <=> Holds(cache, r, v) /\ v \notin StaleVaults
           /\ \A r, v : Holds(cache, r, v) /\ r \notin StaleScopes => v \notin StaleVaults
<1> DEFINE K == {i \in DOMAIN cache : ~cache[i].expired}
           L == {i \in DOMAIN cache : cache[i].expired}
           d == Picked(cache, K)
           e == Picked(cache, L)
<1>1. cache \in Seq(Entries) /\ Distinct(cache) /\ K \in SUBSET DOMAIN cache /\ L \in SUBSET DOMAIN cache
    BY DEF IsCache
<1>2. /\ IsCache(d) /\ Len(d) <= Len(cache)
      /\ \A i \in DOMAIN d : \E k \in K : d[i] = cache[k]
      /\ \A k \in K : \E i \in DOMAIN d : d[i] = cache[k]
    BY <1>1, PickedFacts
<1>3. /\ IsCache(e) /\ Len(e) <= Len(cache)
      /\ \A i \in DOMAIN e : \E k \in L : e[i] = cache[k]
      /\ \A k \in L : \E i \in DOMAIN e : e[i] = cache[k]
    BY <1>1, PickedFacts
<1>4. \A k : /\ k \in K <=> k \in DOMAIN cache /\ ~cache[k].expired
             /\ k \in L <=> k \in DOMAIN cache /\ cache[k].expired
    OBVIOUS
<1>5. Fresh = d /\ Stale = e
    BY DEF Fresh, Stale
<1> HIDE DEF K, L, d, e
<1>6. \A v : v \in StaleVaults <=> \E k \in L : cache[k].vault = v
    <2>1. \A v : v \in StaleVaults <=> \E i \in DOMAIN e : e[i].vault = v
        BY <1>5 DEF StaleVaults
    <2> QED BY <1>3, <2>1
<1>7. \A r : r \in StaleScopes <=> \E k \in L : cache[k].scope = r
    <2>1. \A r : r \in StaleScopes <=> \E i \in DOMAIN e : e[i].scope = r
        BY <1>5 DEF StaleScopes
    <2> QED BY <1>3, <2>1
<1>8. ASSUME NEW r, NEW v, Holds(d, r, v)
      PROVE  Holds(cache, r, v) /\ v \notin StaleVaults
    <2>1. PICK i \in DOMAIN d : d[i].scope = r /\ d[i].vault = v
        BY <1>8 DEF Holds
    <2>2. PICK k \in K : d[i] = cache[k]
        BY <1>2
    <2>3. Holds(cache, r, v)
        BY <1>4, <2>1, <2>2 DEF Holds
    <2>4. \A l \in L : l # k
        BY <1>4, <2>2
    <2>5. \A l \in L : cache[l].vault # v
        BY <1>1, <1>4, <2>1, <2>2, <2>4 DEF Distinct
    <2> QED BY <1>6, <2>3, <2>5
<1>9. ASSUME NEW r, NEW v, Holds(cache, r, v), v \notin StaleVaults
      PROVE  Holds(d, r, v)
    <2>1. PICK k \in DOMAIN cache : cache[k].scope = r /\ cache[k].vault = v
        BY <1>9 DEF Holds
    <2>2. k \in K
        BY <1>4, <1>6, <1>9, <2>1
    <2>3. PICK i \in DOMAIN d : d[i] = cache[k]
        BY <1>2, <2>2
    <2> QED BY <2>1, <2>3 DEF Holds
<1>10. ASSUME NEW r, NEW v, Holds(cache, r, v), r \notin StaleScopes
       PROVE  v \notin StaleVaults
    <2>1. PICK k \in DOMAIN cache : cache[k].scope = r /\ cache[k].vault = v
        BY <1>10 DEF Holds
    <2>2. ASSUME NEW l \in L, cache[l].vault = v
          PROVE  FALSE
        <3>1. l = k
            BY <1>1, <1>4, <2>1, <2>2 DEF Distinct
        <3> QED BY <1>7, <1>10, <2>1, <2>2, <3>1
    <2> QED BY <1>6, <2>2
<1>11. StaleVaults \subseteq VaultIds
    <2>1. ASSUME NEW k \in DOMAIN cache
          PROVE  cache[k].vault \in VaultIds
        <3>1. cache[k] \in Entries
            BY <1>1
        <3> QED BY <3>1 DEF Entries
    <2> QED BY <1>4, <1>6, <2>1
<1> QED BY <1>2, <1>3, <1>5, <1>8, <1>9, <1>10, <1>11

--------------------------------------------------------------------------------
(* What a step does to the vaults.                                            *)

Early == {"resident", "gate", "check", "recover", "recheck", "status", "lookup", "load", "insert"}

\* What a request has found by the time it is at its stage.
StageOK(r) ==
    /\ r.vault \in VaultIds \cup {NoVault}
    /\ r.victim = NoVictim \/ (r.victim.scope \in Scopes /\ r.victim.vault \in VaultIds)
    /\ r.kind = "end" => r.pc \in {"pop", "delete", "destroy"} /\ r.vault = NoVault
    /\ r.kind = "redact" => r.arg \in ValuesOf(r.scope)
    /\ r.pc \in Early \cup {"pop"} => r.vault = NoVault /\ r.victim = NoVictim
    /\ r.pc = "pop" => r.kind = "end"
    /\ r.pc \in {"snapshot", "enqueue"} => r.kind = "redact"
    /\ r.pc \in {"engine", "snapshot", "enqueue"} => r.vault \in VaultIds
    /\ r.pc \in {"delete", "destroy"} =>
          /\ r.victim.scope \in Scopes /\ r.victim.vault \in VaultIds
          /\ r.kind = "end" \/ r.vault \in VaultIds

StagesInv == \A t \in Threads : req[t] # NoRequest => StageOK(req[t])
CacheInv == IsCache(cache) /\ Len(cache) <= MaxActiveScopes
HeapInv == heap = [v \in VaultIds |-> heap[v]] /\ popped \subseteq Held(cache, req)

ShapeInv == ReqShape /\ StagesInv /\ CacheInv /\ HeapInv

\* The step of t (or of no request thread) takes the vaults gone out of the cache and
\* puts the pair added into it, under a vault that was free; t has no vault after it,
\* or the one it had, or one the cache holds for its scope; and the vaults it changes
\* are emptied, get t's value, or are made of what t loaded.
VaultsMove(t, gone, added) ==
    /\ \A s, v : Holds(cache', s, v) <=>
                     (Holds(cache, s, v) /\ v \notin gone) \/ <<s, v>> \in added
    /\ \A s, v : <<s, v>> \in added =>
                     /\ t \in Threads /\ req[t] # NoRequest /\ s = req[t].scope
                     /\ v \in VaultIds /\ v \notin Held(cache, req) /\ v \notin gone
    /\ popped' = (popped \cup gone) \cap Held(cache', req')
    /\ \A u \in Threads \ {t} : req'[u] = req[u]
    /\ t \in Threads =>
          \/ req'[t] = NoRequest \/ req'[t].vault = NoVault
          \/ /\ req[t] # NoRequest
             /\ req'[t].vault = req[t].vault /\ req'[t].scope = req[t].scope
          \/ Holds(cache', req'[t].scope, req'[t].vault)
    /\ heap' = [v \in VaultIds |-> heap'[v]]
    /\ \A v \in VaultIds :
          \/ heap'[v] = NoContent
          \/ heap'[v] = heap[v] /\ \A s : <<s, v>> \notin added
          \/ /\ t \in Threads /\ req[t] # NoRequest
             /\ req[t].kind = "redact" /\ v = req[t].vault
             /\ heap'[v] = Registered(heap[v], req[t].arg, req[t].latest)
          \/ /\ t \in Threads /\ <<req[t].scope, v>> \in added
             /\ heap'[v] = req[t].content

VaultStep ==
    \/ \E t \in Executors : \E gone, added : VaultsMove(t, gone, added)
    \/ /\ cache' = <<>> /\ popped' = {}
       /\ heap' = [v \in VaultIds |-> NoContent]
       /\ req' = [t \in Threads |-> NoRequest]

\* What a request refers to.
Uses(r) == IF r.pc = "idle" THEN {} ELSE {r.vault, r.victim.vault} \ {NoVault}

\* A vault is held by the cache or by a request.
LEMMA HeldFacts ==
    ASSUME NEW c, NEW r, NEW v
    PROVE  v \in Held(c, r) <=>
              \/ v # NoVault /\ \E i \in DOMAIN c : c[i].vault = v
              \/ \E t \in Threads : v \in Uses(r[t])
BY DEF Held, Uses

\* What the collector leaves.
LEMMA HeapFacts ==
    ASSUME NEW h, NEW gone, HeapBecomes(h, gone)
    PROVE  /\ popped' = (popped \cup gone) \cap Held(cache', req')
           /\ heap' = [v \in VaultIds |-> heap'[v]]
           /\ \A v \in VaultIds : heap'[v] = h[v] \/ heap'[v] = NoContent
BY DEF HeapBecomes

\* A step that leaves the cache alone, and with it what the requests refer to.
LEMMA QuietMove ==
    ASSUME heap = [v \in VaultIds |-> heap[v]], popped \subseteq Held(cache, req),
           NEW t \in Executors, UNCHANGED cacheVars,
           \A u \in Threads \ {t} : req'[u] = req[u],
           t \in Threads =>
              /\ Uses(req'[t]) = Uses(req[t])
              /\ \/ req'[t] = NoRequest \/ req'[t].vault = NoVault
                 \/ /\ req[t] # NoRequest
                    /\ req'[t].vault = req[t].vault /\ req'[t].scope = req[t].scope
    PROVE  VaultStep
<1>1. cache' = cache /\ heap' = heap /\ popped' = popped
    BY DEF cacheVars
<1>2. \A u \in Threads : Uses(req'[u]) = Uses(req[u])
    OBVIOUS
<1>3. \A v : v \in Held(cache', req') <=> v \in Held(cache, req)
    BY <1>1, <1>2, HeldFacts
<1>4. popped' = (popped \cup {}) \cap Held(cache', req')
    BY <1>1, <1>3
<1>5. VaultsMove(t, {}, {})
    BY <1>1, <1>4 DEF VaultsMove, Holds
<1> QED BY <1>5 DEF VaultStep

\* A step that leaves the cache alone and works on the vault t holds or empties one.
LEMMA HeapMove ==
    ASSUME NEW t \in Threads, cache' = cache, NEW h, HeapBecomes(h, {}),
           \A u \in Threads \ {t} : req'[u] = req[u],
           \/ req'[t] = NoRequest \/ req'[t].vault = NoVault
           \/ /\ req[t] # NoRequest
              /\ req'[t].vault = req[t].vault /\ req'[t].scope = req[t].scope,
           \A v \in VaultIds :
              \/ h[v] = heap[v] \/ h[v] = NoContent
              \/ /\ req[t] # NoRequest /\ req[t].kind = "redact" /\ v = req[t].vault
                 /\ h[v] = Registered(heap[v], req[t].arg, req[t].latest)
    PROVE  VaultStep
<1>1. /\ popped' = (popped \cup {}) \cap Held(cache', req')
      /\ heap' = [v \in VaultIds |-> heap'[v]]
      /\ \A v \in VaultIds : heap'[v] = h[v] \/ heap'[v] = NoContent
    BY HeapFacts
<1>2. \A s, v : Holds(cache', s, v) <=> Holds(cache, s, v)
    BY DEF Holds
<1>3. VaultsMove(t, {}, {})
    BY <1>1, <1>2 DEF VaultsMove
<1> QED BY <1>3 DEF VaultStep, Executors

\* What ShapeInv says of a request that is being served.
LEMMA Serving ==
    ASSUME ShapeInv, NEW t \in Threads, req[t].pc \in Stages
    PROVE  /\ req[t] # NoRequest /\ req[t].pc # "idle"
           /\ StageOK(req[t])
           /\ DOMAIN req[t] = Identity \cup Findings
           /\ req[t].scope \in Scopes /\ req[t].kind \in {"redact", "rehydrate", "end"}
           /\ t \in Executors
<1>1. req[t] # NoRequest /\ req[t].pc # "idle"
    BY StageFacts
<1> QED BY <1>1, MiddlewareAssumption DEF ShapeInv, ReqShape, StagesInv, Endpoints, Executors

\* The fields of a request that goes on with nothing but its stage changed.
LEMMA GotoFacts ==
    ASSUME ReqShape, NEW t \in Threads, req[t] # NoRequest, NEW pc, Goto(t, pc)
    PROVE  /\ \A u \in Threads \ {t} : req'[u] = req[u]
           /\ req'[t].pc = pc
           /\ req'[t].kind = req[t].kind /\ req'[t].scope = req[t].scope
           /\ req'[t].arg = req[t].arg
           /\ req'[t].vault = req[t].vault /\ req'[t].victim = req[t].victim
           /\ req'[t].content = req[t].content
<1>1. DOMAIN [none |-> 0] \cap Identity = {} /\ DOMAIN [none |-> 0] \cap Findings = {}
    BY DEF Identity, Findings
<1>2. \A x \in Findings : req'[t][x] = req[t][x]
    BY <1>1, ContinueFacts DEF Goto
<1> QED BY <1>1, <1>2, ContinueFacts DEF Goto, Findings

\* An answer leaves the thread idle.
LEMMA AnswerFacts ==
    ASSUME ReqShape, NEW t \in Threads, Ends(t)
    PROVE  /\ \A u \in Threads \ {t} : req'[u] = req[u]
           /\ req'[t] = NoRequest
BY DEF Ends, ReqShape

\* One request changes its stage, and is as it should be there.
LEMMA StagesKept ==
    ASSUME StagesInv, NEW t, \A u \in Threads \ {t} : req'[u] = req[u],
           t \in Threads => (req'[t] = NoRequest \/ StageOK(req'[t]))
    PROVE  StagesInv'
BY DEF StagesInv

\* What each step is shown to do.
StepOK == StagesInv' /\ CacheInv' /\ VaultStep

\* The stages before a vault is found: a request goes on to another or fails.
LEMMA EarlyMove ==
    ASSUME ShapeInv, NEW t \in Threads, req[t].pc \in Early, UNCHANGED cacheVars,
           \/ \E pc \in Early : Goto(t, pc)
           \/ \E c : Continue(t, "insert", [content |-> c])
           \/ Fail(t)
    PROVE  StepOK
<1> USE DEF ShapeInv
<1>1. req[t].pc \in Stages
    BY DEF Early, Stages
<1>2. /\ req[t] # NoRequest /\ req[t].pc # "idle" /\ t \in Executors
      /\ StageOK(req[t])
    BY <1>1, Serving
<1>3. /\ req[t].vault = NoVault /\ req[t].victim = NoVictim /\ req[t].kind # "end"
      /\ Uses(req[t]) = {} /\ Uses(NoRequest) = {}
    <2>1. req[t].vault = NoVault /\ req[t].victim = NoVictim /\ req[t].kind # "end"
        BY <1>2 DEF StageOK, Early
    <2> QED BY <2>1 DEF Uses, NoVictim, NoVault, NoRequest
<1>4. /\ \A u \in Threads \ {t} : req'[u] = req[u]
      /\ \/ req'[t] = NoRequest
         \/ /\ req'[t].pc \in Early
            /\ req'[t].kind = req[t].kind /\ req'[t].scope = req[t].scope
            /\ req'[t].arg = req[t].arg
            /\ req'[t].vault = req[t].vault /\ req'[t].victim = req[t].victim
    <2>1. CASE \E pc \in Early : Goto(t, pc)
        BY <1>2, <2>1, GotoFacts
    <2>2. ASSUME NEW c, Continue(t, "insert", [content |-> c])
          PROVE  /\ \A u \in Threads \ {t} : req'[u] = req[u]
                 /\ req'[t].pc \in Early
                 /\ req'[t].kind = req[t].kind /\ req'[t].scope = req[t].scope
                 /\ req'[t].arg = req[t].arg
                 /\ req'[t].vault = req[t].vault /\ req'[t].victim = req[t].victim
        <3> DEFINE f == [content |-> c]
        <3>1. DOMAIN f \cap Identity = {} /\ DOMAIN f = {"content"}
            BY DEF Identity
        <3> HIDE DEF f
        <3>2. Continue(t, "insert", f)
            BY <2>2 DEF f
        <3> QED BY <1>2, <3>1, <3>2, ContinueFacts DEF Findings, Early
    <2>3. CASE Fail(t)
        BY <1>2, <2>3, FailEnds, AnswerFacts
    <2> QED BY <2>1, <2>2, <2>3
<1>5. req'[t] = NoRequest \/ StageOK(req'[t])
    BY <1>2, <1>3, <1>4 DEF StageOK, Early
<1>6. StagesInv'
    BY <1>4, <1>5, StagesKept
<1>7. Uses(req'[t]) = {}
    <2>1. CASE req'[t] = NoRequest
        BY <1>3, <2>1
    <2>2. CASE req'[t].vault = NoVault /\ req'[t].victim = NoVictim
        BY <2>2 DEF Uses, NoVictim, NoVault
    <2> QED BY <1>3, <1>4, <2>1, <2>2
<1>8. VaultStep
    BY <1>2, <1>3, <1>4, <1>7, QuietMove DEF HeapInv
<1>9. CacheInv'
    BY DEF CacheInv, IsCache, cacheVars, Distinct
<1> QED BY <1>6, <1>8, <1>9 DEF StepOK

\* The gate and the load are such stages.
LEMMA GateSteps ==
    ASSUME ShapeInv, NEW t \in Threads,
           \/ GateEnsure(t) \/ GateCheck(t) \/ GateRecovered(t) \/ GateRecheck(t)
           \/ GateDecide(t) \/ Load(t) \/ LoadFails(t)
    PROVE  StepOK
<1>1. {"resident", "gate", "check", "recover", "recheck", "status", "lookup", "load",
       "insert"} \subseteq Early
    BY DEF Early
<1>2. CASE GateEnsure(t)
    <2>1. req[t].pc = "gate" /\ UNCHANGED cacheVars /\ (Goto(t, "check") \/ Goto(t, "lookup"))
        BY <1>2 DEF GateEnsure
    <2> QED BY <1>1, <2>1, EarlyMove
<1>3. CASE GateCheck(t)
    <2>1. req[t].pc = "check" /\ UNCHANGED cacheVars /\ (Goto(t, "recheck") \/ Goto(t, "recover"))
        BY <1>3 DEF GateCheck
    <2> QED BY <1>1, <2>1, EarlyMove
<1>4. CASE GateRecovered(t)
    <2>1. req[t].pc = "recover" /\ UNCHANGED cacheVars /\ Goto(t, "recheck")
        BY <1>4 DEF GateRecovered
    <2> QED BY <1>1, <2>1, EarlyMove
<1>5. CASE GateRecheck(t)
    <2>1. req[t].pc = "recheck" /\ UNCHANGED cacheVars /\ (Goto(t, "lookup") \/ Goto(t, "status"))
        BY <1>5 DEF GateRecheck
    <2> QED BY <1>1, <2>1, EarlyMove
<1>6. CASE GateDecide(t)
    <2>1. req[t].pc = "status" /\ UNCHANGED cacheVars /\ (Goto(t, "lookup") \/ Fail(t))
        BY <1>6 DEF GateDecide
    <2> QED BY <1>1, <2>1, EarlyMove
<1>7. CASE Load(t)
    <2>1. /\ req[t].pc = "load" /\ UNCHANGED cacheVars
          /\ \/ Continue(t, "insert", [content |-> Row(req[t].scope)])
             \/ Goto(t, "insert") \/ Fail(t)
        BY <1>7 DEF Load
    <2> QED BY <1>1, <2>1, EarlyMove
<1>8. CASE LoadFails(t)
    <2>1. req[t].pc = "load" /\ UNCHANGED cacheVars /\ (Goto(t, "insert") \/ Fail(t))
        BY <1>8 DEF LoadFails
    <2> QED BY <1>1, <2>1, EarlyMove
<1> QED BY <1>2, <1>3, <1>4, <1>5, <1>6, <1>7, <1>8

\* The fields of a request that goes on with the findings in f.
LEMMA GoOnFacts ==
    ASSUME ReqShape, NEW t \in Threads, req[t] # NoRequest,
           NEW pc, NEW f, Continue(t, pc, f), DOMAIN f \subseteq Findings
    PROVE  /\ \A u \in Threads \ {t} : req'[u] = req[u]
           /\ req'[t].pc = pc
           /\ req'[t].kind = req[t].kind /\ req'[t].scope = req[t].scope
           /\ req'[t].arg = req[t].arg
           /\ req'[t].vault = IF "vault" \in DOMAIN f THEN f["vault"] ELSE req[t].vault
           /\ req'[t].victim = IF "victim" \in DOMAIN f THEN f["victim"] ELSE req[t].victim
           /\ req'[t].content = IF "content" \in DOMAIN f THEN f["content"] ELSE req[t].content
<1>1. DOMAIN f \cap Identity = {}
    BY DEF Identity, Findings
<1>2. \A x \in Findings : req'[t][x] = IF x \in DOMAIN f THEN f[x] ELSE req[t][x]
    BY <1>1, ContinueFacts
<1>3. /\ req'[t]["vault"] = IF "vault" \in DOMAIN f THEN f["vault"] ELSE req[t]["vault"]
      /\ req'[t]["victim"] = IF "victim" \in DOMAIN f THEN f["victim"] ELSE req[t]["victim"]
      /\ req'[t]["content"] = IF "content" \in DOMAIN f THEN f["content"] ELSE req[t]["content"]
    BY <1>2 DEF Findings
<1> QED BY <1>1, <1>3, ContinueFacts

\* A request that works on its vault, or empties its victim, with the cache unchanged.
LEMMA LateMove ==
    ASSUME ShapeInv, NEW t \in Threads, req[t].pc \in Stages, cache' = cache,
           NEW h, HeapBecomes(h, {}),
           \A v \in VaultIds :
              \/ h[v] = heap[v] \/ h[v] = NoContent
              \/ /\ req[t].kind = "redact" /\ v = req[t].vault
                 /\ h[v] = Registered(heap[v], req[t].arg, req[t].latest),
           \A u \in Threads \ {t} : req'[u] = req[u],
           \/ req'[t] = NoRequest
           \/ /\ StageOK(req'[t])
              /\ req'[t].vault = req[t].vault /\ req'[t].scope = req[t].scope
    PROVE  StepOK
<1> USE DEF ShapeInv
<1>1. req[t] # NoRequest
    BY Serving
<1>2. StagesInv'
    BY StagesKept
<1>3. CacheInv'
    BY DEF CacheInv, IsCache, Distinct
<1>4. VaultStep
    BY <1>1, HeapMove
<1> QED BY <1>2, <1>3, <1>4 DEF StepOK

\* The steps with the vault in hand.
LEMMA EngineSteps ==
    ASSUME ShapeInv, NEW t \in Threads,
           \/ Redact(t) \/ EngineFails(t) \/ TakeSnapshot(t) \/ PersistSnapshot(t)
           \/ Rehydrate(t)
    PROVE  StepOK
<1> USE DEF ShapeInv
<1> DEFINE g == [heap EXCEPT ![req[t].vault] = Registered(@, req[t].arg, req[t].latest)]
<1>1. req[t].pc \in {"engine", "snapshot", "enqueue"}
    BY DEF Redact, EngineFails, TakeSnapshot, PersistSnapshot, Rehydrate
<1>2. req[t].pc \in Stages
    BY <1>1 DEF Stages
<1>3. req[t] # NoRequest /\ StageOK(req[t]) /\ t \in Executors
    BY <1>2, Serving
<1>4. \A v \in VaultIds : g[v] = heap[v] \/ (v = req[t].vault /\ g[v] = Registered(heap[v], req[t].arg, req[t].latest))
    BY DEF HeapInv
<1> HIDE DEF g
<1>5. CASE Redact(t)
    <2> DEFINE f == [token |-> TokenOf(heap[req[t].vault], req[t].arg, req[t].latest)]
    <2>1. /\ req[t].pc = "engine" /\ req[t].kind = "redact" /\ cache' = cache /\ HeapBecomes(g, {})
          /\ Continue(t, "snapshot", f) \/ \E c : Answer(t, "token", c)
        BY <1>5 DEF Redact, g
    <2>2. DOMAIN f = {"token"}
        OBVIOUS
    <2> HIDE DEF f
    <2>3. /\ \A u \in Threads \ {t} : req'[u] = req[u]
          /\ \/ req'[t] = NoRequest
             \/ /\ StageOK(req'[t])
                /\ req'[t].vault = req[t].vault /\ req'[t].scope = req[t].scope
        <3>1. CASE Continue(t, "snapshot", f)
            <4>1. /\ \A u \in Threads \ {t} : req'[u] = req[u]
                  /\ req'[t].pc = "snapshot"
                  /\ req'[t].kind = req[t].kind /\ req'[t].scope = req[t].scope
                  /\ req'[t].arg = req[t].arg
                  /\ req'[t].vault = req[t].vault /\ req'[t].victim = req[t].victim
                BY <1>3, <2>2, <3>1, GoOnFacts DEF Findings
            <4> QED BY <1>3, <2>1, <4>1 DEF StageOK, Early
        <3>2. CASE \E c : Answer(t, "token", c)
            BY <1>3, <3>2, AnswerEnds, AnswerFacts
        <3> QED BY <2>1, <3>1, <3>2
    <2> QED BY <1>2, <1>4, <2>1, <2>3, LateMove
<1>6. CASE EngineFails(t)
    <2>1. /\ Fail(t) /\ cache' = cache
          /\ HeapBecomes(heap, {}) \/ (req[t].kind = "redact" /\ HeapBecomes(g, {}))
        BY <1>6 DEF EngineFails, g
    <2>2. (\A u \in Threads \ {t} : req'[u] = req[u]) /\ req'[t] = NoRequest
        BY <1>3, <2>1, FailEnds, AnswerFacts
    <2> QED BY <1>2, <1>4, <2>1, <2>2, LateMove
<1>7. CASE TakeSnapshot(t)
    <2> DEFINE f == [content |-> Snapshot(req[t].vault)]
    <2>1. req[t].pc = "snapshot" /\ UNCHANGED cacheVars /\ Continue(t, "enqueue", f)
        BY <1>7 DEF TakeSnapshot
    <2>2. DOMAIN f = {"content"}
        OBVIOUS
    <2> HIDE DEF f
    <2>3. /\ \A u \in Threads \ {t} : req'[u] = req[u]
          /\ req'[t].pc = "enqueue"
          /\ req'[t].kind = req[t].kind /\ req'[t].scope = req[t].scope
          /\ req'[t].arg = req[t].arg
          /\ req'[t].vault = req[t].vault /\ req'[t].victim = req[t].victim
        BY <1>3, <2>1, <2>2, GoOnFacts DEF Findings
    <2>4. StageOK(req'[t])
        BY <1>3, <2>1, <2>3 DEF StageOK, Early
    <2>5. Uses(req'[t]) = Uses(req[t])
        BY <2>1, <2>3 DEF Uses
    <2>6. VaultStep
        BY <1>3, <2>1, <2>3, <2>5, QuietMove DEF HeapInv
    <2>7. StagesInv'
        BY <2>3, <2>4, StagesKept
    <2>8. CacheInv'
        BY <2>1 DEF CacheInv, IsCache, cacheVars, Distinct
    <2> QED BY <2>6, <2>7, <2>8 DEF StepOK
<1>8. CASE PersistSnapshot(t)
    <2>1. /\ cache' = cache /\ HeapBecomes(heap, {})
          /\ (\E c : Answer(t, "token", c)) \/ Fail(t)
        BY <1>8 DEF PersistSnapshot
    <2>2. (\A u \in Threads \ {t} : req'[u] = req[u]) /\ req'[t] = NoRequest
        BY <1>3, <2>1, AnswerEnds, FailEnds, AnswerFacts
    <2> QED BY <1>2, <2>1, <2>2, LateMove
<1>9. CASE Rehydrate(t)
    <2>1. /\ cache' = cache /\ HeapBecomes(heap, {})
          /\ \E o, c : Answer(t, o, c)
        BY <1>9 DEF Rehydrate
    <2>2. (\A u \in Threads \ {t} : req'[u] = req[u]) /\ req'[t] = NoRequest
        BY <1>3, <2>1, AnswerEnds, AnswerFacts
    <2> QED BY <1>2, <2>1, <2>2, LateMove
<1> QED BY <1>5, <1>6, <1>7, <1>8, <1>9

\* The delete of a victim is queued, and the victim is destroyed.
LEMMA VictimSteps ==
    ASSUME ShapeInv, NEW t \in Threads, QueueDelete(t) \/ DestroyVault(t)
    PROVE  StepOK
<1> USE DEF ShapeInv
<1>1. req[t].pc \in {"delete", "destroy"}
    BY DEF QueueDelete, DestroyVault
<1>2. req[t].pc \in Stages
    BY <1>1 DEF Stages
<1>3. /\ req[t] # NoRequest /\ StageOK(req[t]) /\ t \in Executors
      /\ req[t].kind \in {"redact", "rehydrate", "end"}
    BY <1>2, Serving
<1>4. CASE QueueDelete(t)
    <2>1. /\ req[t].pc = "delete" /\ cache' = cache /\ HeapBecomes(heap, {})
          /\ Goto(t, "destroy") \/ Answer(t, "raised", NoContent)
        BY <1>4 DEF QueueDelete
    <2>2. /\ \A u \in Threads \ {t} : req'[u] = req[u]
          /\ \/ req'[t] = NoRequest
             \/ /\ StageOK(req'[t])
                /\ req'[t].vault = req[t].vault /\ req'[t].scope = req[t].scope
        <3>1. CASE Goto(t, "destroy")
            <4>1. StageOK(req'[t])
                BY <1>3, <2>1, <3>1, GotoFacts DEF StageOK, Early
            <4> QED BY <1>3, <3>1, <4>1, GotoFacts
        <3>2. CASE Answer(t, "raised", NoContent)
            BY <1>3, <3>2, AnswerEnds, AnswerFacts
        <3> QED BY <2>1, <3>1, <3>2
    <2> QED BY <1>2, <2>1, <2>2, LateMove
<1>5. CASE DestroyVault(t)
    <2> DEFINE f == [victim |-> NoVictim]
               g == [heap EXCEPT ![req[t].victim.vault] = NoContent]
    <2>1. /\ req[t].pc = "destroy" /\ cache' = cache /\ HeapBecomes(g, {})
          /\ \/ Answer(t, "destroyed", NoContent)
             \/ req[t].kind # "end" /\ Continue(t, "engine", f)
        BY <1>5 DEF DestroyVault
    <2>2. DOMAIN f = {"victim"} /\ f["victim"] = NoVictim
        OBVIOUS
    <2>3. \A v \in VaultIds : g[v] = heap[v] \/ g[v] = NoContent
        BY DEF HeapInv
    <2> HIDE DEF f, g
    <2>4. /\ \A u \in Threads \ {t} : req'[u] = req[u]
          /\ \/ req'[t] = NoRequest
             \/ /\ StageOK(req'[t])
                /\ req'[t].vault = req[t].vault /\ req'[t].scope = req[t].scope
        <3>1. CASE req[t].kind # "end" /\ Continue(t, "engine", f)
            <4>1. /\ \A u \in Threads \ {t} : req'[u] = req[u]
                  /\ req'[t].pc = "engine"
                  /\ req'[t].kind = req[t].kind /\ req'[t].scope = req[t].scope
                  /\ req'[t].arg = req[t].arg
                  /\ req'[t].vault = req[t].vault /\ req'[t].victim = NoVictim
                BY <1>3, <2>2, <3>1, GoOnFacts DEF Findings
            <4> QED BY <1>3, <2>1, <3>1, <4>1 DEF StageOK, Early
        <3>2. CASE Answer(t, "destroyed", NoContent)
            BY <1>3, <3>2, AnswerEnds, AnswerFacts
        <3> QED BY <2>1, <3>1, <3>2
    <2> QED BY <1>2, <2>1, <2>3, <2>4, LateMove
<1> QED BY <1>4, <1>5

\* A cache gives a scope one vault and a vault one scope.
LEMMA HoldsOne ==
    ASSUME NEW c, IsCache(c)
    PROVE  /\ \A s, v : Holds(c, s, v) => s \in Scopes /\ v \in VaultIds
           /\ \A r, s, v : Holds(c, r, v) /\ Holds(c, s, v) => r = s
           /\ \A s, v, w : Holds(c, s, v) /\ Holds(c, s, w) => v = w
<1>1. Distinct(c) /\ \A i \in DOMAIN c : c[i].scope \in Scopes /\ c[i].vault \in VaultIds
    <2>1. \A i \in DOMAIN c : c[i] \in Entries
        BY DEF IsCache
    <2> QED BY <2>1 DEF IsCache, Entries
<1> QED BY <1>1 DEF Holds, Distinct

\* The entry of a scope is made the most recent one.
LEMMA MoveLastFacts ==
    ASSUME NEW c, IsCache(c), NEW s, NEW v, Holds(c, s, v)
    PROVE  /\ IsCache(Append(Without(c, s), Entry(s, v)))
           /\ Len(Append(Without(c, s), Entry(s, v))) <= Len(c)
           /\ \A r, u : Holds(Append(Without(c, s), Entry(s, v)), r, u) <=> Holds(c, r, u)
<1> DEFINE d == Without(c, s)
           e == Entry(s, v)
<1>1. /\ IsCache(d) /\ Len(d) < Len(c)
      /\ \A r, u : Holds(d, r, u) <=> Holds(c, r, u) /\ r # s
    <2>1. \E i \in DOMAIN c : c[i].scope = s
        BY DEF Holds
    <2> QED BY <2>1, WithoutFacts
<1>2. e \in Entries /\ e.scope = s /\ e.vault = v
    BY HoldsOne DEF Entry, Entries
<1> HIDE DEF d, e
<1>3. ASSUME NEW i \in DOMAIN d
      PROVE  d[i].scope # s /\ d[i].vault # v
    <2>1. Holds(d, d[i].scope, d[i].vault)
        BY DEF Holds
    <2> QED BY <1>1, <2>1, HoldsOne
<1>4. /\ IsCache(Append(d, e)) /\ Len(Append(d, e)) = Len(d) + 1
      /\ \A r, u : Holds(Append(d, e), r, u) <=> Holds(d, r, u) \/ (r = s /\ u = v)
    BY <1>1, <1>2, <1>3, AppendedFacts
<1>5. \A r, u : Holds(Append(d, e), r, u) <=> Holds(c, r, u)
    BY <1>1, <1>4, HoldsOne
<1>6. Len(d) \in Nat /\ Len(c) \in Nat
    BY <1>1 DEF IsCache
<1> QED BY <1>1, <1>4, <1>5, <1>6 DEF d, e

\* A step that prunes.
LEMMA PruneMove ==
    ASSUME ShapeInv, NEW t \in Executors, HeapBecomes(PrunedHeap, StaleVaults),
           IsCache(cache'), Len(cache') <= MaxActiveScopes,
           \A r, v : Holds(cache', r, v) <=> Holds(Fresh, r, v),
           \A u \in Threads \ {t} : req'[u] = req[u],
           t \in Threads =>
              \/ req'[t] = NoRequest
              \/ /\ StageOK(req'[t])
                 /\ \/ req'[t].vault = NoVault
                    \/ Holds(cache', req'[t].scope, req'[t].vault)
    PROVE  StepOK
<1> USE DEF ShapeInv
<1>1. StagesInv'
    BY StagesKept
<1>2. CacheInv'
    BY DEF CacheInv, IsCache, Distinct
<1>3. \A r, v : Holds(cache', r, v) <=> Holds(cache, r, v) /\ v \notin StaleVaults
    BY PruneFacts DEF CacheInv
<1>4. /\ popped' = (popped \cup StaleVaults) \cap Held(cache', req')
      /\ heap' = [v \in VaultIds |-> heap'[v]]
      /\ \A v \in VaultIds : heap'[v] = PrunedHeap[v] \/ heap'[v] = NoContent
    BY HeapFacts
<1>5. \A v \in VaultIds : heap'[v] = heap[v] \/ heap'[v] = NoContent
    BY <1>4 DEF PrunedHeap
<1>6. VaultsMove(t, StaleVaults, {})
    BY <1>3, <1>4, <1>5 DEF VaultsMove
<1> QED BY <1>1, <1>2, <1>6 DEF StepOK, VaultStep

\* The first look into the cache, the lookup, and the prune of a health probe.
LEMMA PruneSteps ==
    ASSUME ShapeInv,
           HealthPrune \/ \E t \in Threads : CheckResident(t) \/ Lookup(t)
    PROVE  StepOK
<1> USE DEF ShapeInv
<1>1. /\ IsCache(cache) /\ IsCache(Fresh) /\ Len(Fresh) <= MaxActiveScopes
      /\ \A r, v : Holds(Fresh, r, v) <=> Holds(cache, r, v) /\ v \notin StaleVaults
      /\ \A r, v : Holds(cache, r, v) /\ r \notin StaleScopes => v \notin StaleVaults
    <2>1. /\ IsCache(Fresh) /\ Len(Fresh) <= Len(cache) /\ IsCache(cache)
          /\ Len(cache) <= MaxActiveScopes
        BY PruneFacts DEF CacheInv
    <2>2. Len(Fresh) \in Nat /\ Len(cache) \in Nat /\ MaxActiveScopes \in Nat
        BY <2>1, MiddlewareAssumption DEF IsCache
    <2> QED BY <2>1, <2>2, PruneFacts
<1>2. CASE HealthPrune
    <2>1. /\ cache' = Fresh /\ req' = req /\ HeapBecomes(PrunedHeap, StaleVaults)
          /\ Worker \in Executors /\ Worker \notin Threads
        BY <1>2, WriterAssumption DEF HealthPrune, Executors
    <2> QED BY <1>1, <2>1, PruneMove
<1>3. ASSUME NEW t \in Threads, CheckResident(t)
      PROVE  StepOK
    <2> DEFINE f == [resident |-> Resident(req[t].scope) /\ req[t].scope \notin StaleScopes]
    <2>1. /\ req[t].pc = "resident" /\ cache' = Fresh /\ HeapBecomes(PrunedHeap, StaleVaults)
          /\ Continue(t, "gate", f) \/ Continue(t, "lookup", f)
        BY <1>3 DEF CheckResident
    <2>2. DOMAIN f = {"resident"}
        OBVIOUS
    <2> HIDE DEF f
    <2>3. req[t].pc \in Stages
        BY <2>1 DEF Stages
    <2>4. req[t] # NoRequest /\ StageOK(req[t]) /\ t \in Executors
        BY <2>3, Serving
    <2>5. /\ \A u \in Threads \ {t} : req'[u] = req[u]
          /\ req'[t].pc \in {"gate", "lookup"}
          /\ req'[t].kind = req[t].kind /\ req'[t].scope = req[t].scope
          /\ req'[t].arg = req[t].arg
          /\ req'[t].vault = req[t].vault /\ req'[t].victim = req[t].victim
        BY <2>1, <2>2, <2>4, GoOnFacts DEF Findings
    <2>6. StageOK(req'[t]) /\ req'[t].vault = NoVault
        BY <2>1, <2>4, <2>5 DEF StageOK, Early
    <2> QED BY <1>1, <2>1, <2>4, <2>5, <2>6, PruneMove
<1>4. ASSUME NEW t \in Threads, Lookup(t)
      PROVE  StepOK
    <2> DEFINE s == req[t].scope
               hit == Resident(s) /\ s \notin StaleScopes
               f == [vault |-> VaultOf(s)]
    <2>1. /\ req[t].pc = "lookup" /\ HeapBecomes(PrunedHeap, StaleVaults)
          /\ cache' = IF hit THEN Append(Without(Fresh, s), Entry(s, VaultOf(s))) ELSE Fresh
          /\ \/ hit /\ Continue(t, "engine", f)
             \/ ~hit /\ (Goto(t, "load") \/ Goto(t, "insert") \/ Fail(t))
        BY <1>4 DEF Lookup
    <2>2. DOMAIN f = {"vault"} /\ f["vault"] = VaultOf(s)
        OBVIOUS
    <2> HIDE DEF f
    <2>3. req[t].pc \in Stages
        BY <2>1 DEF Stages
    <2>4. req[t] # NoRequest /\ StageOK(req[t]) /\ t \in Executors
        BY <2>3, Serving
    <2>5. CASE hit
        <3>1. Holds(cache, s, VaultOf(s)) /\ VaultOf(s) \in VaultIds
            BY <1>1, <2>5, ResidentFacts
        <3>2. Holds(Fresh, s, VaultOf(s))
            BY <1>1, <2>5, <3>1
        <3> DEFINE d == Append(Without(Fresh, s), Entry(s, VaultOf(s)))
        <3>3. cache' = d /\ Continue(t, "engine", f)
            BY <2>1, <2>5
        <3>4. /\ IsCache(d) /\ Len(d) <= Len(Fresh)
              /\ \A r, u : Holds(d, r, u) <=> Holds(Fresh, r, u)
            BY <1>1, <3>2, MoveLastFacts
        <3> HIDE DEF d
        <3>5. Len(d) <= MaxActiveScopes
            <4>1. Len(Fresh) \in Nat /\ Len(d) \in Nat /\ MaxActiveScopes \in Nat
                BY <1>1, <3>4, MiddlewareAssumption DEF IsCache
            <4> QED BY <1>1, <3>4, <4>1
        <3>6. /\ \A u \in Threads \ {t} : req'[u] = req[u]
              /\ req'[t].pc = "engine"
              /\ req'[t].kind = req[t].kind /\ req'[t].scope = s
              /\ req'[t].arg = req[t].arg
              /\ req'[t].vault = VaultOf(s) /\ req'[t].victim = req[t].victim
            BY <2>2, <2>4, <3>3, GoOnFacts DEF Findings
        <3>7. StageOK(req'[t])
            BY <2>1, <2>4, <3>1, <3>6 DEF StageOK, Early
        <3>8. Holds(cache', req'[t].scope, req'[t].vault)
            BY <3>2, <3>3, <3>4, <3>6
        <3> QED BY <2>1, <2>4, <3>3, <3>4, <3>5, <3>6, <3>7, <3>8, PruneMove
    <2>6. CASE ~hit
        <3>1. cache' = Fresh /\ (Goto(t, "load") \/ Goto(t, "insert") \/ Fail(t))
            BY <2>1, <2>6
        <3>2. /\ \A u \in Threads \ {t} : req'[u] = req[u]
              /\ \/ req'[t] = NoRequest
                 \/ StageOK(req'[t]) /\ req'[t].vault = NoVault
            <4>1. CASE Fail(t)
                BY <2>4, <4>1, FailEnds, AnswerFacts
            <4>2. ASSUME NEW pc \in {"load", "insert"}, Goto(t, pc)
                  PROVE  /\ \A u \in Threads \ {t} : req'[u] = req[u]
                         /\ StageOK(req'[t]) /\ req'[t].vault = NoVault
                <5>1. /\ \A u \in Threads \ {t} : req'[u] = req[u]
                      /\ req'[t].pc = pc
                      /\ req'[t].kind = req[t].kind /\ req'[t].scope = req[t].scope
                      /\ req'[t].arg = req[t].arg
                      /\ req'[t].vault = req[t].vault /\ req'[t].victim = req[t].victim
                    BY <2>4, <4>2, GotoFacts
                <5> QED BY <2>1, <2>4, <5>1 DEF StageOK, Early
            <4> QED BY <3>1, <4>1, <4>2
        <3> QED BY <1>1, <2>1, <2>4, <3>1, <3>2, PruneMove
    <2> QED BY <2>5, <2>6
<1> QED BY <1>2, <1>3, <1>4

\* What the cache holds, a request or nothing holds a vault that is in use.
LEMMA CacheHolds ==
    ASSUME IsCache(cache), NEW s, NEW v, Holds(cache, s, v)
    PROVE  v \in Held(cache, req)
<1>1. v \in VaultIds /\ \E i \in DOMAIN cache : cache[i].vault = v
    BY HoldsOne DEF Holds
<1>2. v # NoVault
    BY <1>1, MiddlewareAssumption DEF VaultIds, NoVault
<1> QED BY <1>1, <1>2, HeldFacts

\* The cache with a vault v installed for s, before and after the eviction of the
\* entry used longest ago, and that entry.
Filled(s, v) == Append(Without(cache, s), Entry(s, v))
Installed(s, v) == IF OverCapacity(Filled(s, v)) THEN Tail(Filled(s, v)) ELSE Filled(s, v)
Evicted(s, v) == IF OverCapacity(Filled(s, v)) THEN Victim(Head(Filled(s, v))) ELSE NoVictim

\* A vault is installed for a scope, under an identity nothing refers to; with the
\* cache over its capacity then, the entry used longest ago goes.
LEMMA InstallFacts ==
    ASSUME IsCache(cache), Len(cache) <= MaxActiveScopes, NEW s \in Scopes, NEW v \in NewVault
    PROVE  /\ IsCache(Installed(s, v)) /\ Len(Installed(s, v)) <= MaxActiveScopes
           /\ v \in VaultIds /\ v \notin Held(cache, req)
           /\ \A r, u : Holds(Installed(s, v), r, u) <=>
                 \/ Holds(cache, r, u) /\ r # s /\ u # Evicted(s, v).vault
                 \/ r = s /\ u = v
           /\ OverCapacity(Filled(s, v)) =>
                 /\ Holds(cache, Evicted(s, v).scope, Evicted(s, v).vault)
                 /\ Evicted(s, v).scope # s
                 /\ Evicted(s, v).scope \in Scopes /\ Evicted(s, v).vault \in VaultIds
           /\ ~OverCapacity(Filled(s, v)) => Evicted(s, v) = NoVictim
<1> DEFINE filled == Filled(s, v)
           next == Installed(s, v)
           victim == Evicted(s, v)
<1>0. /\ next = IF OverCapacity(filled) THEN Tail(filled) ELSE filled
      /\ victim = IF OverCapacity(filled) THEN Victim(Head(filled)) ELSE NoVictim
      /\ filled = Append(Without(cache, s), Entry(s, v))
    BY DEF Installed, Evicted, Filled
<1> HIDE DEF filled, next, victim
<1> DEFINE d == Without(cache, s)
           e == Entry(s, v)
<1>1. v \in VaultIds /\ v \notin Held(cache, req)
    BY DEF NewVault, Unused
<1>2. /\ IsCache(d) /\ Len(d) <= Len(cache)
      /\ \A r, u : Holds(d, r, u) <=> Holds(cache, r, u) /\ r # s
    BY WithoutFacts
<1>3. e \in Entries /\ e.scope = s /\ e.vault = v
    BY <1>1 DEF Entry, Entries
<1>4. filled = Append(d, e)
    BY <1>0
<1> HIDE DEF d, e
<1>5. ASSUME NEW i \in DOMAIN d
      PROVE  d[i].scope # s /\ d[i].vault # v
    <2>1. Holds(d, d[i].scope, d[i].vault)
        BY DEF Holds
    <2> QED BY <1>1, <1>2, <2>1, CacheHolds
<1>6. /\ IsCache(filled) /\ Len(filled) = Len(d) + 1
      /\ \A r, u : Holds(filled, r, u) <=> Holds(d, r, u) \/ (r = s /\ u = v)
    BY <1>2, <1>3, <1>4, <1>5, AppendedFacts
<1>7. Len(d) \in Nat /\ Len(cache) \in Nat /\ MaxActiveScopes \in Nat \ {0}
    BY <1>2, MiddlewareAssumption DEF IsCache
<1>8. CASE ~OverCapacity(filled)
    <2>1. next = filled /\ victim = NoVictim /\ Len(filled) <= MaxActiveScopes
        BY <1>0, <1>6, <1>7, <1>8 DEF OverCapacity
    <2>2. \A r, u : Holds(d, r, u) => u # victim.vault
        BY <1>2, <2>1, HoldsOne DEF NoVictim, NoVault, VaultIds
    <2> QED BY <1>1, <1>2, <1>6, <1>8, <2>1, <2>2 DEF filled, next, victim
<1>9. CASE OverCapacity(filled)
    <2>1. next = Tail(filled) /\ victim = Victim(Head(filled)) /\ Len(filled) > MaxActiveScopes
        BY <1>0, <1>9 DEF OverCapacity
    <2>2. victim.scope = Head(filled).scope /\ victim.vault = Head(filled).vault
        BY <2>1 DEF Victim
    <2>3. filled # <<>>
        BY <1>6, <1>7
    <2>4. /\ IsCache(next) /\ Len(next) = Len(filled) - 1
          /\ Head(filled) = filled[1]
          /\ \A r, u : Holds(next, r, u) <=> Holds(filled, r, u) /\ u # victim.vault
        <3>1. /\ IsCache(Tail(filled)) /\ Len(Tail(filled)) = Len(filled) - 1
              /\ Head(filled) = filled[1]
              /\ \A r, u : Holds(Tail(filled), r, u) <=> Holds(filled, r, u) /\ u # Head(filled).vault
            BY <1>6, <2>3, TailFacts
        <3> QED BY <2>1, <2>2, <3>1
    <2>5. Head(filled) = d[1] /\ 1 \in DOMAIN d
        <3>1. Len(d) >= 1
            BY <1>6, <1>7, <2>1
        <3>2. d \in Seq(Entries)
            BY <1>2 DEF IsCache
        <3> QED BY <1>3, <1>4, <2>4, <3>1, <3>2
    <2>6. Holds(d, victim.scope, victim.vault)
        BY <2>2, <2>5 DEF Holds
    <2>7. victim.vault # v
        BY <1>5, <2>2, <2>5
    <2>8. Len(next) <= MaxActiveScopes
        BY <1>2, <1>6, <1>7, <2>4
    <2> QED BY <1>1, <1>2, <1>6, <1>9, <2>4, <2>6, <2>7, <2>8, HoldsOne DEF filled, next, victim
<1> QED BY <1>8, <1>9 DEF filled, next, victim

\* The second locked part: what was found is used, or what was loaded installed.
LEMMA InsertStep ==
    ASSUME ShapeInv, NEW t \in Threads, Insert(t)
    PROVE  StepOK
<1> USE DEF ShapeInv
<1> DEFINE s == req[t].scope
           found == FoundMeanwhile(t)
           replaced == IF req[t].kind = "rehydrate" THEN {e.vault : e \in EntriesOf(s)} ELSE {}
<1>1. PICK v \in IF found THEN {VaultOf(s)} ELSE NewVault :
          LET filled == Append(Without(cache, s), Entry(s, v))
              full == OverCapacity(filled)
              victim == IF full THEN Victim(Head(filled)) ELSE NoVictim
          IN  /\ cache' = IF full THEN Tail(filled) ELSE filled
              /\ Continue(t, IF full THEN "delete" ELSE "engine", [vault |-> v, victim |-> victim])
              /\ HeapBecomes(IF found THEN heap ELSE [heap EXCEPT ![v] = req[t].content],
                             replaced \cup {victim.vault})
    BY DEF Insert
<1> DEFINE filled == Append(Without(cache, s), Entry(s, v))
           full == OverCapacity(filled)
           victim == IF full THEN Victim(Head(filled)) ELSE NoVictim
           next == IF full THEN Tail(filled) ELSE filled
           h == IF found THEN heap ELSE [heap EXCEPT ![v] = req[t].content]
           f == [vault |-> v, victim |-> victim]
           gone == replaced \cup {victim.vault}
<1>2. /\ cache' = next /\ HeapBecomes(h, gone)
      /\ Continue(t, IF full THEN "delete" ELSE "engine", f)
    BY <1>1
<1>3. req[t].pc = "insert"
    BY DEF Insert
<1>4. req[t].pc \in Stages
    BY <1>3 DEF Stages
<1>5. /\ req[t] # NoRequest /\ StageOK(req[t]) /\ t \in Executors /\ s \in Scopes
      /\ IsCache(cache) /\ Len(cache) <= MaxActiveScopes
    BY <1>4, Serving DEF CacheInv
<1>6. req[t].kind \in {"redact", "rehydrate"}
    BY <1>3, <1>4, <1>5, Serving DEF StageOK
<1>7. DOMAIN f = {"vault", "victim"} /\ f["vault"] = v /\ f["victim"] = victim
    OBVIOUS
<1>8. \A u \in VaultIds : \/ h[u] = heap[u] /\ (found \/ u # v)
                          \/ ~found /\ u = v /\ h[u] = req[t].content
    BY DEF HeapInv
<1>9. \A u : u \in replaced <=> req[t].kind = "rehydrate" /\ Holds(cache, s, u)
    <2>1. \A u : u \in replaced => Holds(cache, s, u)
        BY <1>5, ResidentFacts
    <2>2. ASSUME NEW u, Holds(cache, s, u)
          PROVE  \E e \in EntriesOf(s) : e.vault = u
        BY <2>2 DEF Holds, EntriesOf
    <2> QED BY <2>1, <2>2
<1>10. \A u : u \in gone <=> u \in replaced \/ u = victim.vault
    OBVIOUS
<1>11. found => req[t].kind = "redact" /\ Resident(s)
    BY DEF FoundMeanwhile
<1>12. ~found /\ req[t].kind = "redact" => ~Resident(s)
    BY DEF FoundMeanwhile
<1>13. victim = IF OverCapacity(filled) THEN Victim(Head(filled)) ELSE NoVictim
    OBVIOUS
<1>14. next = IF OverCapacity(filled) THEN Tail(filled) ELSE filled
    OBVIOUS
<1>15. filled = Append(Without(cache, s), Entry(s, v)) /\ (full <=> OverCapacity(filled))
    OBVIOUS
<1> HIDE DEF s, found, replaced, filled, full, victim, next, h, f, gone
<1>16. /\ \A u \in Threads \ {t} : req'[u] = req[u]
       /\ req'[t].pc = IF full THEN "delete" ELSE "engine"
       /\ req'[t].kind = req[t].kind /\ req'[t].scope = req[t].scope
       /\ req'[t].arg = req[t].arg
       /\ req'[t].vault = v /\ req'[t].victim = victim
    BY <1>2, <1>5, <1>7, GoOnFacts DEF Findings
<1>17. /\ popped' = (popped \cup gone) \cap Held(cache', req')
       /\ heap' = [w \in VaultIds |-> heap'[w]]
       /\ \A u \in VaultIds : heap'[u] = h[u] \/ heap'[u] = NoContent
    BY <1>2, HeapFacts
<1>18. CASE found
    <2>1. /\ v = VaultOf(s) /\ Holds(cache, s, v) /\ v \in VaultIds
        BY <1>1, <1>5, <1>11, <1>18, ResidentFacts
    <2>2. /\ IsCache(filled) /\ Len(filled) <= Len(cache)
          /\ \A r, u : Holds(filled, r, u) <=> Holds(cache, r, u)
        BY <1>5, <1>15, <2>1, MoveLastFacts
    <2>3. Len(filled) <= MaxActiveScopes /\ ~full
        <3>1. Len(filled) \in Nat /\ Len(cache) \in Nat /\ MaxActiveScopes \in Nat
            BY <1>5, <2>2, MiddlewareAssumption DEF IsCache
        <3> QED BY <1>5, <1>15, <2>2, <3>1 DEF OverCapacity
    <2>4. cache' = filled /\ victim = NoVictim
        BY <1>2, <1>13, <1>14, <1>15, <2>3
    <2>5. \A u \in VaultIds : u \notin gone
        BY <1>9, <1>10, <1>11, <1>18, <2>4 DEF NoVictim, NoVault, VaultIds
    <2>6. StagesInv'
        <3>1. StageOK(req'[t])
            BY <1>3, <1>5, <1>6, <1>16, <2>1, <2>3, <2>4 DEF StageOK, Early
        <3> QED BY <1>16, <3>1, StagesKept
    <2>7. CacheInv'
        BY <2>2, <2>3, <2>4 DEF CacheInv, IsCache, Distinct
    <2>8. VaultsMove(t, gone, {})
        <3>1. \A r, u : Holds(cache', r, u) <=> Holds(cache, r, u) /\ u \notin gone
            BY <1>5, <2>2, <2>4, <2>5, HoldsOne
        <3>2. Holds(cache', req'[t].scope, req'[t].vault)
            BY <1>16, <2>1, <2>2, <2>4 DEF s
        <3>3. \A u \in VaultIds : heap'[u] = heap[u] \/ heap'[u] = NoContent
            BY <1>8, <1>17, <1>18
        <3> QED BY <1>16, <1>17, <3>1, <3>2, <3>3 DEF VaultsMove
    <2> QED BY <1>5, <2>6, <2>7, <2>8 DEF StepOK, VaultStep
<1>19. CASE ~found
    <2>1. v \in NewVault
        BY <1>1, <1>19
    <2>2. /\ IsCache(next) /\ Len(next) <= MaxActiveScopes
          /\ v \in VaultIds /\ v \notin Held(cache, req)
          /\ \A r, u : Holds(next, r, u) <=>
                \/ Holds(cache, r, u) /\ r # s /\ u # victim.vault
                \/ r = s /\ u = v
          /\ full => /\ Holds(cache, victim.scope, victim.vault) /\ victim.scope # s
                     /\ victim.scope \in Scopes /\ victim.vault \in VaultIds
          /\ ~full => victim = NoVictim
        <3>1. filled = Filled(s, v) /\ next = Installed(s, v) /\ victim = Evicted(s, v)
            BY <1>13, <1>14, <1>15 DEF Filled, Installed, Evicted
        <3>2. /\ IsCache(next) /\ Len(next) <= MaxActiveScopes
              /\ v \in VaultIds /\ v \notin Held(cache, req)
              /\ \A r, u : Holds(next, r, u) <=>
                    \/ Holds(cache, r, u) /\ r # s /\ u # victim.vault
                    \/ r = s /\ u = v
              /\ OverCapacity(filled) =>
                    /\ Holds(cache, victim.scope, victim.vault) /\ victim.scope # s
                    /\ victim.scope \in Scopes /\ victim.vault \in VaultIds
              /\ ~OverCapacity(filled) => victim = NoVictim
            BY <1>5, <2>1, <3>1, InstallFacts
        <3> QED BY <1>15, <3>2
    <2>3. /\ ~Holds(cache, s, v) /\ v \notin gone
          /\ \A r, u : Holds(cache, r, u) => u # v
        <3>1. \A r, u : Holds(cache, r, u) => u # v
            BY <1>5, <2>2, CacheHolds
        <3>2. v # victim.vault
            BY <2>2, <3>1 DEF NoVictim, NoVault, VaultIds
        <3> QED BY <1>9, <1>10, <3>1, <3>2
    <2>4. \A r, u : Holds(cache, r, u) /\ r # s /\ u # victim.vault
                       <=> Holds(cache, r, u) /\ u \notin gone
        <3>1. ASSUME NEW r, NEW u, Holds(cache, r, u), r # s, u # victim.vault
              PROVE  u \notin gone
            BY <1>5, <1>9, <1>10, <3>1, HoldsOne
        <3>2. ASSUME NEW u, Holds(cache, s, u), u \notin gone
              PROVE  FALSE
            <4>1. req[t].kind = "redact"
                BY <1>6, <1>9, <1>10, <3>2
            <4> QED BY <1>5, <1>12, <1>19, <3>2, <4>1, ResidentFacts
        <3> QED BY <1>10, <3>1, <3>2
    <2>5. StagesInv'
        <3>1. StageOK(req'[t])
            BY <1>3, <1>5, <1>6, <1>16, <2>2 DEF StageOK, Early
        <3> QED BY <1>16, <3>1, StagesKept
    <2>6. CacheInv'
        BY <1>2, <2>2 DEF CacheInv, IsCache, Distinct
    <2>7. VaultsMove(t, gone, {<<s, v>>})
        <3>1. \A r, u : Holds(cache', r, u) <=>
                    (Holds(cache, r, u) /\ u \notin gone) \/ <<r, u>> \in {<<s, v>>}
            BY <1>2, <2>2, <2>4
        <3>2. \A r, u : <<r, u>> \in {<<s, v>>} =>
                    /\ t \in Threads /\ req[t] # NoRequest /\ r = req[t].scope
                    /\ u \in VaultIds /\ u \notin Held(cache, req) /\ u \notin gone
            BY <1>5, <2>2, <2>3 DEF s
        <3>3. Holds(cache', req'[t].scope, req'[t].vault)
            BY <1>2, <1>16, <2>2 DEF s
        <3>4. \A u \in VaultIds :
                 \/ heap'[u] = NoContent
                 \/ heap'[u] = heap[u] /\ \A r : <<r, u>> \notin {<<s, v>>}
                 \/ <<req[t].scope, u>> \in {<<s, v>>} /\ heap'[u] = req[t].content
            BY <1>8, <1>17, <1>19 DEF s
        <3> QED BY <1>16, <1>17, <3>1, <3>2, <3>3, <3>4 DEF VaultsMove
    <2> QED BY <1>5, <2>5, <2>6, <2>7 DEF StepOK, VaultStep
<1> QED BY <1>18, <1>19

\* A session end takes the vault of its scope out of the cache.
LEMMA PopStep ==
    ASSUME ShapeInv, NEW t \in Threads, PopSession(t)
    PROVE  StepOK
<1> USE DEF ShapeInv
<1> DEFINE s == req[t].scope
           gone == IF Resident(s) THEN {VaultOf(s)} ELSE {}
           victim == Victim([scope |-> s, vault |-> VaultOf(s)])
           f == [victim |-> victim]
<1>1. /\ req[t].pc = "pop" /\ cache' = Without(cache, s) /\ HeapBecomes(heap, gone)
      /\ IF Resident(s) THEN Continue(t, "delete", f) ELSE Answer(t, "not_found", NoContent)
    BY DEF PopSession
<1>2. req[t].pc \in Stages
    BY <1>1 DEF Stages
<1>3. /\ req[t] # NoRequest /\ StageOK(req[t]) /\ t \in Executors /\ s \in Scopes
      /\ IsCache(cache) /\ Len(cache) <= MaxActiveScopes
    BY <1>2, Serving DEF CacheInv
<1>4. DOMAIN f = {"victim"} /\ f["victim"] = victim /\ victim.scope = s /\ victim.vault = VaultOf(s)
    BY DEF Victim
<1>5. \A u : u \in gone <=> Resident(s) /\ u = VaultOf(s)
    OBVIOUS
<1> HIDE DEF f, victim, gone
<1>6. /\ IsCache(cache') /\ Len(cache') <= MaxActiveScopes
      /\ \A r, v : Holds(cache', r, v) <=> Holds(cache, r, v) /\ r # s
    <2> DEFINE d == Without(cache, s)
    <2>1. /\ IsCache(d) /\ Len(d) <= Len(cache)
          /\ \A r, v : Holds(d, r, v) <=> Holds(cache, r, v) /\ r # s
        BY <1>3, WithoutFacts
    <2> HIDE DEF d
    <2>2. Len(d) \in Nat /\ Len(cache) \in Nat /\ MaxActiveScopes \in Nat
        BY <1>3, <2>1, MiddlewareAssumption DEF IsCache
    <2>3. cache' = d
        BY <1>1 DEF d
    <2> QED BY <1>3, <2>1, <2>2, <2>3
<1>7. \A r, v : Holds(cache', r, v) <=> Holds(cache, r, v) /\ v \notin gone
    <2>1. \A v : Holds(cache, s, v) => v \in gone
        BY <1>3, <1>5, ResidentFacts
    <2>2. \A v \in gone : Holds(cache, s, v)
        BY <1>3, <1>5, ResidentFacts
    <2> QED BY <1>3, <1>6, <2>1, <2>2, HoldsOne
<1>8. /\ \A u \in Threads \ {t} : req'[u] = req[u]
      /\ \/ req'[t] = NoRequest
         \/ StageOK(req'[t]) /\ req'[t].vault = NoVault
    <2>1. CASE Resident(s)
        <3>1. /\ \A u \in Threads \ {t} : req'[u] = req[u]
              /\ req'[t].pc = "delete"
              /\ req'[t].kind = req[t].kind /\ req'[t].scope = s
              /\ req'[t].arg = req[t].arg
              /\ req'[t].vault = req[t].vault /\ req'[t].victim = victim
            BY <1>1, <1>3, <1>4, <2>1, GoOnFacts DEF Findings
        <3>2. VaultOf(s) \in VaultIds
            BY <1>3, <2>1, ResidentFacts
        <3> QED BY <1>1, <1>3, <1>4, <3>1, <3>2 DEF StageOK, Early
    <2>2. CASE ~Resident(s)
        BY <1>1, <1>3, <2>2, AnswerEnds, AnswerFacts
    <2> QED BY <2>1, <2>2
<1>9. StagesInv'
    BY <1>8, StagesKept
<1>10. CacheInv'
    BY <1>6 DEF CacheInv, IsCache, Distinct
<1>11. /\ popped' = (popped \cup gone) \cap Held(cache', req')
       /\ heap' = [v \in VaultIds |-> heap'[v]]
       /\ \A v \in VaultIds : heap'[v] = heap[v] \/ heap'[v] = NoContent
    BY <1>1, HeapFacts
<1>12. VaultsMove(t, gone, {})
    BY <1>7, <1>8, <1>11 DEF VaultsMove
<1> QED BY <1>3, <1>9, <1>10, <1>12 DEF StepOK, VaultStep

\* A request that arrives has found nothing yet.
LEMMA StartStep ==
    ASSUME ShapeInv, NEW t \in Threads, NEW kind \in Kinds, NEW s \in Scopes,
           NEW closed, NEW latest, NEW arg \in Arguments(kind, s),
           Start(t, kind, s, arg, latest, closed)
    PROVE  StepOK
<1> USE DEF ShapeInv
<1> DEFINE r == [pc |-> IF kind = "end" THEN "pop" ELSE "resident",
                 kind |-> kind, scope |-> s, arg |-> arg, latest |-> latest,
                     closed |-> closed,
                 resident |-> FALSE, vault |-> NoVault, token |-> 0,
                 content |-> NoContent, victim |-> NoVictim]
<1>1. req[t] = NoRequest /\ req' = [req EXCEPT ![t] = r] /\ UNCHANGED cacheVars
    BY DEF Start
<1>2. kind \in {"redact", "rehydrate", "end"}
    BY MiddlewareAssumption DEF Endpoints
<1>3. kind = "redact" => arg \in ValuesOf(s)
    BY DEF Arguments
<1>4. /\ r.pc = IF kind = "end" THEN "pop" ELSE "resident"
      /\ r.kind = kind /\ r.scope = s /\ r.arg = arg
      /\ r.vault = NoVault /\ r.victim = NoVictim
    OBVIOUS
<1> HIDE DEF r
<1>5. StageOK(r)
    BY <1>2, <1>3, <1>4 DEF StageOK, Early
<1>6. req'[t] = r /\ \A u \in Threads \ {t} : req'[u] = req[u]
    BY <1>1 DEF ReqShape
<1>7. Uses(req'[t]) = Uses(req[t])
    BY <1>1, <1>4, <1>6 DEF Uses, NoRequest, NoVictim, NoVault
<1>8. t \in Executors /\ req'[t].vault = NoVault
    BY <1>4, <1>6 DEF Executors
<1>9. VaultStep
    BY <1>1, <1>6, <1>7, <1>8, QuietMove DEF HeapInv
<1>10. StagesInv'
    BY <1>5, <1>6, StagesKept
<1>11. CacheInv'
    BY <1>1 DEF CacheInv, IsCache, cacheVars, Distinct
<1> QED BY <1>9, <1>10, <1>11 DEF StepOK

\* An entry that expires stays, with its scope and its vault.
LEMMA ExpireStep ==
    ASSUME ShapeInv, NEW i \in DOMAIN cache, Expire(i)
    PROVE  StepOK
<1> USE DEF ShapeInv
<1>1. /\ cache' = [cache EXCEPT ![i].expired = TRUE]
      /\ heap' = heap /\ popped' = popped /\ req' = req
    BY DEF Expire
<1>2. cache \in Seq(Entries) /\ Distinct(cache) /\ Len(cache) <= MaxActiveScopes
    BY DEF CacheInv, IsCache
<1>3. cache[i] \in Entries
    BY <1>2
<1>4. [cache[i] EXCEPT !.expired = TRUE] \in Entries
    BY <1>3 DEF Entries
<1>5. cache' \in Seq(Entries) /\ Len(cache') = Len(cache) /\ DOMAIN cache' = DOMAIN cache
    BY <1>1, <1>2, <1>4
<1>6. \A j \in DOMAIN cache : cache'[j].scope = cache[j].scope /\ cache'[j].vault = cache[j].vault
    <2>1. \A j \in DOMAIN cache : j # i => cache'[j] = cache[j]
        BY <1>1
    <2>2. cache'[i] = [cache[i] EXCEPT !.expired = TRUE]
        BY <1>1
    <2>3. cache'[i].scope = cache[i].scope /\ cache'[i].vault = cache[i].vault
        BY <1>3, <2>2 DEF Entries
    <2> QED BY <2>1, <2>3
<1>7. CacheInv'
    BY <1>2, <1>5, <1>6 DEF CacheInv, IsCache, Distinct
<1>8. StagesInv'
    BY <1>1 DEF StagesInv
<1>9. \A r, v : Holds(cache', r, v) <=> Holds(cache, r, v)
    BY <1>5, <1>6 DEF Holds
<1>10. \A v : v \in Held(cache', req') <=> v \in Held(cache, req)
    BY <1>1, <1>5, <1>6, HeldFacts
<1>11. popped' = (popped \cup {}) \cap Held(cache', req')
    BY <1>1, <1>10 DEF HeapInv
<1>12. VaultsMove(Worker, {}, {}) /\ Worker \in Executors
    BY <1>1, <1>9, <1>11, WriterAssumption DEF VaultsMove, Executors, HeapInv
<1> QED BY <1>7, <1>8, <1>12 DEF StepOK, VaultStep

\* Every step does to the vaults what VaultStep says.
LEMMA EveryVaultStep ==
    ASSUME ShapeInv, [MiddlewareNext]_vars
    PROVE  StepOK
<1>1. ASSUME NEW t \in Threads, Arrive(t)
      PROVE  StepOK
    <2>1. ASSUME NEW kind, NEW s, Saturated(kind, s)
          PROVE  UNCHANGED <<cacheVars, req>>
        BY <2>1 DEF Saturated
    <2>2. CASE \E kind \in Kinds, s \in Scopes : \E closed \in ClosedModes :
                  \E arg \in Arguments(kind, s), latest \in Modes(kind) :
                      Start(t, kind, s, arg, latest, closed)
        BY <2>2, StartStep
    <2>3. CASE UNCHANGED <<cacheVars, req>>
        <3>1. VaultStep
            BY <2>3, QuietMove, WriterAssumption DEF ShapeInv, HeapInv, Executors
        <3> QED BY <2>3, <3>1 DEF StepOK, ShapeInv, StagesInv, CacheInv, IsCache, Distinct, cacheVars
    <2> QED BY <1>1, <2>1, <2>2, <2>3 DEF Arrive
<1>2. ASSUME NEW t \in Threads, Serve(t)
      PROVE  StepOK
    BY <1>2, GateSteps, PruneSteps, InsertStep, PopStep, VictimSteps, EngineSteps DEF Serve
<1>3. ASSUME NEW i \in DOMAIN cache, Expire(i)
      PROVE  StepOK
    BY <1>3, ExpireStep
<1>4. CASE HealthPrune
    BY <1>4, PruneSteps
<1>5. CASE RestartProcess
    <2>1. /\ cache' = <<>> /\ popped' = {}
          /\ heap' = [v \in VaultIds |-> NoContent]
          /\ req' = [t \in Threads |-> NoRequest]
        BY <1>5 DEF RestartProcess
    <2>2. VaultStep
        BY <2>1 DEF VaultStep
    <2>3. StagesInv'
        BY <2>1 DEF StagesInv
    <2>4. CacheInv'
        BY <2>1, MiddlewareAssumption DEF CacheInv, IsCache, Distinct
    <2> QED BY <2>2, <2>3, <2>4 DEF StepOK
<1>6. CASE UNCHANGED <<cacheVars, req>>
    <2>1. VaultStep
        BY <1>6, QuietMove, WriterAssumption DEF ShapeInv, HeapInv, Executors
    <2> QED BY <1>6, <2>1 DEF StepOK, ShapeInv, StagesInv, CacheInv, IsCache, Distinct, cacheVars
<1>7. CASE Background \/ UNCHANGED vars \/ (HasStore /\ EnsureWorkerRunning /\ UNCHANGED middlewareVars)
    <2>1. UNCHANGED <<cacheVars, req>>
        BY <1>7 DEF Background, middlewareVars, vars
    <2> QED BY <1>6, <2>1
<1> QED BY <1>1, <1>2, <1>3, <1>4, <1>5, <1>7 DEF MiddlewareNext, HealthProbe

\* What VaultStep says of the vaults keeps what the shape says of them.
LEMMA HeapStep ==
    ASSUME VaultStep
    PROVE  HeapInv'
<1>1. ASSUME NEW t, NEW gone, NEW added, VaultsMove(t, gone, added)
      PROVE  HeapInv'
    BY <1>1 DEF VaultsMove, HeapInv
<1>2. CASE popped' = {} /\ heap' = [v \in VaultIds |-> NoContent]
    BY <1>2 DEF HeapInv
<1> QED BY <1>1, <1>2 DEF VaultStep

\* Requests and cache are well formed in every reachable state; the cache keeps its
\* capacity, one entry per scope and one scope per vault.
THEOREM ShapeInvariant == MiddlewareSpec => []ShapeInv
<1>1. Init => ShapeInv
    <2> SUFFICES ASSUME Init PROVE ShapeInv
        OBVIOUS
    <2>1. ReqShape
        BY PermitInit DEF PermitInv
    <2>2. StagesInv
        BY DEF Init, StagesInv
    <2>3. CacheInv
        BY MiddlewareAssumption DEF Init, CacheInv, IsCache, Distinct
    <2>4. HeapInv
        BY DEF Init, HeapInv
    <2> QED BY <2>1, <2>2, <2>3, <2>4 DEF ShapeInv
<1>2. PermitInv /\ ShapeInv /\ [MiddlewareNext]_vars /\ PermitInv' => ShapeInv'
    BY EveryVaultStep, HeapStep DEF StepOK, ShapeInv, PermitInv
<1> QED BY <1>1, <1>2, PermitInvariant, PTL DEF MiddlewareSpec

--------------------------------------------------------------------------------
(* One vault per scope.                                                       *)

\* The vault v is the scope s's: the cache c has it for s, or a request of s uses it.
Owner(c, r, s, v) ==
    \/ Holds(c, s, v)
    \/ \E t \in Threads : r[t] # NoRequest /\ r[t].scope = s /\ r[t].vault = v /\ v # NoVault

OwnershipInv ==
    /\ \A s, v : Holds(cache, s, v) => v \notin popped
    /\ \A t \in Threads :
          req[t] # NoRequest /\ req[t].vault # NoVault /\ req[t].vault \notin popped =>
              Holds(cache, req[t].scope, req[t].vault)
    /\ \A r, s, v : Owner(cache, req, r, v) /\ Owner(cache, req, s, v) => r = s

\* Somebody who owns a vault holds it.
LEMMA OwnerHeld ==
    ASSUME ShapeInv, NEW s, NEW v, Owner(cache, req, s, v)
    PROVE  v \in VaultIds /\ v \in Held(cache, req)
<1> USE DEF ShapeInv, CacheInv
<1>1. CASE Holds(cache, s, v)
    BY <1>1, HoldsOne, CacheHolds
<1>2. ASSUME NEW t \in Threads, req[t] # NoRequest, req[t].scope = s, req[t].vault = v, v # NoVault
      PROVE  v \in VaultIds /\ v \in Held(cache, req)
    <2>1. StageOK(req[t]) /\ req[t].pc # "idle"
        BY <1>2, StageFacts DEF StagesInv
    <2>2. v \in Uses(req[t])
        BY <1>2, <2>1 DEF Uses
    <2> QED BY <1>2, <2>1, <2>2, HeldFacts DEF StageOK
<1> QED BY <1>1, <1>2 DEF Owner

\* Only an installation makes an owner, of a vault that nobody owned.
LEMMA OwnerStep ==
    ASSUME ShapeInv, NEW t, NEW gone, NEW added, VaultsMove(t, gone, added),
           NEW s, NEW v, Owner(cache', req', s, v)
    PROVE  Owner(cache, req, s, v) \/ <<s, v>> \in added
<1>1. /\ \A r, u : Holds(cache', r, u) <=>
                       (Holds(cache, r, u) /\ u \notin gone) \/ <<r, u>> \in added
      /\ \A u \in Threads \ {t} : req'[u] = req[u]
      /\ t \in Threads =>
            \/ req'[t] = NoRequest \/ req'[t].vault = NoVault
            \/ /\ req[t] # NoRequest
               /\ req'[t].vault = req[t].vault /\ req'[t].scope = req[t].scope
            \/ Holds(cache', req'[t].scope, req'[t].vault)
    BY DEF VaultsMove
<1>2. CASE Holds(cache', s, v)
    BY <1>1, <1>2 DEF Owner
<1>3. ASSUME NEW u \in Threads, req'[u] # NoRequest, req'[u].scope = s, req'[u].vault = v, v # NoVault
      PROVE  Owner(cache, req, s, v) \/ <<s, v>> \in added
    <2>1. CASE u # t
        BY <1>1, <1>3, <2>1 DEF Owner
    <2>2. CASE u = t
        <3>1. CASE Holds(cache', s, v)
            BY <1>2, <3>1
        <3>2. CASE /\ req[t] # NoRequest
                   /\ req'[t].vault = req[t].vault /\ req'[t].scope = req[t].scope
            BY <1>3, <2>2, <3>2 DEF Owner
        <3> QED BY <1>1, <1>3, <2>2, <3>1, <3>2
    <2> QED BY <2>1, <2>2
<1> QED BY <1>2, <1>3 DEF Owner

\* No step gives a scope a second vault or a vault a second scope.
LEMMA OwnershipStep ==
    ASSUME ShapeInv, ShapeInv', OwnershipInv, VaultStep
    PROVE  OwnershipInv'
<1>1. CASE cache' = <<>> /\ popped' = {} /\ req' = [t \in Threads |-> NoRequest]
    <2>1. \A s, v : ~Holds(cache', s, v)
        BY <1>1 DEF Holds
    <2>2. \A s, v : ~Owner(cache', req', s, v)
        BY <1>1, <2>1 DEF Owner
    <2> QED BY <1>1, <2>1, <2>2 DEF OwnershipInv
<1>2. ASSUME NEW t \in Executors, NEW gone, NEW added, VaultsMove(t, gone, added)
      PROVE  OwnershipInv'
    <2>1. /\ \A r, u : Holds(cache', r, u) <=>
                           (Holds(cache, r, u) /\ u \notin gone) \/ <<r, u>> \in added
          /\ \A r, u : <<r, u>> \in added =>
                           /\ r = req[t].scope
                           /\ u \in VaultIds /\ u \notin Held(cache, req) /\ u \notin gone
          /\ popped' = (popped \cup gone) \cap Held(cache', req')
          /\ \A u \in Threads \ {t} : req'[u] = req[u]
          /\ t \in Threads =>
                \/ req'[t] = NoRequest \/ req'[t].vault = NoVault
                \/ /\ req[t] # NoRequest
                   /\ req'[t].vault = req[t].vault /\ req'[t].scope = req[t].scope
                \/ Holds(cache', req'[t].scope, req'[t].vault)
        BY <1>2 DEF VaultsMove
    <2>2. \A v : v \in popped => v \in Held(cache, req)
        BY DEF ShapeInv, HeapInv
    <2>3. \A s, v : Holds(cache', s, v) => v \notin popped'
        BY <2>1, <2>2 DEF OwnershipInv
    <2>4. ASSUME NEW u \in Threads, req'[u] # NoRequest, req'[u].vault # NoVault,
                 req'[u].vault \notin popped'
          PROVE  Holds(cache', req'[u].scope, req'[u].vault)
        <3> DEFINE v == req'[u].vault
                   s == req'[u].scope
        <3>1. Owner(cache', req', s, v)
            BY <2>4 DEF Owner
        <3>2. v \in Held(cache', req')
            <4>1. req'[u].pc \in Stages /\ "idle" \notin Stages
                BY <2>4, StageFacts DEF ShapeInv, ReqShape
            <4>2. v \in Uses(req'[u])
                BY <2>4, <4>1 DEF Uses
            <4> QED BY <4>2, HeldFacts
        <3>3. v \notin popped /\ v \notin gone
            BY <2>1, <2>4, <3>2
        <3>4. Owner(cache, req, s, v) \/ <<s, v>> \in added
            BY <1>2, <3>1, OwnerStep
        <3>5. CASE <<s, v>> \in added
            BY <2>1, <3>5
        <3>6. CASE Owner(cache, req, s, v)
            <4>1. Holds(cache, s, v)
                <5>1. ASSUME NEW w \in Threads, req[w] # NoRequest, req[w].scope = s,
                             req[w].vault = v, v # NoVault
                      PROVE  Holds(cache, s, v)
                    BY <3>3, <5>1 DEF OwnershipInv
                <5> QED BY <3>6, <5>1 DEF Owner
            <4> QED BY <2>1, <3>3, <4>1
        <3> QED BY <3>4, <3>5, <3>6
    <2>5. ASSUME NEW r, NEW s, NEW v, Owner(cache', req', r, v), Owner(cache', req', s, v)
          PROVE  r = s
        <3>1. Owner(cache, req, r, v) \/ <<r, v>> \in added
            BY <1>2, <2>5, OwnerStep
        <3>2. Owner(cache, req, s, v) \/ <<s, v>> \in added
            BY <1>2, <2>5, OwnerStep
        <3>3. \A q : Owner(cache, req, q, v) => v \in Held(cache, req)
            BY OwnerHeld
        <3> QED BY <2>1, <3>1, <3>2, <3>3 DEF OwnershipInv
    <2> QED BY <2>3, <2>4, <2>5 DEF OwnershipInv
<1> QED BY <1>1, <1>2 DEF VaultStep

\* A vault has one scope and, until it is popped, a scope has one vault.
THEOREM OwnershipInvariant == MiddlewareSpec => []OwnershipInv
<1>1. Init => OwnershipInv
    <2> SUFFICES ASSUME Init PROVE OwnershipInv
        OBVIOUS
    <2>1. \A s, v : ~Holds(cache, s, v)
        BY DEF Init, Holds
    <2>2. \A t \in Threads : req[t] = NoRequest
        BY DEF Init
    <2> QED BY <2>1, <2>2 DEF OwnershipInv, Owner
<1>2. ShapeInv /\ ShapeInv' /\ OwnershipInv /\ [MiddlewareNext]_vars => OwnershipInv'
    BY EveryVaultStep, OwnershipStep DEF StepOK
<1> QED BY <1>1, <1>2, ShapeInvariant, PTL DEF MiddlewareSpec

\* Two redactions of a scope that miss at once use one vault, and a vault that was
\* taken out of the cache or replaced there does not come back
\* (PIIMiddleware._get_or_create_vault, _get_vault, end_session).
THEOREM ScopesHaveOneVault == MiddlewareSpec => []OneVaultPerScope
<1>1. ShapeInv /\ OwnershipInv => OneVaultPerScope
    <2> SUFFICES ASSUME ShapeInv, OwnershipInv PROVE OneVaultPerScope
        OBVIOUS
    <2>1. IsCache(cache)
        BY DEF ShapeInv, CacheInv
    <2>2. \A i \in DOMAIN cache : Holds(cache, cache[i].scope, cache[i].vault)
        BY DEF Holds
    <2>3. ASSUME NEW t \in Threads, req[t].pc # "idle", req[t].vault \notin popped \cup {NoVault}
          PROVE  Resident(req[t].scope) /\ VaultOf(req[t].scope) = req[t].vault
        <3>1. Holds(cache, req[t].scope, req[t].vault)
            BY <2>3, StageFacts DEF OwnershipInv, ShapeInv
        <3> QED BY <2>1, <3>1, ResidentFacts
    <2> QED BY <2>1, <2>2, <2>3 DEF OneVaultPerScope, IsCache, Distinct, OwnershipInv
<1> QED BY <1>1, ShapeInvariant, OwnershipInvariant, PTL

--------------------------------------------------------------------------------
(* The writer under the middleware.                                           *)

\* A task carries the number of a write that was accepted.
Numbered(accepted, task) == task.seq \in 1 .. accepted[task.scope]

SeqsInv ==
    /\ \A s \in Scopes : store[s].row => store[s].seq \in 1 .. requested[s]
    /\ \A i \in DOMAIN queue : Numbered(requested, queue[i])
    /\ \A x \in Executors : doing[x] # Idle => Numbered(requested, doing[x].task)
    /\ health.failed # NoTask => Numbered(requested, health.failed)

WrittenInv == TypeOK /\ SeqsInv

\* The middleware moves the writer by the writer's own steps, but where it prunes.
LEMMA WriterMoves ==
    ASSUME ShapeInv, [MiddlewareNext]_vars
    PROVE  [Next]_writerVars \/ PruneDeletes
<1>1. ASSUME NEW t \in Threads, Arrive(t)
      PROVE  UNCHANGED writerVars
    BY <1>1 DEF Arrive, Start, Saturated
<1>2. ASSUME NEW t \in Threads, Serve(t)
      PROVE  [Next]_writerVars \/ PruneDeletes
    <2>1. CASE CheckResident(t) \/ Lookup(t)
        BY <2>1 DEF CheckResident, Lookup
    <2>2. CASE GateEnsure(t)
        BY <2>2 DEF GateEnsure, Next
    <2>3. CASE GateCheck(t)
        BY <2>3 DEF GateCheck, Next
    <2>4. CASE QueueDelete(t)
        <3>1. UNCHANGED writerVars \/ EnqueueTask("delete", req[t].victim.scope, NoContent)
            BY <2>4 DEF QueueDelete
        <3>2. req[t].victim.scope \in Scopes
            <4>1. req[t].pc = "delete" /\ "delete" \in Stages
                BY <2>4 DEF QueueDelete, Stages
            <4> QED BY <4>1, Serving DEF StageOK
        <3> QED BY <3>1, <3>2 DEF EnqueueTask, Next, Ops
    <2>5. CASE PersistSnapshot(t)
        <3>1. UNCHANGED writerVars \/ EnqueueTask("save", req[t].scope, req[t].content)
            BY <2>5 DEF PersistSnapshot
        <3>2. req[t].scope \in Scopes
            <4>1. req[t].pc = "enqueue" /\ "enqueue" \in Stages
                BY <2>5 DEF PersistSnapshot, Stages
            <4> QED BY <4>1, Serving
        <3> QED BY <3>1, <3>2 DEF EnqueueTask, Next, Ops
    <2>6. CASE \/ GateRecovered(t) \/ GateRecheck(t) \/ GateDecide(t) \/ Load(t)
               \/ LoadFails(t) \/ Insert(t) \/ PopSession(t) \/ DestroyVault(t)
               \/ Redact(t) \/ EngineFails(t) \/ TakeSnapshot(t) \/ Rehydrate(t)
        <3>1. UNCHANGED writerVars
            BY <2>6 DEF GateRecovered, GateRecheck, GateDecide, Load, LoadFails, Insert,
                        PopSession, DestroyVault, Redact, EngineFails, TakeSnapshot, Rehydrate
        <3> QED BY <3>1
    <2> QED BY <1>2, <2>1, <2>2, <2>3, <2>4, <2>5, <2>6 DEF Serve
<1>3. ASSUME NEW i \in DOMAIN cache, Expire(i)
      PROVE  UNCHANGED writerVars
    BY <1>3 DEF Expire
<1>4. CASE HealthProbe
    BY <1>4 DEF HealthProbe, HealthPrune, Next
<1>5. CASE Background
    BY <1>5 DEF Background, Next
<1>6. CASE RestartProcess
    BY <1>6 DEF RestartProcess, Next
<1>7. CASE UNCHANGED vars
    BY <1>7 DEF vars
<1> QED BY <1>1, <1>2, <1>3, <1>4, <1>5, <1>6, <1>7 DEF MiddlewareNext

\* What pruning queues and counts.
LEMMA PruneWrites ==
    ASSUME IsCache(cache), TypeOK, PruneDeletes
    PROVE  \E n \in Nat :
              /\ n <= Len(Stale) /\ Len(queue) + n <= QueueMax
              /\ queue' \in Seq(Tasks) /\ Len(queue') = Len(queue) + n
              /\ \A i \in 1 .. Len(queue) : queue'[i] = queue[i]
              /\ \A i \in 1 .. n :
                    /\ queue'[Len(queue) + i].scope = Stale[i].scope
                    /\ queue'[Len(queue) + i].seq = requested[Stale[i].scope] + 1
                    /\ Stale[i].scope \in Scopes
              /\ requested' \in [Scopes -> Nat] /\ DOMAIN snapshots' = Scopes
              /\ \A s \in Scopes :
                    \/ /\ \E i \in 1 .. n : Stale[i].scope = s
                       /\ requested'[s] = requested[s] + 1
                       /\ snapshots'[s] = Append(snapshots[s], NoContent)
                    \/ /\ \A i \in 1 .. n : Stale[i].scope # s
                       /\ requested'[s] = requested[s] /\ snapshots'[s] = snapshots[s]
              /\ UNCHANGED <<workerAlive, doing, health, store, failures, deaths, restarts,
                             faults>>
<1> DEFINE room == QueueMax - Len(queue)
           n == IF ~HasStore THEN 0 ELSE IF Len(Stale) < room THEN Len(Stale) ELSE room
           told == {Stale[i].scope : i \in 1 .. n}
           tasks == [i \in 1 .. n |-> Task("delete", Stale[i].scope, requested[Stale[i].scope] + 1)]
<1>1. Stale \in Seq(Entries)
    BY PruneFacts DEF IsCache
<1>2. /\ queue \in Seq(Tasks) /\ Len(queue) \in Nat /\ Len(queue) <= QueueMax
      /\ QueueMax \in Nat /\ Len(Stale) \in Nat /\ requested \in [Scopes -> Nat]
    BY <1>1, WriterAssumption DEF TypeOK
<1>3. n \in Nat /\ n <= Len(Stale) /\ Len(queue) + n <= QueueMax
    BY <1>2
<1>4. /\ queue' = queue \o tasks
      /\ requested' = [s \in Scopes |-> requested[s] + (IF s \in told THEN 1 ELSE 0)]
      /\ snapshots' = [s \in Scopes |->
                          IF s \in told THEN Append(snapshots[s], NoContent) ELSE snapshots[s]]
      /\ UNCHANGED <<workerAlive, doing, health, store, failures, deaths, restarts, faults>>
    BY DEF PruneDeletes
<1> HIDE DEF n
<1>5. \A s : s \in told <=> \E i \in 1 .. n : Stale[i].scope = s
    OBVIOUS
<1>6. ASSUME NEW i \in 1 .. n
      PROVE  /\ Stale[i].scope \in Scopes
             /\ tasks[i] \in Tasks
             /\ tasks[i].scope = Stale[i].scope
             /\ tasks[i].seq = requested[Stale[i].scope] + 1
    <2>1. i \in 1 .. Len(Stale)
        BY <1>2, <1>3
    <2>2. Stale[i] \in Entries
        BY <1>1, <2>1
    <2>3. Stale[i].scope \in Scopes
        BY <2>2 DEF Entries
    <2> QED BY <1>2, <2>3 DEF Task, Tasks, Ops
<1>7. tasks \in [1 .. n -> Tasks]
    BY <1>6
<1> HIDE DEF tasks, told
<1>8. tasks \in Seq(Tasks) /\ Len(tasks) = n
    BY <1>3, <1>7
<1>9. /\ queue' \in Seq(Tasks) /\ Len(queue') = Len(queue) + n
      /\ \A i \in 1 .. Len(queue) : queue'[i] = queue[i]
      /\ \A i \in 1 .. n : queue'[Len(queue) + i] = tasks[i]
    <2>1. queue' = queue \o tasks
        BY <1>4
    <2>2. queue' \in Seq(Tasks) /\ Len(queue') = Len(queue) + Len(tasks)
        BY <2>1, <1>2, <1>8, ConcatProperties
    <2>3. \A i \in 1 .. Len(queue) + Len(tasks) :
             queue'[i] = IF i <= Len(queue) THEN queue[i] ELSE tasks[i - Len(queue)]
        BY <2>1, <1>2, <1>8, ConcatProperties
    <2>4. ASSUME NEW i \in 1 .. Len(queue) PROVE queue'[i] = queue[i]
        <3>1. i \in 1 .. Len(queue) + Len(tasks) /\ i <= Len(queue)
            BY <1>2, <1>3, <1>8
        <3> QED BY <3>1, <2>3
    <2>5. ASSUME NEW i \in 1 .. n PROVE queue'[Len(queue) + i] = tasks[i]
        <3>1. /\ Len(queue) + i \in 1 .. Len(queue) + Len(tasks)
              /\ ~(Len(queue) + i <= Len(queue))
              /\ (Len(queue) + i) - Len(queue) = i
            BY <1>2, <1>3, <1>8
        <3> QED BY <3>1, <2>3
    <2> QED BY <2>2, <2>4, <2>5, <1>8
<1>10. /\ requested' \in [Scopes -> Nat] /\ DOMAIN snapshots' = Scopes
       /\ \A s \in Scopes :
              \/ /\ s \in told
                 /\ requested'[s] = requested[s] + 1
                 /\ snapshots'[s] = Append(snapshots[s], NoContent)
              \/ /\ s \notin told
                 /\ requested'[s] = requested[s] /\ snapshots'[s] = snapshots[s]
    BY <1>2, <1>4
<1>11. \A s \in Scopes :
          \/ /\ \E i \in 1 .. n : Stale[i].scope = s
             /\ requested'[s] = requested[s] + 1
             /\ snapshots'[s] = Append(snapshots[s], NoContent)
          \/ /\ \A i \in 1 .. n : Stale[i].scope # s
             /\ requested'[s] = requested[s] /\ snapshots'[s] = snapshots[s]
    BY <1>5, <1>10
<1>12. \A i \in 1 .. n :
          /\ queue'[Len(queue) + i].scope = Stale[i].scope
          /\ queue'[Len(queue) + i].seq = requested[Stale[i].scope] + 1
          /\ Stale[i].scope \in Scopes
    BY <1>6, <1>9
<1> USE <1>3
<1> WITNESS n \in Nat
<1> QED BY <1>4, <1>9, <1>10, <1>11, <1>12

\* Writes accepted stay accepted.
LEMMA StaysKnown ==
    ASSUME NEW a, NEW b, a \in [Scopes -> Nat], b \in [Scopes -> Nat],
           \A s \in Scopes : a[s] <= b[s], NEW task \in Tasks, Numbered(a, task)
    PROVE  Numbered(b, task)
<1>1. task.scope \in Scopes /\ task.seq \in Nat
    BY TaskFacts
<1> QED BY <1>1 DEF Numbered

\* The writer's own steps pass on tasks that were accepted.
LEMMA SeqsStep ==
    ASSUME TypeOK, TypeOK', SeqsInv, [Next]_writerVars
    PROVE  SeqsInv'
<1> USE DEF SeqsInv
<1>1. /\ queue \in Seq(Tasks) /\ doing \in [Executors -> Jobs] /\ store \in [Scopes -> Rows]
      /\ requested \in [Scopes -> Nat] /\ health \in Healths
      /\ requested' \in [Scopes -> Nat]
    BY DEF TypeOK
<1>2. \A x \in Executors : doing[x].stage # "idle" =>
          /\ doing[x].task \in Tasks /\ doing[x].task.scope \in Scopes
          /\ Numbered(requested, doing[x].task)
    <2> SUFFICES ASSUME NEW x \in Executors, doing[x].stage # "idle"
                 PROVE  /\ doing[x].task \in Tasks /\ doing[x].task.scope \in Scopes
                        /\ Numbered(requested, doing[x].task)
        OBVIOUS
    <2>1. doing[x] # Idle /\ doing[x].task \in Tasks
        BY <1>1, JobFacts
    <2> QED BY <2>1, TaskFacts
<1>3. ASSUME NEW op \in Ops, NEW s \in Scopes, Enqueue(op, s)
      PROVE  SeqsInv'
    <2> DEFINE task == Task(op, s, requested[s] + 1)
    <2>1. /\ queue' = Append(queue, task) /\ UNCHANGED <<doing, health, store>>
          /\ requested' = [requested EXCEPT ![s] = @ + 1]
        BY <1>3 DEF Enqueue, Put
    <2>2. task \in Tasks /\ task.scope = s /\ task.seq = requested[s] + 1
        BY <1>1 DEF Task, Tasks
    <2>3. \A r \in Scopes : requested[r] <= requested'[r]
        BY <1>1, <2>1
    <2>4. Numbered(requested', task)
        BY <1>1, <2>1, <2>2 DEF Numbered
    <2> HIDE DEF task
    <2>5. \A i \in DOMAIN queue' : Numbered(requested', queue'[i])
        <3> SUFFICES ASSUME NEW i \in DOMAIN queue' PROVE Numbered(requested', queue'[i])
            OBVIOUS
        <3>1. CASE i \in DOMAIN queue
            <4>1. queue'[i] = queue[i] /\ queue[i] \in Tasks
                BY <1>1, <2>1, <3>1
            <4> QED BY <1>1, <2>3, <3>1, <4>1, StaysKnown
        <3>2. CASE i \notin DOMAIN queue
            <4>1. queue'[i] = task
                BY <1>1, <2>1, <3>2
            <4> QED BY <2>4, <4>1
        <3> QED BY <3>1, <3>2
    <2>6. \A r \in Scopes : store'[r].row => store'[r].seq \in 1 .. requested'[r]
        BY <1>1, <2>1, <2>3 DEF Rows
    <2>7. \A x \in Executors : doing'[x] # Idle => Numbered(requested', doing'[x].task)
        <3> SUFFICES ASSUME NEW x \in Executors, doing[x] # Idle
                     PROVE  Numbered(requested', doing[x].task)
            BY <2>1
        <3>1. doing[x].task \in Tasks
            BY <1>1, JobFacts
        <3> QED BY <1>1, <2>3, <3>1, StaysKnown
    <2>8. health'.failed # NoTask => Numbered(requested', health'.failed)
        <3>1. health.failed # NoTask => health.failed \in Tasks
            BY <1>1 DEF Healths
        <3> QED BY <1>1, <2>1, <2>3, <3>1, StaysKnown
    <2> QED BY <2>5, <2>6, <2>7, <2>8
<1>4. CASE WorkerTake
    <2>1. /\ queue # <<>> /\ queue' = Tail(queue) /\ UNCHANGED <<requested, health, store>>
          /\ doing' = [doing EXCEPT ![Worker] = Executing(Head(queue))]
        BY <1>4 DEF WorkerTake
    <2>2. Numbered(requested, Head(queue)) /\ Executing(Head(queue)).task = Head(queue)
        BY <1>1, <2>1 DEF Executing
    <2>3. \A i \in DOMAIN queue' : i + 1 \in DOMAIN queue /\ queue'[i] = queue[i + 1]
        BY <1>1, <2>1
    <2> QED BY <1>1, <2>1, <2>2, <2>3
<1>5. ASSUME NEW x \in Executors, StoreSucceeds(x)
      PROVE  SeqsInv'
    <2>1. doing[x].stage = "executing"
        BY <1>5 DEF StoreSucceeds
    <2> DEFINE task == doing[x].task
    <2>2. task \in Tasks /\ task.scope \in Scopes /\ Numbered(requested, task)
        BY <1>2, <2>1
    <2>3. /\ store' = [store EXCEPT ![task.scope] = RowAfter(task)]
          /\ doing' = [doing EXCEPT ![x] = Executed(task, "ok")]
          /\ UNCHANGED <<queue, health, requested>>
        BY <1>5 DEF StoreSucceeds
    <2>4. RowAfter(task).seq = task.seq /\ Executed(task, "ok").task = task
        BY DEF RowAfter, Executed
    <2> HIDE DEF task
    <2> QED BY <1>1, <2>2, <2>3, <2>4 DEF Numbered
<1>6. ASSUME NEW x \in Executors, NEW c \in Categories, StoreFails(x, c)
      PROVE  SeqsInv'
    <2>1. doing[x].stage = "executing"
        BY <1>6 DEF StoreFails
    <2> DEFINE task == doing[x].task
    <2>2. task \in Tasks /\ task.scope \in Scopes /\ Numbered(requested, task)
        BY <1>2, <2>1
    <2>3. /\ store' = store \/ store' = [store EXCEPT ![task.scope] = RowAfter(task)]
          /\ doing' = [doing EXCEPT ![x] = Executed(task, c)]
          /\ UNCHANGED <<queue, health, requested>>
        BY <1>6 DEF StoreFails
    <2>4. RowAfter(task).seq = task.seq /\ Executed(task, c).task = task
        BY DEF RowAfter, Executed
    <2> HIDE DEF task
    <2> QED BY <1>1, <2>2, <2>3, <2>4 DEF Numbered
<1>7. ASSUME NEW x \in Executors, RecordSuccess(x)
      PROVE  SeqsInv'
    <2>1. health'.failed = NoTask
        BY <1>1, <1>7 DEF RecordSuccess, ClearedHealth, Healths
    <2>2. doing' = [doing EXCEPT ![x] = Idle] /\ UNCHANGED <<queue, store, requested>>
        BY <1>7 DEF RecordSuccess
    <2> QED BY <1>1, <2>1, <2>2
<1>8. ASSUME NEW x \in Executors, RecordFailure(x)
      PROVE  SeqsInv'
    <2>1. doing[x].stage = "executed"
        BY <1>8 DEF RecordFailure
    <2>2. Numbered(requested, doing[x].task)
        BY <1>2, <2>1
    <2>3. health'.failed = doing[x].task
        BY <1>8 DEF RecordFailure, FailedHealth
    <2>4. doing' = [doing EXCEPT ![x] = Idle] /\ UNCHANGED <<queue, store, requested>>
        BY <1>8 DEF RecordFailure
    <2> QED BY <1>1, <2>2, <2>3, <2>4
<1>9. CASE CooldownElapses
    <2>1. health'.failed = health.failed
        BY <1>1, <1>9 DEF CooldownElapses, Healths
    <2>2. UNCHANGED <<queue, doing, store, requested>>
        BY <1>9 DEF CooldownElapses
    <2> QED BY <2>1, <2>2
<1>10. CASE WorkerDies
    <2>1. doing' = [doing EXCEPT ![Worker] = Idle] /\ UNCHANGED <<queue, health, store, requested>>
        BY <1>10 DEF WorkerDies
    <2> QED BY <1>1, <2>1
<1>11. CASE EnsureWorkerRunning
    BY <1>11 DEF EnsureWorkerRunning
<1>12. ASSUME NEW t \in Threads, StartRecovery(t)
       PROVE  SeqsInv'
    <2>1. health'.failed = health.failed /\ health.failed # NoTask
        BY <1>1, <1>12 DEF StartRecovery, MayRecover, Healths
    <2>2. /\ doing' = [doing EXCEPT ![t] = Executing(health.failed)]
          /\ UNCHANGED <<queue, store, requested>>
        BY <1>12 DEF StartRecovery, RetryTask
    <2>3. Executing(health.failed).task = health.failed
        BY DEF Executing
    <2> QED BY <1>1, <2>1, <2>2, <2>3
<1>13. CASE Restart
    <2>1. /\ queue' = <<>> /\ doing' = [x \in Executors |-> Idle] /\ health' = InitHealth
          /\ UNCHANGED <<store, requested>>
        BY <1>13 DEF Restart
    <2>2. health'.failed = NoTask
        BY <2>1 DEF InitHealth
    <2> QED BY <1>1, <2>1, <2>2
<1>14. CASE UNCHANGED writerVars
    BY <1>14 DEF writerVars
<1> QED BY <1>3, <1>4, <1>5, <1>6, <1>7, <1>8, <1>9, <1>10, <1>11, <1>12, <1>13, <1>14
        DEF Next, Perform

\* What pruning queues has the right type and the next number of its scope.
LEMMA PrunedWritten ==
    ASSUME IsCache(cache), WrittenInv, PruneDeletes
    PROVE  WrittenInv'
<1>1. PICK n \in Nat :
              /\ n <= Len(Stale) /\ Len(queue) + n <= QueueMax
              /\ queue' \in Seq(Tasks) /\ Len(queue') = Len(queue) + n
              /\ \A i \in 1 .. Len(queue) : queue'[i] = queue[i]
              /\ \A i \in 1 .. n :
                    /\ queue'[Len(queue) + i].scope = Stale[i].scope
                    /\ queue'[Len(queue) + i].seq = requested[Stale[i].scope] + 1
                    /\ Stale[i].scope \in Scopes
              /\ requested' \in [Scopes -> Nat] /\ DOMAIN snapshots' = Scopes
              /\ \A s \in Scopes :
                    \/ /\ \E i \in 1 .. n : Stale[i].scope = s
                       /\ requested'[s] = requested[s] + 1
                       /\ snapshots'[s] = Append(snapshots[s], NoContent)
                    \/ /\ \A i \in 1 .. n : Stale[i].scope # s
                       /\ requested'[s] = requested[s] /\ snapshots'[s] = snapshots[s]
              /\ UNCHANGED <<workerAlive, doing, health, store, failures, deaths, restarts,
                             faults>>
    BY PruneWrites DEF WrittenInv
<1>2. /\ queue \in Seq(Tasks) /\ doing \in [Executors -> Jobs] /\ store \in [Scopes -> Rows]
      /\ requested \in [Scopes -> Nat] /\ health \in Healths /\ Len(queue) \in Nat
    BY DEF WrittenInv, TypeOK
<1>3. TypeOK'
    BY <1>1 DEF WrittenInv, TypeOK
<1>4. \A s \in Scopes : requested[s] <= requested'[s]
    BY <1>1, <1>2
<1>5. \A i \in DOMAIN queue' : Numbered(requested', queue'[i])
    <2> SUFFICES ASSUME NEW i \in DOMAIN queue' PROVE Numbered(requested', queue'[i])
        OBVIOUS
    <2>1. i \in 1 .. Len(queue) + n
        BY <1>1
    <2>2. CASE i <= Len(queue)
        <3>1. i \in 1 .. Len(queue) /\ i \in DOMAIN queue
            BY <1>2, <2>1, <2>2
        <3>2. queue'[i] = queue[i] /\ queue[i] \in Tasks /\ Numbered(requested, queue[i])
            BY <1>1, <1>2, <3>1 DEF WrittenInv, SeqsInv
        <3> QED BY <1>1, <1>2, <1>4, <3>2, StaysKnown
    <2>3. CASE ~(i <= Len(queue))
        <3> DEFINE k == i - Len(queue)
        <3>1. k \in 1 .. n /\ i = Len(queue) + k
            BY <1>2, <2>1, <2>3
        <3> HIDE DEF k
        <3>2. /\ queue'[i].scope = Stale[k].scope /\ Stale[k].scope \in Scopes
              /\ queue'[i].seq = requested[Stale[k].scope] + 1
            BY <1>1, <3>1
        <3>3. requested'[Stale[k].scope] = requested[Stale[k].scope] + 1
            BY <1>1, <3>1, <3>2
        <3> QED BY <1>2, <3>2, <3>3 DEF Numbered
    <2> QED BY <2>2, <2>3
<1>6. \A s \in Scopes : store'[s].row => store'[s].seq \in 1 .. requested'[s]
    <2> SUFFICES ASSUME NEW s \in Scopes, store[s].row
                 PROVE  store[s].seq \in 1 .. requested'[s]
        BY <1>1
    <2>1. store[s].seq \in 1 .. requested[s] /\ requested[s] \in Nat /\ requested'[s] \in Nat
        BY <1>1, <1>2 DEF WrittenInv, SeqsInv
    <2> QED BY <1>4, <2>1
<1>7. \A x \in Executors : doing'[x] # Idle => Numbered(requested', doing'[x].task)
    <2> SUFFICES ASSUME NEW x \in Executors, doing[x] # Idle
                 PROVE  Numbered(requested', doing[x].task)
        BY <1>1
    <2>1. doing[x].task \in Tasks /\ Numbered(requested, doing[x].task)
        BY <1>2, JobFacts DEF WrittenInv, SeqsInv
    <2> QED BY <1>1, <1>2, <1>4, <2>1, StaysKnown
<1>8. health'.failed # NoTask => Numbered(requested', health'.failed)
    <2> SUFFICES ASSUME health.failed # NoTask PROVE Numbered(requested', health.failed)
        BY <1>1
    <2>1. health.failed \in Tasks /\ Numbered(requested, health.failed)
        BY <1>2 DEF Healths, WrittenInv, SeqsInv
    <2> QED BY <1>1, <1>2, <1>4, <2>1, StaysKnown
<1> QED BY <1>3, <1>5, <1>6, <1>7, <1>8 DEF WrittenInv, SeqsInv

\* The writer under the middleware has its types, and everything it passes around is
\* the write of a number its scope was given.
THEOREM WrittenInvariant == MiddlewareSpec => []WrittenInv
<1>1. Init => WrittenInv
    <2> SUFFICES ASSUME Init PROVE WrittenInv
        OBVIOUS
    <2>1. /\ NewWriter
          /\ requested = [s \in Scopes |-> IF Saved(s) THEN 1 ELSE 0]
          /\ store = [s \in Scopes |-> [row |-> Saved(s), seq |-> requested[s]]]
        BY DEF Init
    <2>2. InitHealth \in Healths /\ InitHealth.failed = NoTask /\ Idle \in Jobs
        BY DEF InitHealth, Healths, Jobs
    <2>3. \A s \in Scopes : Saved(s) \in BOOLEAN
        <3>1. config.store \in BOOLEAN
            BY MiddlewareAssumption DEF Init
        <3> QED BY <3>1 DEF Saved, HasStore
    <2>4. requested \in [Scopes -> Nat]
        BY <2>1
    <2>5. store \in [Scopes -> Rows]
        BY <2>1, <2>3, <2>4 DEF Rows
    <2>6. TypeOK
        BY <2>1, <2>2, <2>4, <2>5, WriterAssumption DEF NewWriter, TypeOK
    <2>7. \A s \in Scopes : store[s].row => store[s].seq \in 1 .. requested[s]
        BY <2>1
    <2> QED BY <2>1, <2>2, <2>6, <2>7 DEF NewWriter, WrittenInv, SeqsInv
<1>2. ShapeInv /\ WrittenInv /\ [MiddlewareNext]_vars => WrittenInv'
    <2> SUFFICES ASSUME ShapeInv, WrittenInv, [MiddlewareNext]_vars PROVE WrittenInv'
        OBVIOUS
    <2>1. CASE [Next]_writerVars
        <3>1. TypeOK'
            BY <2>1, TypeStep DEF WrittenInv
        <3> QED BY <2>1, <3>1, SeqsStep DEF WrittenInv
    <2>2. CASE PruneDeletes
        BY <2>2, PrunedWritten DEF ShapeInv, CacheInv
    <2> QED BY <2>1, <2>2, WriterMoves
<1> QED BY <1>1, <1>2, ShapeInvariant, PTL DEF MiddlewareSpec

--------------------------------------------------------------------------------
(* The values vaults, rows and answers hold.                                  *)

\* What a vault of s may hold.
Ledgers(s) == Seq(ValuesOf(s))

\* An empty vault is one.
LEMMA EmptyLedger == \A s : NoContent \in Ledgers(s)
BY DEF Ledgers, NoContent

\* What registering a value does to the content of a vault: nothing, or the value takes
\* the place of the last one, or it comes after it.
LEMMA RegisteredCases ==
    ASSUME NEW V, NEW c \in Seq(V), NEW v, NEW latest
    PROVE  \/ /\ Known(c, v) /\ Registered(c, v, latest) = c
              /\ TokenOf(c, v, latest) \in DOMAIN c /\ c[TokenOf(c, v, latest)] = v
              /\ ~TakesOver(c, v, latest)
           \/ /\ TakesOver(c, v, latest) /\ Registered(c, v, latest) = [c EXCEPT ![Len(c)] = v]
              /\ TokenOf(c, v, latest) = Len(c) /\ Len(c) \in DOMAIN c
           \/ /\ ~TakesOver(c, v, latest) /\ Registered(c, v, latest) = Append(c, v)
              /\ TokenOf(c, v, latest) = Len(c) + 1
<1>1. CASE Known(c, v)
    <2>1. ~TakesOver(c, v, latest)
        BY <1>1 DEF TakesOver
    <2>2. /\ Registered(c, v, latest) = c
          /\ TokenOf(c, v, latest) = CHOOSE i \in DOMAIN c : c[i] = v
        BY <1>1, <2>1 DEF Registered, TokenOf
    <2>3. \E i \in DOMAIN c : c[i] = v
        BY <1>1 DEF Known
    <2> QED BY <1>1, <2>1, <2>2, <2>3
<1>2. CASE TakesOver(c, v, latest)
    <2>1. ~Known(c, v) /\ c # <<>>
        BY <1>2 DEF TakesOver, NoContent
    <2>2. Len(c) \in DOMAIN c
        BY <2>1
    <2> QED BY <1>2, <2>1, <2>2 DEF Registered, TokenOf
<1>3. CASE ~Known(c, v) /\ ~TakesOver(c, v, latest)
    BY <1>3 DEF Registered, TokenOf
<1> QED BY <1>1, <1>2, <1>3

\* Registering a value of the scope keeps a vault one.
LEMMA RegisteredLedger ==
    ASSUME NEW s, NEW c \in Ledgers(s), NEW v \in ValuesOf(s), NEW latest
    PROVE  Registered(c, v, latest) \in Ledgers(s)
<1> DEFINE V == ValuesOf(s)
           d == Registered(c, v, latest)
<1>1. c \in Seq(V) /\ v \in V
    BY DEF Ledgers
<1>2. d = c \/ (Len(c) \in DOMAIN c /\ d = [c EXCEPT ![Len(c)] = v]) \/ d = Append(c, v)
    BY <1>1, RegisteredCases
<1> HIDE DEF V, d
<1>3. d \in Seq(V)
    BY <1>1, <1>2
<1> QED BY <1>3 DEF V, d, Ledgers

\* A vault of a scope holds values the callers disclosed.
LEMMA LedgerContents ==
    ASSUME NEW s \in Scopes, NEW c \in Ledgers(s)
    PROVE  c \in Contents
<1> DEFINE V == ValuesOf(s)
           W == UNION {ValuesOf(r) : r \in Scopes}
<1>1. c \in Seq(V) /\ V \subseteq W
    BY DEF Ledgers
<1> HIDE DEF V, W
<1>2. c \in Seq(W)
    BY <1>1
<1> QED BY <1>2 DEF W, Contents

HeapValues ==
    /\ heap \in [VaultIds -> Contents]
    /\ \A s, v : Owner(cache, req, s, v) => heap[v] \in Ledgers(s)
LoadedValues ==
    \A t \in Threads : req[t] # NoRequest => req[t].content \in Ledgers(req[t].scope)
StoredValues ==
    /\ DOMAIN snapshots = Scopes
    /\ \A s \in Scopes : snapshots[s] \in Seq(Ledgers(s)) /\ Len(snapshots[s]) = requested[s]
AnsweredValues ==
    /\ config \in Configs
    /\ DOMAIN issued = Scopes /\ DOMAIN corrections = Scopes
    /\ \A s \in Scopes : \A pair \in issued[s] : pair[2] \in ValuesOf(s)
    /\ reply.outcome = "clean" => reply.content[2] \in ValuesOf(reply.scope)

ValuesInv == HeapValues /\ LoadedValues /\ StoredValues /\ AnsweredValues

\* The row of a scope is one of the snapshots taken for it.
LEMMA RowLedger ==
    ASSUME WrittenInv, StoredValues, NEW s \in Scopes
    PROVE  Row(s) \in Ledgers(s)
<1>1. CASE store[s].row
    <2>1. store[s].seq \in 1 .. Len(snapshots[s])
        BY <1>1 DEF WrittenInv, SeqsInv, StoredValues
    <2> QED BY <1>1, <2>1 DEF Row, StoredValues
<1>2. CASE ~store[s].row
    BY <1>2, EmptyLedger DEF Row
<1> QED BY <1>1, <1>2

\* A request with a vault is one of its owners, and the vault holds its scope's values.
LEMMA RequestLedger ==
    ASSUME ShapeInv, HeapValues, NEW t \in Threads, req[t] # NoRequest, req[t].vault \in VaultIds
    PROVE  heap[req[t].vault] \in Ledgers(req[t].scope)
<1>1. req[t].vault # NoVault
    BY DEF VaultIds, NoVault
<1>2. Owner(cache, req, req[t].scope, req[t].vault)
    BY <1>1 DEF Owner
<1> QED BY <1>2 DEF HeapValues

\* Whatever a step does to the vaults, each holds values of the scope that owns it.
LEMMA HeapValuesStep ==
    ASSUME ShapeInv, OwnershipInv, HeapValues, LoadedValues, VaultStep
    PROVE  HeapValues'
<1>0. NoContent \in Contents
    BY DEF NoContent, Contents
<1>1. CASE cache' = <<>> /\ heap' = [v \in VaultIds |-> NoContent]
             /\ req' = [t \in Threads |-> NoRequest]
    <2>1. \A s, v : ~Owner(cache', req', s, v)
        BY <1>1 DEF Owner, Holds
    <2> QED BY <1>0, <1>1, <2>1 DEF HeapValues
<1>2. ASSUME NEW t \in Executors, NEW gone, NEW added, VaultsMove(t, gone, added)
      PROVE  HeapValues'
    <2>1. /\ \A s, v : <<s, v>> \in added =>
                 /\ t \in Threads /\ req[t] # NoRequest /\ s = req[t].scope
                 /\ v \in VaultIds /\ v \notin Held(cache, req)
          /\ heap' = [v \in VaultIds |-> heap'[v]]
        BY <1>2 DEF VaultsMove
    <2>2. ASSUME NEW v \in VaultIds
          PROVE  \/ heap'[v] = NoContent
                 \/ heap'[v] = heap[v] /\ \A s : <<s, v>> \notin added
                 \/ /\ t \in Threads /\ req[t] # NoRequest
                    /\ req[t].kind = "redact" /\ v = req[t].vault
                    /\ heap'[v] = Registered(heap[v], req[t].arg, req[t].latest)
                 \/ /\ t \in Threads /\ <<req[t].scope, v>> \in added
                    /\ heap'[v] = req[t].content
        BY <1>2 DEF VaultsMove
    <2>3. ASSUME NEW v \in VaultIds, t \in Threads, req[t] # NoRequest,
                 req[t].kind = "redact", v = req[t].vault
          PROVE  /\ Owner(cache, req, req[t].scope, v)
                 /\ req[t].scope \in Scopes
                 /\ Registered(heap[v], req[t].arg, req[t].latest) \in Ledgers(req[t].scope)
        <3>1. Owner(cache, req, req[t].scope, v)
            BY <2>3 DEF Owner, VaultIds, NoVault
        <3>2. req[t].arg \in ValuesOf(req[t].scope) /\ req[t].scope \in Scopes
            BY <2>3 DEF ShapeInv, StagesInv, StageOK, ReqShape
        <3>3. heap[v] \in Ledgers(req[t].scope)
            BY <3>1 DEF HeapValues
        <3> QED BY <3>1, <3>2, <3>3, RegisteredLedger
    <2>4. heap' \in [VaultIds -> Contents]
        <3>1. ASSUME NEW v \in VaultIds
              PROVE  heap'[v] \in Contents
            <4>1. CASE heap'[v] = NoContent \/ heap'[v] = heap[v]
                BY <1>0, <4>1 DEF HeapValues
            <4>2. CASE /\ t \in Threads /\ req[t] # NoRequest
                       /\ req[t].kind = "redact" /\ v = req[t].vault
                       /\ heap'[v] = Registered(heap[v], req[t].arg, req[t].latest)
                BY <2>3, <4>2, LedgerContents
            <4>3. CASE /\ t \in Threads /\ <<req[t].scope, v>> \in added
                       /\ heap'[v] = req[t].content
                <5>1. req[t] # NoRequest
                    BY <2>1, <4>3
                <5>2. req[t].content \in Ledgers(req[t].scope) /\ req[t].scope \in Scopes
                    BY <4>3, <5>1 DEF LoadedValues, ShapeInv, ReqShape
                <5> QED BY <4>3, <5>2, LedgerContents
            <4> QED BY <2>2, <4>1, <4>2, <4>3
        <3> QED BY <2>1, <3>1
    <2>5. ASSUME NEW s, NEW v, Owner(cache', req', s, v)
          PROVE  heap'[v] \in Ledgers(s)
        <3>1. Owner(cache, req, s, v) \/ <<s, v>> \in added
            BY <1>2, <2>5, OwnerStep
        <3>2. Owner(cache, req, s, v) => v \in VaultIds /\ v \in Held(cache, req)
            BY OwnerHeld
        <3>3. v \in VaultIds
            BY <2>1, <3>1, <3>2
        <3>4. CASE heap'[v] = NoContent
            BY <3>4, EmptyLedger
        <3>5. CASE heap'[v] = heap[v] /\ \A r : <<r, v>> \notin added
            BY <3>1, <3>5 DEF HeapValues
        <3>6. CASE /\ t \in Threads /\ req[t] # NoRequest
                   /\ req[t].kind = "redact" /\ v = req[t].vault
                   /\ heap'[v] = Registered(heap[v], req[t].arg, req[t].latest)
            <4>1. Owner(cache, req, req[t].scope, v)
                BY <2>3, <3>3, <3>6
            <4>2. v \in Held(cache, req)
                BY <4>1, OwnerHeld
            <4>3. Owner(cache, req, s, v)
                BY <2>1, <3>1, <4>2
            <4>4. s = req[t].scope
                BY <4>1, <4>3 DEF OwnershipInv
            <4> QED BY <2>3, <3>3, <3>6, <4>4
        <3>7. CASE /\ t \in Threads /\ <<req[t].scope, v>> \in added
                   /\ heap'[v] = req[t].content
            <4>1. v \notin Held(cache, req) /\ req[t] # NoRequest
                BY <2>1, <3>7
            <4>2. s = req[t].scope
                BY <2>1, <3>1, <3>2, <4>1
            <4> QED BY <3>7, <4>1, <4>2 DEF LoadedValues
        <3> QED BY <2>2, <3>3, <3>4, <3>5, <3>6, <3>7
    <2> QED BY <2>4, <2>5 DEF HeapValues
<1> QED BY <1>1, <1>2 DEF VaultStep

\* What the request of t has loaded or copied, after a step of t.
LoadMove(t) ==
    /\ \A u \in Threads \ {t} : req'[u] = req[u]
    /\ \/ req'[t] = NoRequest
       \/ req'[t].content = NoContent
       \/ /\ req[t] # NoRequest /\ req'[t].scope = req[t].scope
          /\ \/ req'[t].content = req[t].content
             \/ req'[t].content = Row(req[t].scope)
             \/ req[t].pc = "snapshot" /\ req'[t].content = heap[req[t].vault]

\* A request that goes on keeps the content it has, unless it is given another.
LEMMA ContentKept ==
    ASSUME ReqShape, NEW t \in Threads, req[t].pc \in Stages,
           NEW pc, NEW f, Continue(t, pc, f), DOMAIN f \subseteq Findings \ {"content"}
    PROVE  LoadMove(t)
<1>1. req[t] # NoRequest
    BY StageFacts
<1> QED BY <1>1, GoOnFacts DEF LoadMove

\* A request whose content changes has loaded the row or taken a snapshot.
LEMMA ContentChanged ==
    ASSUME ReqShape, NEW t \in Threads, req[t].pc \in Stages,
           NEW pc, NEW c, Continue(t, pc, [content |-> c]),
           c = Row(req[t].scope) \/ (req[t].pc = "snapshot" /\ c = heap[req[t].vault])
    PROVE  LoadMove(t)
<1> DEFINE f == [content |-> c]
<1>1. req[t] # NoRequest
    BY StageFacts
<1>2. DOMAIN f \subseteq Findings /\ "content" \in DOMAIN f /\ f["content"] = c
    BY DEF Findings
<1> HIDE DEF f
<1>3. Continue(t, pc, f)
    BY DEF f
<1>4. req'[t].content = c /\ req'[t].scope = req[t].scope /\ \A u \in Threads \ {t} : req'[u] = req[u]
    BY <1>1, <1>2, <1>3, GoOnFacts
<1> QED BY <1>1, <1>4 DEF LoadMove

\* A request loads the row of its scope, and copies the vault it works on.
LEMMA LoadSteps ==
    ASSUME ReqShape, NEW t \in Threads, Serve(t)
    PROVE  LoadMove(t)
<1> DEFINE F(f) == DOMAIN f \subseteq Findings \ {"content"}
<1>1. /\ {"resident", "gate", "check", "recover", "recheck", "status", "lookup", "load",
          "insert", "engine", "snapshot", "enqueue", "pop", "delete", "destroy"} \subseteq Stages
      /\ req[t].pc \in Stages => req[t] # NoRequest
    BY StageFacts DEF Stages
<1>2. /\ \A b : F([resident |-> b]) /\ F([vault |-> b]) /\ F([victim |-> b]) /\ F([token |-> b])
      /\ \A v, w : F([vault |-> v, victim |-> w])
    BY DEF Findings
<1> HIDE DEF F
<1>3. ASSUME NEW pc, NEW f, F(f), Continue(t, pc, f), req[t].pc \in Stages
      PROVE  LoadMove(t)
    BY <1>3, ContentKept DEF F
<1>4. ASSUME NEW pc, Goto(t, pc), req[t].pc \in Stages
      PROVE  LoadMove(t)
    BY <1>1, <1>4, GotoFacts DEF LoadMove
<1>5. ASSUME NEW o, NEW c, Answer(t, o, c), req[t].pc \in Stages
      PROVE  LoadMove(t)
    BY <1>1, <1>5, AnswerEnds, AnswerFacts DEF LoadMove
<1>6. ASSUME Fail(t), req[t].pc \in Stages
      PROVE  LoadMove(t)
    BY <1>5, <1>6 DEF Fail
<1>7. CASE CheckResident(t)
    BY <1>1, <1>2, <1>3, <1>7 DEF CheckResident
<1>8. CASE GateEnsure(t) \/ GateCheck(t) \/ GateRecovered(t) \/ GateRecheck(t) \/ GateDecide(t)
    BY <1>1, <1>4, <1>6, <1>8 DEF GateEnsure, GateCheck, GateRecovered, GateRecheck, GateDecide
<1>9. CASE Lookup(t)
    BY <1>1, <1>2, <1>3, <1>4, <1>6, <1>9 DEF Lookup
<1>10. CASE Load(t)
    BY <1>1, <1>4, <1>6, <1>10, ContentChanged DEF Load
<1>11. CASE LoadFails(t)
    BY <1>1, <1>4, <1>6, <1>11 DEF LoadFails
<1>12. CASE Insert(t)
    BY <1>1, <1>2, <1>3, <1>12 DEF Insert
<1>13. CASE PopSession(t)
    BY <1>1, <1>2, <1>3, <1>5, <1>13 DEF PopSession
<1>14. CASE QueueDelete(t)
    BY <1>1, <1>4, <1>5, <1>14 DEF QueueDelete
<1>15. CASE DestroyVault(t)
    BY <1>1, <1>2, <1>3, <1>5, <1>15 DEF DestroyVault
<1>16. CASE Redact(t)
    <2>1. /\ req[t].pc = "engine"
          /\ \/ \E x : Continue(t, "snapshot", [token |-> x])
             \/ \E c : Answer(t, "token", c)
        BY <1>16 DEF Redact
    <2> QED BY <1>1, <1>2, <1>3, <1>5, <2>1
<1>17. CASE EngineFails(t)
    <2>1. req[t].pc = "engine" /\ Fail(t)
        BY <1>17 DEF EngineFails
    <2> QED BY <1>1, <1>6, <2>1
<1>18. CASE TakeSnapshot(t)
    BY <1>1, <1>18, ContentChanged DEF TakeSnapshot, Snapshot
<1>19. CASE PersistSnapshot(t)
    BY <1>1, <1>5, <1>6, <1>19 DEF PersistSnapshot
<1>20. CASE Rehydrate(t)
    BY <1>1, <1>5, <1>20 DEF Rehydrate
<1> QED BY <1>7, <1>8, <1>9, <1>10, <1>11, <1>12, <1>13, <1>14, <1>15, <1>16, <1>17, <1>18,
           <1>19, <1>20 DEF Serve

\* So what a request carries stays within its scope.
LEMMA LoadedStep ==
    ASSUME ShapeInv, WrittenInv, ValuesInv, [MiddlewareNext]_vars
    PROVE  LoadedValues'
<1> USE DEF ValuesInv
<1>1. ASSUME NEW t \in Threads, LoadMove(t)
      PROVE  LoadedValues'
    <2>1. ASSUME req'[t] # NoRequest
          PROVE  req'[t].content \in Ledgers(req'[t].scope)
        <3>1. CASE req'[t].content = NoContent
            BY <3>1, EmptyLedger
        <3>2. CASE req[t] # NoRequest /\ req'[t].scope = req[t].scope
            <4>1. req[t].content \in Ledgers(req[t].scope) /\ req[t].scope \in Scopes
                BY <3>2 DEF LoadedValues, ShapeInv, ReqShape
            <4>2. CASE req'[t].content = req[t].content
                BY <3>2, <4>1, <4>2
            <4>3. CASE req'[t].content = Row(req[t].scope)
                BY <3>2, <4>1, <4>3, RowLedger
            <4>4. CASE req[t].pc = "snapshot" /\ req'[t].content = heap[req[t].vault]
                <5>1. req[t].vault \in VaultIds
                    BY <3>2, <4>4 DEF ShapeInv, StagesInv, StageOK
                <5> QED BY <3>2, <4>4, <5>1, RequestLedger
            <4> QED BY <1>1, <2>1, <3>1, <4>2, <4>3, <4>4 DEF LoadMove
        <3> QED BY <1>1, <2>1, <3>1, <3>2 DEF LoadMove
    <2>2. \A u \in Threads \ {t} : req'[u] = req[u]
        BY <1>1 DEF LoadMove
    <2> QED BY <2>1, <2>2 DEF LoadedValues
<1>2. CASE UNCHANGED req
    BY <1>2 DEF LoadedValues
<1>3. ASSUME NEW t \in Threads, Arrive(t)
      PROVE  LoadedValues'
    <2>1. ASSUME NEW kind, NEW s, NEW closed, NEW arg, NEW latest,
                 Start(t, kind, s, arg, latest, closed)
          PROVE  LoadMove(t)
        <3> DEFINE r == [pc |-> IF kind = "end" THEN "pop" ELSE "resident",
                         kind |-> kind, scope |-> s, arg |-> arg, latest |-> latest,
                     closed |-> closed,
                         resident |-> FALSE, vault |-> NoVault, token |-> 0,
                         content |-> NoContent, victim |-> NoVictim]
        <3>1. req' = [req EXCEPT ![t] = r]
            BY <2>1 DEF Start
        <3>2. r.content = NoContent
            OBVIOUS
        <3> HIDE DEF r
        <3> QED BY <3>1, <3>2 DEF LoadMove, ShapeInv, ReqShape
    <2>2. ASSUME NEW kind, NEW s, Saturated(kind, s)
          PROVE  UNCHANGED req
        BY <2>2 DEF Saturated
    <2> QED BY <1>1, <1>2, <1>3, <2>1, <2>2 DEF Arrive
<1>4. ASSUME NEW t \in Threads, Serve(t)
      PROVE  LoadedValues'
    BY <1>1, <1>4, LoadSteps DEF ShapeInv
<1>5. CASE RestartProcess
    BY <1>5 DEF RestartProcess, LoadedValues
<1>6. CASE \/ \E i \in DOMAIN cache : Expire(i)
           \/ HealthProbe \/ Background \/ UNCHANGED vars
    BY <1>2, <1>6 DEF Expire, HealthProbe, HealthPrune, Background, middlewareVars, vars
<1> QED BY <1>3, <1>4, <1>5, <1>6 DEF MiddlewareNext

\* A write takes the content its request carries, or none.
EnqueueMove ==
    \E s \in Scopes, op \in Ops : \E c :
        /\ EnqueueTask(op, s, c)
        /\ \/ c = NoContent
           \/ \E t \in Threads : req[t] # NoRequest /\ req[t].scope = s /\ req[t].content = c

\* Snapshots are taken by the requests that queue a write, and by pruning.
LEMMA SnapshotMoves ==
    ASSUME ShapeInv, [MiddlewareNext]_vars
    PROVE  UNCHANGED <<snapshots, requested>> \/ EnqueueMove \/ PruneDeletes
<1>1. ASSUME NEW t \in Threads, Arrive(t)
      PROVE  UNCHANGED <<snapshots, requested>>
    BY <1>1 DEF Arrive, Start, Saturated, writerVars
<1>2. ASSUME NEW t \in Threads, Serve(t)
      PROVE  UNCHANGED <<snapshots, requested>> \/ EnqueueMove \/ PruneDeletes
    <2>1. CASE CheckResident(t) \/ Lookup(t)
        BY <2>1 DEF CheckResident, Lookup
    <2>2. CASE GateEnsure(t) \/ GateCheck(t)
        BY <2>2 DEF GateEnsure, GateCheck, EnsureWorkerRunning, StartRecovery, writerVars
    <2>3. CASE QueueDelete(t)
        <3>1. \/ UNCHANGED <<snapshots, requested>>
              \/ EnqueueTask("delete", req[t].victim.scope, NoContent)
            BY <2>3 DEF QueueDelete, writerVars
        <3>2. req[t].victim.scope \in Scopes
            <4>1. req[t].pc = "delete" /\ "delete" \in Stages
                BY <2>3 DEF QueueDelete, Stages
            <4> QED BY <4>1, Serving DEF StageOK
        <3> QED BY <3>1, <3>2 DEF EnqueueMove, Ops
    <2>4. CASE PersistSnapshot(t)
        <3>1. \/ UNCHANGED <<snapshots, requested>>
              \/ EnqueueTask("save", req[t].scope, req[t].content)
            BY <2>4 DEF PersistSnapshot, writerVars
        <3>2. req[t] # NoRequest /\ req[t].scope \in Scopes
            <4>1. req[t].pc = "enqueue" /\ "enqueue" \in Stages
                BY <2>4 DEF PersistSnapshot, Stages
            <4> QED BY <4>1, Serving
        <3> QED BY <3>1, <3>2 DEF EnqueueMove, Ops
    <2>5. CASE \/ GateRecovered(t) \/ GateRecheck(t) \/ GateDecide(t) \/ Load(t)
               \/ LoadFails(t) \/ Insert(t) \/ PopSession(t) \/ DestroyVault(t)
               \/ Redact(t) \/ EngineFails(t) \/ TakeSnapshot(t) \/ Rehydrate(t)
        <3>1. UNCHANGED writerVars /\ UNCHANGED snapshots
            BY <2>5 DEF GateRecovered, GateRecheck, GateDecide, Load, LoadFails, Insert,
                        PopSession, DestroyVault, Redact, EngineFails, TakeSnapshot, Rehydrate
        <3> QED BY <3>1 DEF writerVars
    <2> QED BY <1>2, <2>1, <2>2, <2>3, <2>4, <2>5 DEF Serve
<1>3. ASSUME NEW i \in DOMAIN cache, Expire(i)
      PROVE  UNCHANGED <<snapshots, requested>>
    BY <1>3 DEF Expire, writerVars
<1>4. CASE HealthProbe
    BY <1>4 DEF HealthProbe, HealthPrune, EnsureWorkerRunning, middlewareVars
<1>5. CASE Background
    <2>1. UNCHANGED snapshots
        BY <1>5 DEF Background, middlewareVars
    <2>2. UNCHANGED requested
        BY <1>5 DEF Background, WorkerTake, Perform, StoreSucceeds, StoreFails, RecordSuccess,
                    RecordFailure, CooldownElapses, WorkerDies
    <2> QED BY <2>1, <2>2
<1>6. CASE RestartProcess
    BY <1>6 DEF RestartProcess, Restart
<1>7. CASE UNCHANGED vars
    BY <1>7 DEF vars, writerVars, middlewareVars
<1> QED BY <1>1, <1>2, <1>3, <1>4, <1>5, <1>6, <1>7 DEF MiddlewareNext

\* So every snapshot holds values of its scope, and each accepted write has its own.
LEMMA StoredStep ==
    ASSUME ShapeInv, WrittenInv, ValuesInv, [MiddlewareNext]_vars
    PROVE  StoredValues'
<1> USE DEF ValuesInv
<1>1. requested \in [Scopes -> Nat]
    BY DEF WrittenInv, TypeOK
<1>2. ASSUME NEW s \in Scopes, NEW c \in Ledgers(s)
      PROVE  /\ Append(snapshots[s], c) \in Seq(Ledgers(s))
             /\ Len(Append(snapshots[s], c)) = requested[s] + 1
    BY <1>1, AppendProperties DEF StoredValues
<1>3. CASE UNCHANGED <<snapshots, requested>>
    BY <1>3 DEF StoredValues
<1>4. CASE EnqueueMove
    <2>0. PICK s \in Scopes, op \in Ops : \E c :
             /\ EnqueueTask(op, s, c)
             /\ \/ c = NoContent
                \/ \E t \in Threads : req[t] # NoRequest /\ req[t].scope = s /\ req[t].content = c
        BY <1>4 DEF EnqueueMove
    <2>1. PICK c :
             /\ EnqueueTask(op, s, c)
             /\ \/ c = NoContent
                \/ \E t \in Threads : req[t] # NoRequest /\ req[t].scope = s /\ req[t].content = c
        BY <2>0
    <2>2. c \in Ledgers(s)
        BY <2>1, EmptyLedger DEF LoadedValues
    <2>3. /\ snapshots' = [snapshots EXCEPT ![s] = Append(@, c)]
          /\ requested' = [requested EXCEPT ![s] = @ + 1]
        BY <2>1 DEF EnqueueTask, Enqueue
    <2>4. DOMAIN snapshots' = Scopes
        BY <2>3 DEF StoredValues
    <2>5. ASSUME NEW r \in Scopes
          PROVE  snapshots'[r] \in Seq(Ledgers(r)) /\ Len(snapshots'[r]) = requested'[r]
        <3>1. CASE r = s
            <4>1. snapshots'[s] = Append(snapshots[s], c) /\ requested'[s] = requested[s] + 1
                BY <1>1, <2>3 DEF StoredValues
            <4> QED BY <1>2, <2>2, <3>1, <4>1
        <3>2. CASE r # s
            <4>1. snapshots'[r] = snapshots[r] /\ requested'[r] = requested[r]
                BY <1>1, <2>3, <3>2 DEF StoredValues
            <4> QED BY <4>1 DEF StoredValues
        <3> QED BY <3>1, <3>2
    <2> QED BY <2>4, <2>5 DEF StoredValues
<1>5. CASE PruneDeletes
    <2>1. /\ DOMAIN snapshots' = Scopes
          /\ \A s \in Scopes :
                \/ /\ requested'[s] = requested[s] + 1
                   /\ snapshots'[s] = Append(snapshots[s], NoContent)
                \/ requested'[s] = requested[s] /\ snapshots'[s] = snapshots[s]
        BY <1>5 , PruneWrites DEF ShapeInv, CacheInv, WrittenInv
    <2>2. ASSUME NEW s \in Scopes
          PROVE  snapshots'[s] \in Seq(Ledgers(s)) /\ Len(snapshots'[s]) = requested'[s]
        <3>1. CASE /\ requested'[s] = requested[s] + 1
                   /\ snapshots'[s] = Append(snapshots[s], NoContent)
            BY <1>2, <3>1, EmptyLedger
        <3>2. CASE requested'[s] = requested[s] /\ snapshots'[s] = snapshots[s]
            BY <3>2 DEF StoredValues
        <3> QED BY <2>1, <3>1, <3>2
    <2> QED BY <2>1, <2>2 DEF StoredValues
<1> QED BY <1>3, <1>4, <1>5, SnapshotMoves

\* What a step answers, and what it adds to the answers of a scope.
AnswerMove ==
    /\ config' = config
    /\ \/ UNCHANGED reply
       \/ reply'.outcome # "clean"
       \/ \E t \in Threads :
             /\ req[t] # NoRequest /\ req[t].vault \in VaultIds
             /\ \E i \in DOMAIN heap[req[t].vault] :
                   reply'.scope = req[t].scope /\ reply'.content[2] = heap[req[t].vault][i]
    /\ DOMAIN issued' = Scopes /\ DOMAIN corrections' = Scopes
    /\ \A s \in Scopes : \A pair \in issued'[s] :
          \/ pair \in issued[s]
          \/ \E t \in Threads :
                /\ req[t] # NoRequest /\ req[t].kind = "redact" /\ req[t].scope = s
                /\ pair[2] = req[t].arg

\* Answers that carry no value of a vault.
LEMMA OtherAnswers ==
    ASSUME NEW t, NEW o, NEW c, Answer(t, o, c), o # "clean"
    PROVE  reply'.outcome # "clean"
BY DEF Answer

\* A failure is no clean answer.
LEMMA FailAnswers ==
    ASSUME NEW t, Fail(t)
    PROVE  reply'.outcome # "clean"
BY DEF Fail, Answer

\* A redaction answers the value it was given, a rehydration one its vault holds.
LEMMA AnswerMoves ==
    ASSUME ShapeInv, AnsweredValues, [MiddlewareNext]_vars
    PROVE  AnswerMove
<1> USE DEF AnsweredValues
<1>1. ASSUME NEW t \in Threads, Arrive(t)
      PROVE  AnswerMove
    <2>1. ASSUME NEW kind, NEW s, NEW closed, NEW arg, NEW latest,
                 Start(t, kind, s, arg, latest, closed)
          PROVE  AnswerMove
        BY <2>1 DEF Start, AnswerMove
    <2>2. ASSUME NEW kind, NEW s, Saturated(kind, s)
          PROVE  AnswerMove
        <3>1. reply'.outcome = "saturated" /\ UNCHANGED <<config, issued, corrections>>
            BY <2>2 DEF Saturated
        <3> QED BY <3>1 DEF AnswerMove
    <2> QED BY <1>1, <2>1, <2>2 DEF Arrive
<1>2. ASSUME NEW t \in Threads, Serve(t)
      PROVE  AnswerMove
    <2>1. CASE \/ CheckResident(t) \/ GateEnsure(t) \/ GateCheck(t) \/ GateRecovered(t)
               \/ GateRecheck(t) \/ Insert(t) \/ TakeSnapshot(t)
        <3>1. UNCHANGED <<config, reply, issued, corrections>>
            BY <2>1 DEF CheckResident, GateEnsure, GateCheck, GateRecovered, GateRecheck,
                        Insert, TakeSnapshot, Goto, Continue, boundVars
        <3> QED BY <3>1 DEF AnswerMove
    <2>2. CASE \/ GateDecide(t) \/ Lookup(t) \/ Load(t) \/ LoadFails(t)
        <3>1. UNCHANGED <<config, issued, corrections>> /\ (UNCHANGED reply \/ Fail(t))
            BY <2>2 DEF GateDecide, Lookup, Load, LoadFails, Goto, Continue,
                        boundVars
        <3> QED BY <3>1, FailAnswers DEF AnswerMove
    <2>9. CASE EngineFails(t)
        <3>1. /\ UNCHANGED <<config, issued>> /\ Fail(t)
              /\ corrections' = corrections \/ \E r, C : corrections' = [corrections EXCEPT ![r] = C]
            BY <2>9 DEF EngineFails
        <3> QED BY <3>1, FailAnswers DEF AnswerMove
    <2>3. CASE PopSession(t)
        <3>1. UNCHANGED <<config, issued, corrections>> /\ (UNCHANGED reply \/ Answer(t, "not_found", NoContent))
            BY <2>3 DEF PopSession, Continue, boundVars
        <3> QED BY <3>1, OtherAnswers DEF AnswerMove
    <2>4. CASE QueueDelete(t)
        <3>1. UNCHANGED config /\ (UNCHANGED reply \/ Answer(t, "raised", NoContent))
            BY <2>4 DEF QueueDelete, Goto, Continue, boundVars
        <3>2. /\ DOMAIN issued' = Scopes /\ DOMAIN corrections' = Scopes
              /\ \A s \in Scopes : issued'[s] \subseteq issued[s]
            <4>1. UNCHANGED <<issued, corrections>> \/ \E S : Forget(S)
                BY <2>4 DEF QueueDelete
            <4> QED BY <4>1 DEF Forget
        <3> QED BY <3>1, <3>2, OtherAnswers DEF AnswerMove
    <2>5. CASE DestroyVault(t)
        <3>1. UNCHANGED <<config, issued, corrections>> /\ (UNCHANGED reply \/ Answer(t, "destroyed", NoContent))
            BY <2>5 DEF DestroyVault, Continue, boundVars
        <3> QED BY <3>1, OtherAnswers DEF AnswerMove
    <2>6. CASE Redact(t)
        <3> DEFINE pair == <<TokenOf(heap[req[t].vault], req[t].arg, req[t].latest), req[t].arg>>
        <3>1. /\ UNCHANGED config
              /\ UNCHANGED reply \/ Answer(t, "token", pair)
              /\ issued' = issued \/ issued' = [issued EXCEPT ![req[t].scope] = Issued(@, pair)]
              /\ corrections' = corrections \/ \E r, C : corrections' = [corrections EXCEPT ![r] = C]
              /\ req[t].pc = "engine" /\ req[t].kind = "redact"
            BY <2>6 DEF Redact, Continue, boundVars
        <3>2. req[t] # NoRequest /\ pair[2] = req[t].arg
            BY <3>1 DEF NoRequest
        <3> HIDE DEF pair
        <3> QED BY <3>1, <3>2, OtherAnswers DEF AnswerMove, Issued, OtherTokens
    <2>7. CASE PersistSnapshot(t)
        <3> DEFINE pair == <<req[t].token, req[t].arg>>
        <3>1. /\ UNCHANGED config
              /\ Answer(t, "token", pair) \/ Fail(t)
              /\ issued' = issued \/ issued' = [issued EXCEPT ![req[t].scope] = Issued(@, pair)]
              /\ corrections' = corrections \/ \E r, C : corrections' = [corrections EXCEPT ![r] = C]
              /\ req[t].pc = "enqueue"
            BY <2>7 DEF PersistSnapshot, boundVars
        <3>2. req[t] # NoRequest /\ req[t].kind = "redact"
            <4>1. req[t].pc \in Stages
                BY <3>1 DEF Stages
            <4> QED BY <3>1, <4>1, Serving DEF StageOK
        <3>3. pair[2] = req[t].arg
            OBVIOUS
        <3> HIDE DEF pair
        <3> QED BY <3>1, <3>2, <3>3, OtherAnswers, FailAnswers DEF AnswerMove, Issued, OtherTokens
    <2>8. CASE Rehydrate(t)
        <3> DEFINE c == heap[req[t].vault]
                   i == req[t].arg
        <3>1. /\ UNCHANGED <<config, issued, corrections>> /\ req[t].pc = "engine"
              /\ \/ i \in DOMAIN c /\ Answer(t, "clean", <<i, c[i]>>)
                 \/ Answer(t, "unresolved", NoContent)
            BY <2>8 DEF Rehydrate, boundVars
        <3>2. req[t] # NoRequest /\ req[t].vault \in VaultIds
            <4>1. req[t].pc \in Stages
                BY <3>1 DEF Stages
            <4> QED BY <3>1, <4>1, Serving DEF StageOK
        <3>3. Answer(t, "clean", <<i, c[i]>>) =>
                  reply'.scope = req[t].scope /\ reply'.content[2] = c[i]
            BY DEF Answer
        <3> QED BY <3>1, <3>2, <3>3, OtherAnswers DEF AnswerMove
    <2> QED BY <1>2, <2>1, <2>2, <2>3, <2>4, <2>5, <2>6, <2>7, <2>8, <2>9 DEF Serve
<1>3. CASE \/ \E i \in DOMAIN cache : Expire(i)
           \/ HealthProbe \/ Background \/ UNCHANGED vars
    <2>1. UNCHANGED <<config, reply, issued, corrections>>
        BY <1>3 DEF Expire, HealthProbe, HealthPrune, Background, middlewareVars, vars, boundVars
    <2> QED BY <2>1 DEF AnswerMove
<1>4. CASE RestartProcess
    <2>1. UNCHANGED <<config, reply>> /\ \E S : Forget(S)
        BY <1>4 DEF RestartProcess, boundVars
    <2>2. /\ DOMAIN issued' = Scopes /\ DOMAIN corrections' = Scopes
          /\ \A s \in Scopes : issued'[s] \subseteq issued[s]
        BY <2>1 DEF Forget
    <2> QED BY <2>1, <2>2 DEF AnswerMove
<1> QED BY <1>1, <1>2, <1>3, <1>4 DEF MiddlewareNext

\* So an answer carries values of its own scope.
LEMMA AnsweredStep ==
    ASSUME ShapeInv, ValuesInv, [MiddlewareNext]_vars
    PROVE  AnsweredValues'
<1> USE DEF ValuesInv
<1>1. AnswerMove
    BY AnswerMoves
<1>2. config' \in Configs /\ DOMAIN issued' = Scopes /\ DOMAIN corrections' = Scopes
    BY <1>1 DEF AnswerMove, AnsweredValues
<1>3. ASSUME NEW s \in Scopes, NEW pair \in issued'[s]
      PROVE  pair[2] \in ValuesOf(s)
    <2>1. CASE pair \in issued[s]
        BY <2>1 DEF AnsweredValues
    <2>2. ASSUME NEW t \in Threads, req[t] # NoRequest, req[t].kind = "redact",
                 req[t].scope = s, pair[2] = req[t].arg
          PROVE  pair[2] \in ValuesOf(s)
        BY <2>2 DEF ShapeInv, StagesInv, StageOK
    <2> QED BY <1>1, <2>1, <2>2 DEF AnswerMove
<1>4. ASSUME reply'.outcome = "clean"
      PROVE  reply'.content[2] \in ValuesOf(reply'.scope)
    <2>1. CASE UNCHANGED reply
        BY <1>4, <2>1 DEF AnsweredValues
    <2>2. ASSUME NEW t \in Threads, req[t] # NoRequest, req[t].vault \in VaultIds,
                 NEW i \in DOMAIN heap[req[t].vault],
                 reply'.scope = req[t].scope, reply'.content[2] = heap[req[t].vault][i]
          PROVE  reply'.content[2] \in ValuesOf(reply'.scope)
        <3>1. heap[req[t].vault] \in Ledgers(req[t].scope)
            BY <2>2, RequestLedger
        <3> QED BY <2>2, <3>1 DEF Ledgers
    <2> QED BY <1>1, <1>4, <2>1, <2>2 DEF AnswerMove
<1> QED BY <1>2, <1>3, <1>4 DEF AnsweredValues

\* Whatever a scope holds, has stored or is answered is made of its own values.
THEOREM ValuesInvariant == MiddlewareSpec => []ValuesInv
<1>1. Init => ValuesInv
    <2> SUFFICES ASSUME Init PROVE ValuesInv
        OBVIOUS
    <2>1. 1 \in 1 .. ValuesPerContext
        BY MiddlewareAssumption
    <2>2. \A s : Saved(s) => FirstValue(s) \in ValuesOf(s)
        <3> SUFFICES ASSUME NEW s, Saved(s) PROVE FirstValue(s) \in ValuesOf(s)
            OBVIOUS
        <3>1. ContextsOf(s) # {}
            BY MiddlewareAssumption DEF Saved
        <3>2. (CHOOSE c \in ContextsOf(s) : TRUE) \in ContextsOf(s)
            BY <3>1
        <3>3. \A d \in ContextsOf(s) : Value(d, 1) \in ValuesOf(s)
            BY <2>1 DEF ValuesOf
        <3>4. FirstValue(s) = Value(CHOOSE c \in ContextsOf(s) : TRUE, 1)
            BY DEF FirstValue
        <3> QED BY <3>2, <3>3, <3>4
    <2>3. HeapValues
        <3>1. \A s, v : ~Owner(cache, req, s, v)
            BY DEF Init, Owner, Holds
        <3>2. NoContent \in Contents
            BY DEF NoContent, Contents
        <3>3. heap = [v \in VaultIds |-> NoContent]
            BY DEF Init
        <3> QED BY <3>1, <3>2, <3>3 DEF HeapValues
    <2>4. LoadedValues
        BY DEF Init, LoadedValues
    <2>5. StoredValues
        <3>1. snapshots = [s \in Scopes |-> IF Saved(s) THEN <<<<FirstValue(s)>>>> ELSE <<>>]
            BY DEF Init
        <3>2. requested = [s \in Scopes |-> IF Saved(s) THEN 1 ELSE 0]
            BY DEF Init
        <3>3. \A s : Saved(s) => <<FirstValue(s)>> \in Ledgers(s)
            BY <2>2 DEF Ledgers
        <3>4. ASSUME NEW s \in Scopes
              PROVE  snapshots[s] \in Seq(Ledgers(s)) /\ Len(snapshots[s]) = requested[s]
            <4> DEFINE c == <<FirstValue(s)>>
            <4>1. Saved(s) => c \in Ledgers(s)
                BY <3>3
            <4>2. snapshots[s] = IF Saved(s) THEN <<c>> ELSE <<>>
                BY <3>1
            <4> HIDE DEF c
            <4> QED BY <3>2, <4>1, <4>2
        <3>5. DOMAIN snapshots = Scopes
            BY <3>1
        <3> QED BY <3>4, <3>5 DEF StoredValues
    <2>6. AnsweredValues
        <3>1. /\ config \in Configs /\ reply.outcome = "none"
              /\ corrections = [s \in Scopes |-> {}]
              /\ issued = [s \in Scopes |-> IF Saved(s) THEN {<<1, FirstValue(s)>>} ELSE {}]
            BY DEF Init
        <3> QED BY <2>2, <3>1 DEF AnsweredValues
    <2> QED BY <2>3, <2>4, <2>5, <2>6 DEF ValuesInv
<1>2. ShapeInv /\ OwnershipInv /\ WrittenInv /\ ValuesInv /\ [MiddlewareNext]_vars => ValuesInv'
    BY EveryVaultStep, HeapValuesStep, LoadedStep, StoredStep, AnsweredStep DEF StepOK, ValuesInv
<1> QED BY <1>1, <1>2, ShapeInvariant, OwnershipInvariant, WrittenInvariant, PTL
        DEF MiddlewareSpec

\* Isolation of sessions, for every number of threads, contexts, keys, vaults and
\* failures: nothing a scope holds, has stored or is answered was disclosed under another
\* key.  Contexts with equal keys are one scope to the code (ScopeContext.key).
THEOREM NothingLeaksBetweenScopes == MiddlewareSpec => []ScopesIsolated
<1>1. ShapeInv /\ WrittenInv /\ ValuesInv => ScopesIsolated
    <2> SUFFICES ASSUME ShapeInv, WrittenInv, ValuesInv PROVE ScopesIsolated
        OBVIOUS
    <2> USE DEF ValuesInv
    <2>1. \A s, c : c \in Ledgers(s) => OwnValues(s, c)
        <3> SUFFICES ASSUME NEW s, NEW c \in Ledgers(s), NEW i \in DOMAIN c
                     PROVE  Key(c[i][1]) = s
            BY DEF OwnValues
        <3>1. c[i] \in ValuesOf(s)
            BY DEF Ledgers
        <3> QED BY <3>1 DEF ValuesOf, Value, ContextsOf
    <2>2. \A i \in DOMAIN cache : OwnValues(cache[i].scope, heap[cache[i].vault])
        <3> SUFFICES ASSUME NEW i \in DOMAIN cache
                     PROVE  heap[cache[i].vault] \in Ledgers(cache[i].scope)
            BY <2>1
        <3>1. Owner(cache, req, cache[i].scope, cache[i].vault)
            BY DEF Owner, Holds
        <3> QED BY <3>1 DEF HeapValues
    <2>3. \A t \in Threads : req[t].pc # "idle" /\ req[t].vault # NoVault
                                 => OwnValues(req[t].scope, heap[req[t].vault])
        <3> SUFFICES ASSUME NEW t \in Threads, req[t].pc # "idle", req[t].vault # NoVault
                     PROVE  heap[req[t].vault] \in Ledgers(req[t].scope)
            BY <2>1
        <3>1. req[t] # NoRequest
            BY StageFacts DEF ShapeInv
        <3>2. Owner(cache, req, req[t].scope, req[t].vault)
            BY <3>1 DEF Owner
        <3> QED BY <3>2 DEF HeapValues
    <2>4. \A s \in Scopes : OwnValues(s, Row(s))
        BY <2>1, RowLedger
    <2>5. \A s : \A v \in ValuesOf(s) : Key(v[1]) = s
        BY DEF ValuesOf, Value, ContextsOf
    <2> QED BY <2>2, <2>3, <2>4, <2>5 DEF ScopesIsolated, AnsweredValues
<1> QED BY <1>1, ShapeInvariant, WrittenInvariant, ValuesInvariant, PTL

\* Type correctness of the orchestrator and of the writer under it; the cache never
\* outgrows max_active_scopes.
THEOREM MiddlewareTypeCorrect == MiddlewareSpec => []MiddlewareTypeOK
<1>1. ShapeInv /\ WrittenInv /\ ValuesInv => MiddlewareTypeOK
    <2> SUFFICES ASSUME ShapeInv, WrittenInv, ValuesInv PROVE MiddlewareTypeOK
        OBVIOUS
    <2>1. \A i \in DOMAIN cache : cache[i] \in Entries
        BY DEF ShapeInv, CacheInv, IsCache
    <2>2. popped \subseteq VaultIds
        <3> SUFFICES ASSUME NEW v \in popped PROVE v \in VaultIds
            OBVIOUS
        <3>1. v \in Held(cache, req)
            BY DEF ShapeInv, HeapInv
        <3>2. CASE \E i \in DOMAIN cache : cache[i].vault = v
            BY <2>1, <3>2 DEF Entries
        <3>3. ASSUME NEW t \in Threads, v \in Uses(req[t])
              PROVE  v \in VaultIds
            <4>1. req[t] # NoRequest
                BY <3>3 DEF Uses, NoRequest
            <4> QED BY <3>3, <4>1 DEF Uses, ShapeInv, StagesInv, StageOK, NoVictim
        <3> QED BY <3>1, <3>2, <3>3, HeldFacts
    <2>3. ASSUME NEW t \in Threads, req[t] # NoRequest
          PROVE  /\ req[t].pc \in Stages
                 /\ req[t].kind \in Kinds /\ req[t].scope \in Scopes
                 /\ req[t].vault \in VaultIds \cup {NoVault}
                 /\ req[t].content \in Contents
        <3>1. req[t].pc \in Stages /\ req[t].kind \in Kinds /\ req[t].scope \in Scopes
            BY <2>3 DEF ShapeInv, ReqShape
        <3>2. req[t].content \in Ledgers(req[t].scope)
            BY <2>3 DEF ValuesInv, LoadedValues
        <3>3. req[t].content \in Contents
            BY <3>1, <3>2, LedgerContents
        <3> QED BY <2>3, <3>1, <3>3 DEF ShapeInv, StagesInv, StageOK
    <2> QED BY <2>1, <2>2, <2>3 DEF MiddlewareTypeOK, WrittenInv, ValuesInv, AnsweredValues,
               HeapValues, StoredValues, ShapeInv, CacheInv, Entries
<1> QED BY <1>1, ShapeInvariant, WrittenInvariant, ValuesInvariant, PTL
================================================================================
