------------------------ MODULE AddressCache_proofs ------------------------
(***************************************************************************)
(* The cache of adapter addresses keeps what FreshAddress promises, for    *)
(* every number of callers and addresses and every TTL and timeout.        *)
(***************************************************************************)
EXTENDS AddressCache, TLAPS

USE AddressCacheAssumption DEF Key

LEMMA InitEstablishes == Init => IInv
<1> SUFFICES ASSUME Init PROVE IInv
  OBVIOUS
<1>1. TypeOK
  BY DEF Init, TypeOK, NoEntry
<1>2. OneQueryPerKey
  BY DEF Init, OneQueryPerKey, Querying
<1>3. AgesBounded
  BY DEF Init, AgesBounded, Querying, NoEntry
<1>. QED  BY <1>1, <1>2, <1>3 DEF IInv

(* Had survives a change of the address, up to the time of the change. *)
LEMMA HadKept ==
  ASSUME TypeOK, NEW k \in Key, NEW a \in Address \cup {NoAddress}, Change(k, a),
         NEW k2 \in Key, NEW b, NEW t \in Nat, NEW d \in Nat, t <= now + d, Had(k2, b, t, d)
  PROVE  Had(k2, b, t, d)'
BY DEF TypeOK, Change, Had

LEMMA TickKeeps == ASSUME IInv, Tick PROVE IInv'
<1>1. TypeOK'
  BY DEF IInv, TypeOK, Tick, store
<1>2. OneQueryPerKey'
  BY DEF IInv, OneQueryPerKey, Querying, Tick, store
<1>3. AgesBounded'
  <2>1. \A k \in Key : cache'[k] # NoEntry =>
          cache'[k].expiresAt <= now' + TTL /\ Had(k, cache[k].ip, cache[k].expiresAt, MaxAge)'
    BY DEF IInv, TypeOK, AgesBounded, Tick, store, Had
  <2>2. ASSUME NEW c \in Caller PROVE Querying(c)' => started'[c] <= now' /\ now' <= started'[c] + QueryTimeout
    BY DEF IInv, TypeOK, AgesBounded, Tick, store, Querying
  <2>3. ASSUME NEW c \in Caller PROVE pc'[c] = "read" => Had(key[c], found[c], started[c], 0)'
    BY DEF IInv, TypeOK, AgesBounded, Tick, store, Had
  <2>4. ASSUME NEW c \in Caller PROVE pc'[c] # "woken"
    BY DEF Tick, store
  <2>. QED  BY <2>1, <2>2, <2>3, <2>4, Zenon DEF AgesBounded
<1>. QED  BY <1>1, <1>2, <1>3 DEF IInv

LEMMA ChangeKeeps ==
  ASSUME IInv, NEW k \in Key, NEW a \in Address \cup {NoAddress}, Change(k, a) PROVE IInv'
<1>1. TypeOK'
  BY DEF IInv, TypeOK, Change, store
<1>2. OneQueryPerKey'
  BY DEF IInv, OneQueryPerKey, Querying, Change, store
<1>3. AgesBounded'
  <2>0. TypeOK /\ MaxAge \in Nat /\ TTL <= MaxAge
    BY DEF IInv, MaxAge
  <2>1. ASSUME NEW k2 \in Key, cache'[k2] # NoEntry
        PROVE  cache'[k2].expiresAt <= now' + TTL /\ Had(k2, cache[k2].ip, cache[k2].expiresAt, MaxAge)'
    <3>1. cache[k2].expiresAt <= now + TTL /\ Had(k2, cache[k2].ip, cache[k2].expiresAt, MaxAge)
      BY <2>1 DEF IInv, AgesBounded, Change, store
    <3>2. cache[k2].expiresAt \in Nat /\ now \in Nat /\ UNCHANGED <<now, cache>>
      BY <2>0 DEF TypeOK, Change, store
    <3>3. cache[k2].expiresAt <= now + MaxAge
      BY <2>0, <3>1, <3>2
    <3>. QED  BY <2>0, <3>1, <3>2, <3>3, HadKept DEF Had
  <2>2. ASSUME NEW c \in Caller
        PROVE  /\ Querying(c)' => started'[c] <= now' /\ now' <= started'[c] + QueryTimeout
               /\ pc'[c] = "read" => Had(key[c], found[c], started[c], 0)'
               /\ pc'[c] = "woken" /\ found'[c] # NoAddress => Had(key[c], found[c], now, QueryTimeout)'
    <3>1. /\ UNCHANGED <<now, store, pc, key, started, found>>
          /\ key[c] \in Key /\ started[c] \in Nat /\ now \in Nat
      BY <2>0 DEF TypeOK, Change, store
    <3>2. /\ Querying(c) => started[c] <= now /\ now <= started[c] + QueryTimeout
          /\ pc[c] = "read" => Had(key[c], found[c], started[c], 0)
          /\ pc[c] = "woken" /\ found[c] # NoAddress => Had(key[c], found[c], now, QueryTimeout)
      BY DEF IInv, AgesBounded
    <3>3. pc[c] = "read" => started[c] <= now + 0
      BY <3>1, <3>2 DEF Querying
    <3>. QED  BY <2>0, <3>1, <3>2, <3>3, HadKept DEF Had, Querying
  <2>. QED  BY <2>1, <2>2, Zenon DEF AgesBounded
<1>. QED  BY <1>1, <1>2, <1>3 DEF IInv

LEMMA ClearKeeps == ASSUME IInv, ClearAddressCache PROVE IInv'
<1>1. TypeOK'
  BY DEF IInv, TypeOK, ClearAddressCache, world, NoEntry
<1>2. OneQueryPerKey'
  BY DEF IInv, OneQueryPerKey, Querying, ClearAddressCache
<1>3. AgesBounded'
  BY DEF IInv, AgesBounded, Querying, ClearAddressCache, world, Had
<1>. QED  BY <1>1, <1>2, <1>3 DEF IInv
-----------------------------------------------------------------------------
(* A caller without a query that goes on without starting or joining one     *)
(* changes only what is its own.                                             *)
Moves(c) ==
  /\ ~Querying(c) /\ pc'[c] \in {"idle", "cached", "flight"}
  /\ \A d \in Caller \ {c} : pc'[d] = pc[d] /\ key'[d] = key[d] /\ found'[d] = found[d]
  /\ UNCHANGED <<now, address, until, inflight, started>>
  /\ \A k \in Key : cache'[k] \in {cache[k], NoEntry}

LEMMA MovesKeeps == ASSUME IInv, TypeOK', NEW c \in Caller, Moves(c) PROVE IInv'
<1>1. OneQueryPerKey'
  <2>1. \A k \in Key : inflight[k] # c
    BY DEF IInv, TypeOK, OneQueryPerKey, Moves
  <2>2. ASSUME NEW d \in Caller PROVE
          /\ Querying(d)' <=> inflight'[key'[d]] = d
          /\ pc'[d] = "joined" => inflight'[key'[d]] # NoCaller
    BY <2>1 DEF IInv, TypeOK, OneQueryPerKey, Moves, Querying
  <2>3. \A k \in Key : inflight'[k] # NoCaller => key'[inflight'[k]] = k
    BY <2>1 DEF IInv, TypeOK, OneQueryPerKey, Moves
  <2>. QED  BY <2>2, <2>3 DEF OneQueryPerKey
<1>2. AgesBounded'
  <2>1. ASSUME NEW k \in Key, cache'[k] # NoEntry
        PROVE  cache'[k].expiresAt <= now' + TTL /\ Had(k, cache[k].ip, cache[k].expiresAt, MaxAge)'
    <3>1. cache'[k] = cache[k] /\ UNCHANGED <<now, address, until>>
      BY <2>1 DEF Moves
    <3>. QED  BY <2>1, <3>1 DEF IInv, AgesBounded, Had
  <2>2. ASSUME NEW d \in Caller
        PROVE  /\ Querying(d)' => started'[d] <= now' /\ now' <= started'[d] + QueryTimeout
               /\ pc'[d] = "read" => Had(key[d], found[d], started[d], 0)'
               /\ pc'[d] = "woken" /\ found'[d] # NoAddress => Had(key[d], found[d], now, QueryTimeout)'
    <3>1. CASE d = c
      BY <3>1 DEF Moves, Querying
    <3>2. CASE d # c
      <4>1. pc'[d] = pc[d] /\ key'[d] = key[d] /\ found'[d] = found[d]
            /\ UNCHANGED <<now, address, until, started>>
        BY <3>2 DEF Moves
      <4>. QED  BY <4>1 DEF IInv, AgesBounded, Querying, Had
    <3>. QED  BY <3>1, <3>2
  <2>. QED  BY <2>1, <2>2, Zenon DEF AgesBounded
<1>. QED  BY <1>1, <1>2 DEF IInv

LEMMA ReturnTypes ==
  ASSUME TypeOK, NEW c \in Caller, NEW a \in Address \cup {NoAddress}, Return(c, a)
  PROVE  /\ key' \in [Caller -> Key] /\ answer' \in [Caller -> Address \cup {NoAddress}]
         /\ NextStop(c, a) \in {"idle", "cached"}
         /\ \A d \in Caller \ {c} : key'[d] = key[d]
BY DEF TypeOK, Return, NextStop

LEMMA LookupMoves ==
  ASSUME IInv, NEW c \in Caller,
         BuildDirectDialer(c) \/ CacheHit(c) \/ CacheMiss(c) \/ FlightHit(c) \/ Wake(c)
  PROVE  IInv'
<1>0. TypeOK
  BY DEF IInv
<1>1. CASE BuildDirectDialer(c)
  <2>1. TypeOK'
    BY <1>0, <1>1 DEF TypeOK, BuildDirectDialer, Goto, world, store
  <2>2. Moves(c)
    BY <1>0, <1>1 DEF TypeOK, BuildDirectDialer, Goto, world, store, Moves, Querying
  <2>. QED  BY <2>1, <2>2, MovesKeeps
<1>2. CASE CacheHit(c)
  <2>0. cache[key[c]].ip \in Address \cup {NoAddress}
    BY <1>0 DEF TypeOK
  <2>1. TypeOK'
    BY <1>0, <1>2, <2>0, ReturnTypes DEF TypeOK, CacheHit, Goto, world, store
  <2>2. Moves(c)
    BY <1>0, <1>2, <2>0, ReturnTypes DEF TypeOK, CacheHit, Goto, world, store, Moves, Querying
  <2>. QED  BY <2>1, <2>2, MovesKeeps
<1>3. CASE CacheMiss(c)
  <2>1. TypeOK'
    BY <1>0, <1>3 DEF TypeOK, CacheMiss, Goto, world, NoEntry
  <2>2. Moves(c)
    BY <1>0, <1>3 DEF TypeOK, CacheMiss, Goto, world, Moves, Querying
  <2>. QED  BY <2>1, <2>2, MovesKeeps
<1>4. CASE FlightHit(c)
  <2>0. cache[key[c]].ip \in Address \cup {NoAddress}
    BY <1>0 DEF TypeOK
  <2>1. TypeOK'
    BY <1>0, <1>4, <2>0, ReturnTypes DEF TypeOK, FlightHit, Goto, world, store
  <2>2. Moves(c)
    BY <1>0, <1>4, <2>0, ReturnTypes DEF TypeOK, FlightHit, Goto, world, store, Moves, Querying
  <2>. QED  BY <2>1, <2>2, MovesKeeps
<1>5. CASE Wake(c)
  <2>0. found[c] \in Address \cup {NoAddress}
    BY <1>0 DEF TypeOK
  <2>1. TypeOK'
    BY <1>0, <1>5, <2>0, ReturnTypes DEF TypeOK, Wake, Goto, world, store
  <2>2. Moves(c)
    BY <1>0, <1>5, <2>0, ReturnTypes DEF TypeOK, Wake, Goto, world, store, Moves, Querying
  <2>. QED  BY <2>1, <2>2, MovesKeeps
<1>. QED  BY <1>1, <1>2, <1>3, <1>4, <1>5

LEMMA JoinKeeps == ASSUME IInv, NEW c \in Caller, Join(c) PROVE IInv'
<1>1. TypeOK'
  BY DEF IInv, TypeOK, Join, Goto, world, store
<1>2. OneQueryPerKey'
  BY DEF IInv, TypeOK, OneQueryPerKey, Querying, Join, Goto, world, store
<1>3. AgesBounded'
  BY DEF IInv, TypeOK, AgesBounded, Querying, Join, Goto, world, store, Had
<1>. QED  BY <1>1, <1>2, <1>3 DEF IInv

LEMMA FlyKeeps == ASSUME IInv, NEW c \in Caller, Fly(c) PROVE IInv'
<1>0. TypeOK
  BY DEF IInv
<1>1. TypeOK'
  BY <1>0 DEF TypeOK, Fly, Goto, world
<1>2. OneQueryPerKey'
  <2>1. \A k \in Key : inflight[k] # c
    BY <1>0 DEF IInv, TypeOK, OneQueryPerKey, Fly, Querying
  <2>. QED  BY <1>0, <2>1 DEF IInv, TypeOK, OneQueryPerKey, Querying, Fly, Goto, world
<1>3. AgesBounded'
  BY <1>0 DEF IInv, TypeOK, AgesBounded, Querying, Fly, Goto, world, Had
<1>. QED  BY <1>1, <1>2, <1>3 DEF IInv

LEMMA ReadKeeps == ASSUME IInv, NEW c \in Caller, ScriptReads(c) PROVE IInv'
<1>0. TypeOK
  BY DEF IInv
<1>1. TypeOK'
  BY <1>0 DEF TypeOK, ScriptReads, Goto, world, store
<1>2. OneQueryPerKey'
  BY <1>0 DEF IInv, TypeOK, OneQueryPerKey, Querying, ScriptReads, Goto, world, store
<1>3. AgesBounded'
  BY <1>0 DEF IInv, TypeOK, AgesBounded, Querying, ScriptReads, Goto, world, store, Had
<1>. QED  BY <1>1, <1>2, <1>3 DEF IInv
-----------------------------------------------------------------------------
(* A query that ends, with an answer or without one: its flight is over and  *)
(* those who joined it have what it found.                                   *)
Landing(c, a) ==
  /\ Querying(c) /\ Land(c) /\ Publish(c, a) /\ Return(c, a)
  /\ UNCHANGED <<now, address, until>>

LEMMA LandingFlights ==
  ASSUME IInv, NEW c \in Caller, NEW a \in Address \cup {NoAddress}, Landing(c, a)
  PROVE  OneQueryPerKey'
<1>0. TypeOK
  BY DEF IInv
<1>1. inflight[key[c]] = c /\ \A k \in Key : inflight[k] = c => k = key[c]
  BY <1>0 DEF IInv, OneQueryPerKey, Landing, TypeOK
<1>2. /\ inflight'[key[c]] = NoCaller
      /\ \A k \in Key \ {key[c]} : inflight'[k] = inflight[k]
  BY <1>0 DEF Landing, Land, TypeOK
<1>3. /\ \A d \in Caller \ {c} : key'[d] = key[d]
      /\ NextStop(c, a) \in {"idle", "cached"} /\ key'[c] \in Key
  BY <1>0, ReturnTypes DEF Landing
<1>4. pc'[c] \in {"idle", "cached"}
  BY <1>0, <1>3 DEF Landing, Publish, Joiners, Querying
<1>5. ASSUME NEW d \in Caller \ {c}
      PROVE pc'[d] = IF pc[d] = "joined" /\ key[d] = key[c] THEN "woken" ELSE pc[d]
  BY <1>0 DEF Landing, Publish, Joiners
<1>6. ASSUME NEW d \in Caller PROVE
        /\ Querying(d)' <=> inflight'[key'[d]] = d
        /\ pc'[d] = "joined" => inflight'[key'[d]] # NoCaller
  <2>1. CASE d = c
    BY <1>1, <1>2, <1>3, <1>4, <2>1 DEF Querying
  <2>2. CASE d # c /\ key[d] = key[c]
    BY <1>0, <1>1, <1>2, <1>3, <1>5, <2>2 DEF Querying, IInv, OneQueryPerKey
  <2>3. CASE d # c /\ key[d] # key[c]
    BY <1>0, <1>1, <1>2, <1>3, <1>5, <2>3 DEF Querying, IInv, OneQueryPerKey, TypeOK
  <2>. QED  BY <2>1, <2>2, <2>3
<1>7. ASSUME NEW k \in Key, inflight'[k] # NoCaller PROVE key'[inflight'[k]] = k
  BY <1>0, <1>1, <1>2, <1>3, <1>7 DEF IInv, OneQueryPerKey, TypeOK
<1>. QED  BY <1>6, <1>7 DEF OneQueryPerKey

LEMMA LandingCallers ==
  ASSUME IInv, NEW c \in Caller, NEW a \in Address \cup {NoAddress}, Landing(c, a),
         a # NoAddress => Had(key[c], a, now, QueryTimeout),
         NEW d \in Caller
  PROVE  /\ Querying(d)' => started'[d] <= now' /\ now' <= started'[d] + QueryTimeout
         /\ pc'[d] = "read" => Had(key[d], found[d], started[d], 0)'
         /\ pc'[d] = "woken" /\ found'[d] # NoAddress => Had(key[d], found[d], now, QueryTimeout)'
<1>0. TypeOK
  BY DEF IInv
<1>3. \A e \in Caller \ {c} : key'[e] = key[e]
  BY <1>0, ReturnTypes DEF Landing
<1>1. CASE d = c
  BY <1>0, <1>1, ReturnTypes DEF Landing, Publish, Joiners, Querying
<1>2. CASE d # c /\ d \in Joiners(c)
  <2>1. pc'[d] = "woken" /\ found'[d] = a /\ key'[d] = key[c] /\ UNCHANGED <<now, address, until>>
    BY <1>0, <1>2, <1>3 DEF Landing, Publish, Joiners
  <2>. QED  BY <2>1 DEF Querying, Had
<1>4. CASE d # c /\ d \notin Joiners(c)
  <2>1. /\ pc'[d] = pc[d] /\ found'[d] = found[d] /\ key'[d] = key[d] /\ started'[d] = started[d]
        /\ UNCHANGED <<now, address, until>>
    BY <1>0, <1>4, <1>3 DEF Landing, Publish, TypeOK
  <2>. QED  BY <2>1 DEF IInv, AgesBounded, Querying, Had
<1>. QED  BY <1>1, <1>2, <1>4

LEMMA LandingTypes ==
  ASSUME TypeOK, NEW c \in Caller, NEW a \in Address \cup {NoAddress}, Landing(c, a),
         UNCHANGED changes, cache' \in [Key -> [ip : Address \cup {NoAddress}, expiresAt : Nat]]
  PROVE  TypeOK'
<1>1. key' \in [Caller -> Key] /\ answer' \in [Caller -> Address \cup {NoAddress}]
      /\ NextStop(c, a) \in {"idle", "cached"}
  BY ReturnTypes DEF Landing
<1>2. inflight' \in [Key -> Caller \cup {NoCaller}]
  BY DEF Landing, Land, TypeOK
<1>3. /\ pc' \in [Caller -> {"idle", "cached", "flight", "query", "read", "joined", "woken"}]
      /\ found' \in [Caller -> Address \cup {NoAddress}] /\ started' \in [Caller -> Nat]
  BY <1>1 DEF Landing, Publish, TypeOK
<1>. QED  BY <1>1, <1>2, <1>3 DEF TypeOK, Landing

(* What a query found is no older than the query when it is handed over. *)
LEMMA FoundIsRecent ==
  ASSUME IInv, NEW c \in Caller, pc[c] = "read"
  PROVE  Had(key[c], found[c], now, QueryTimeout) /\ Had(key[c], found[c], now + TTL, MaxAge)
<1>1. /\ now \in Nat /\ started[c] \in Nat /\ now <= started[c] + QueryTimeout
      /\ Had(key[c], found[c], started[c], 0) /\ key[c] \in Key
      /\ until \in [Key -> [Address -> Nat]]
  BY DEF IInv, TypeOK, AgesBounded, Querying
<1>. QED  BY <1>1 DEF Had, MaxAge

LEMMA AnswersKeeps == ASSUME IInv, NEW c \in Caller, QueryAnswers(c) PROVE IInv'
<1>0. TypeOK /\ now \in Nat /\ found[c] \in Address /\ key[c] \in Key
  BY FoundIsRecent DEF IInv, TypeOK, QueryAnswers, Had
<1>1. Landing(c, found[c]) /\ UNCHANGED changes
  BY DEF QueryAnswers, Landing, Querying, world
<1>2. TypeOK'
  <2>1. cache' \in [Key -> [ip : Address \cup {NoAddress}, expiresAt : Nat]]
    BY <1>0 DEF QueryAnswers, TypeOK
  <2>. QED  BY <1>0, <1>1, <2>1, LandingTypes
<1>3. OneQueryPerKey'
  BY <1>0, <1>1, LandingFlights
<1>4. AgesBounded'
  <2>1. ASSUME NEW k \in Key, cache'[k] # NoEntry
        PROVE  cache'[k].expiresAt <= now' + TTL /\ Had(k, cache[k].ip, cache[k].expiresAt, MaxAge)'
    <3>1. CASE k = key[c]
      <4>1. cache'[k] = [ip |-> found[c], expiresAt |-> now + TTL] /\ UNCHANGED <<now, address, until>>
        BY <1>0, <3>1 DEF QueryAnswers, world, TypeOK
      <4>2. Had(k, found[c], now + TTL, MaxAge)
        BY <3>1, FoundIsRecent DEF QueryAnswers
      <4>. QED  BY <1>0, <4>1, <4>2 DEF Had
    <3>2. CASE k # key[c]
      <4>1. cache'[k] = cache[k] /\ UNCHANGED <<now, address, until>>
        BY <1>0, <3>2 DEF QueryAnswers, world, TypeOK
      <4>. QED  BY <2>1, <4>1 DEF IInv, AgesBounded, Had
    <3>. QED  BY <3>1, <3>2
  <2>2. Had(key[c], found[c], now, QueryTimeout)
    BY FoundIsRecent DEF QueryAnswers
  <2>. QED  BY <1>0, <1>1, <2>1, <2>2, LandingCallers, Zenon DEF AgesBounded
<1>. QED  BY <1>2, <1>3, <1>4 DEF IInv

LEMMA FailsKeeps == ASSUME IInv, NEW c \in Caller, QueryFails(c) PROVE IInv'
<1>0. TypeOK
  BY DEF IInv
<1>1. Landing(c, NoAddress) /\ UNCHANGED <<changes, cache>>
  BY DEF QueryFails, Landing, world
<1>2. TypeOK'
  BY <1>0, <1>1, LandingTypes DEF TypeOK
<1>3. OneQueryPerKey'
  BY <1>0, <1>1, LandingFlights
<1>4. AgesBounded'
  <2>1. ASSUME NEW k \in Key, cache'[k] # NoEntry
        PROVE  cache'[k].expiresAt <= now' + TTL /\ Had(k, cache[k].ip, cache[k].expiresAt, MaxAge)'
    BY <1>1, <2>1 DEF Landing, IInv, AgesBounded, Had
  <2>. QED  BY <1>0, <1>1, <2>1, LandingCallers, Zenon DEF AgesBounded
<1>. QED  BY <1>2, <1>3, <1>4 DEF IInv

LEMMA NextKeeps == ASSUME IInv, [Next]_vars PROVE IInv'
<1>1. CASE UNCHANGED vars
  BY <1>1 DEF IInv, TypeOK, OneQueryPerKey, AgesBounded, Querying, Had, vars, world, store
<1>2. CASE Tick \/ ClearAddressCache
  BY <1>2, TickKeeps, ClearKeeps
<1>3. CASE \E k \in Key, a \in Address \cup {NoAddress} : Change(k, a)
  BY <1>3, ChangeKeeps
<1>4. ASSUME NEW c \in Caller, BuildDirectDialer(c) \/ Lookup(c) \/ Query(c) PROVE IInv'
  BY <1>4, LookupMoves, JoinKeeps, FlyKeeps, ReadKeeps, AnswersKeeps, FailsKeeps
     DEF Lookup, Query
<1>. QED  BY <1>1, <1>2, <1>3, <1>4 DEF Next

(* Queries of one key never overlap, nobody waits for one that is over, and  *)
(* nothing kept or handed over is too old, in every state.                   *)
THEOREM FlightsInvariance == Spec => []IInv
BY InitEstablishes, NextKeeps, PTL DEF Spec
-----------------------------------------------------------------------------
Waiting == {c \in Caller : pc[c] # "idle"}

(* A step that tells c the recent address a, or nothing and goes on asking,  *)
(* is one the promise allows.                                                *)
LEMMA TellsRefine ==
  ASSUME TypeOK, NEW c \in Caller, NEW a \in Address \cup {NoAddress}, pc[c] # "idle",
         Return(c, a), pc'[c] = NextStop(c, a),
         \A d \in Caller \ {c} : pc'[d] = "idle" <=> pc[d] = "idle",
         UNCHANGED <<now, address, until>>,
         a # NoAddress => Had(key[c], a, now, MaxAge)
  PROVE  [Promise!Next]_(Promise!abstractVars)
<1>1. CASE NextStop(c, a) = "cached"
  <2>1. Waiting' = Waiting /\ answer' = answer
    BY <1>1 DEF Waiting, Return, TypeOK
  <2>. QED  BY <2>1 DEF Waiting, Promise!abstractVars
<1>2. CASE NextStop(c, a) # "cached"
  <2>1. /\ c \in Waiting /\ Waiting' = Waiting \ {c}
        /\ answer' = [answer EXCEPT ![c] = a]
    BY <1>2 DEF Waiting, Return, NextStop, TypeOK
  <2>2. Promise!Tell(c, a)
    BY <2>1 DEF Waiting, Promise!Tell
  <2>3. CASE a = NoAddress
    BY <2>2, <2>3 DEF Promise!Refuse, Promise!Next
  <2>4. CASE a # NoAddress
    <3>1. a \in Promise!Recent(key[c]) /\ key[c] \in Key
      BY <2>4 DEF Had, Promise!Recent, TypeOK
    <3>2. Promise!Answer(c)
      BY <2>2, <3>1 DEF Promise!Answer
    <3>. QED  BY <3>2 DEF Promise!Next
  <2>. QED  BY <2>3, <2>4
<1>. QED  BY <1>1, <1>2

LEMMA QuietRefines ==
  ASSUME Waiting' = Waiting, UNCHANGED <<now, address, until, answer>>
  PROVE  [Promise!Next]_(Promise!abstractVars)
BY DEF Waiting, Promise!abstractVars

(* What may be taken from the cache is recent. *)
LEMMA KeptIsRecent ==
  ASSUME IInv, NEW k \in Key, cache[k] # NoEntry, now <= cache[k].expiresAt
  PROVE  cache[k].ip \in Address /\ Had(k, cache[k].ip, now, MaxAge)
<1>1. /\ now \in Nat /\ cache[k].expiresAt \in Nat /\ MaxAge \in Nat
      /\ until \in [Key -> [Address -> Nat]] /\ Had(k, cache[k].ip, cache[k].expiresAt, MaxAge)
  BY DEF IInv, TypeOK, AgesBounded, MaxAge
<1>. QED  BY <1>1 DEF Had

LEMMA LookupRefines ==
  ASSUME IInv, NEW c \in Caller, BuildDirectDialer(c) \/ Lookup(c)
  PROVE  [Promise!Next]_(Promise!abstractVars)
<1>0. TypeOK /\ key[c] \in Key
  BY DEF IInv, TypeOK
<1>1. CASE BuildDirectDialer(c)
  <2>1. c \notin Waiting /\ Waiting' = Waiting \cup {c}
    BY <1>0, <1>1 DEF BuildDirectDialer, Goto, Waiting, TypeOK
  <2>2. Promise!Ask(c)
    BY <1>1, <2>1 DEF BuildDirectDialer, Waiting, Promise!Ask, world
  <2>. QED  BY <2>2 DEF Promise!Next
<1>2. CASE CacheHit(c) \/ FlightHit(c)
  <2>1. cache[key[c]] # NoEntry /\ now <= cache[key[c]].expiresAt
    BY <1>0, <1>2 DEF CacheHit, FlightHit, Expired, Landed, TypeOK
  <2>2. cache[key[c]].ip \in Address /\ Had(key[c], cache[key[c]].ip, now, MaxAge)
    BY <1>0, <2>1, KeptIsRecent
  <2>3. /\ pc[c] # "idle" /\ Return(c, cache[key[c]].ip) /\ UNCHANGED <<now, address, until>>
        /\ pc'[c] = NextStop(c, cache[key[c]].ip)
        /\ \A d \in Caller \ {c} : pc'[d] = pc[d]
    BY <1>0, <1>2 DEF CacheHit, FlightHit, Goto, world, TypeOK
  <2>. QED  BY <1>0, <2>2, <2>3, TellsRefine
<1>3. CASE CacheMiss(c) \/ Join(c) \/ Fly(c)
  <2>1. Waiting' = Waiting /\ UNCHANGED <<now, address, until, answer>>
    BY <1>0, <1>3 DEF CacheMiss, Join, Fly, Goto, world, Waiting, TypeOK
  <2>. QED  BY <2>1, QuietRefines
<1>4. CASE Wake(c)
  <2>1. found[c] \in Address \cup {NoAddress}
        /\ (found[c] # NoAddress => Had(key[c], found[c], now, QueryTimeout))
    BY <1>0, <1>4 DEF IInv, AgesBounded, Wake, TypeOK
  <2>2. found[c] # NoAddress => Had(key[c], found[c], now, MaxAge)
    BY <1>0, <2>1 DEF Had, MaxAge, TypeOK
  <2>3. /\ pc[c] # "idle" /\ Return(c, found[c]) /\ UNCHANGED <<now, address, until>>
        /\ pc'[c] = NextStop(c, found[c]) /\ \A d \in Caller \ {c} : pc'[d] = pc[d]
    BY <1>0, <1>4 DEF Wake, Goto, world, TypeOK
  <2>. QED  BY <1>0, <2>1, <2>2, <2>3, TellsRefine
<1>. QED  BY <1>1, <1>2, <1>3, <1>4 DEF Lookup

LEMMA QueryRefines ==
  ASSUME IInv, NEW c \in Caller, Query(c)
  PROVE  [Promise!Next]_(Promise!abstractVars)
<1>0. TypeOK /\ key[c] \in Key
  BY DEF IInv, TypeOK
<1>1. CASE ScriptReads(c)
  <2>1. Waiting' = Waiting /\ UNCHANGED <<now, address, until, answer>>
    BY <1>0, <1>1 DEF ScriptReads, Goto, world, Waiting, TypeOK
  <2>. QED  BY <2>1, QuietRefines
<1>2. ASSUME NEW a \in Address \cup {NoAddress}, Landing(c, a),
             a # NoAddress => Had(key[c], a, now, MaxAge)
      PROVE  [Promise!Next]_(Promise!abstractVars)
  <2>1. pc[c] # "idle" /\ Return(c, a) /\ UNCHANGED <<now, address, until>>
    BY <1>2 DEF Landing, Querying
  <2>2. /\ pc'[c] = NextStop(c, a)
        /\ \A d \in Caller \ {c} : pc'[d] = "idle" <=> pc[d] = "idle"
    BY <1>2 DEF Landing, Publish, Joiners, Querying
  <2>. QED  BY <1>0, <1>2, <2>1, <2>2, TellsRefine
<1>3. CASE QueryAnswers(c)
  <2>1. Landing(c, found[c]) /\ pc[c] = "read"
    BY <1>3 DEF QueryAnswers, Landing, Querying, world
  <2>2. found[c] \in Address /\ Had(key[c], found[c], now, MaxAge)
    BY <1>0, <2>1, FoundIsRecent DEF Had, MaxAge, TypeOK
  <2>. QED  BY <1>2, <2>1, <2>2
<1>4. CASE QueryFails(c)
  <2>1. Landing(c, NoAddress)
    BY <1>4 DEF QueryFails, Landing, world
  <2>. QED  BY <1>2, <2>1
<1>. QED  BY <1>1, <1>3, <1>4 DEF Query

(* AddressCache implements FreshAddress: whatever is kept, shared or emptied *)
(* in between, no caller is told an address that is gone longer than the     *)
(* life of an entry and of a query.                                          *)
THEOREM CacheKeepsPromise == Spec => AnswersAreFresh
<1>1. Init => Promise!Init
  BY DEF Init, Promise!Init
<1>2. ASSUME IInv, [Next]_vars PROVE [Promise!Next]_(Promise!abstractVars)
  <2>1. CASE UNCHANGED vars
    BY <2>1 DEF vars, world, Promise!abstractVars
  <2>2. CASE Tick
    <3>1. Promise!Tick
      BY <2>2 DEF Tick, Promise!Tick
    <3>. QED  BY <3>1 DEF Promise!Next
  <2>3. ASSUME NEW k \in Key, NEW a \in Address \cup {NoAddress}, Change(k, a)
        PROVE  Promise!Next
    <3>1. Promise!Change(k, a)
      BY <2>3 DEF Change, Promise!Change
    <3>. QED  BY <3>1 DEF Promise!Next
  <2>4. CASE ClearAddressCache
    BY <2>4 DEF ClearAddressCache, world, Promise!abstractVars
  <2>. QED
    BY <1>2, <2>1, <2>2, <2>3, <2>4, LookupRefines, QueryRefines DEF Next
<1>. QED  BY <1>1, <1>2, FlightsInvariance, PTL DEF Spec, Promise!Spec, AnswersAreFresh
=============================================================================
