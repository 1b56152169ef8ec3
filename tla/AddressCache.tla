---------------------------- MODULE AddressCache ----------------------------
(***************************************************************************)
(* The cache of adapter addresses (internal/netadapter/address_windows.go) *)
(* under the goroutines that dial directly: buildDirectDialer asks for the *)
(* address of the chosen adapter and, when that fails, for a fallback.  An *)
(* answer is kept for TTL; callers that ask while a query runs join it;    *)
(* a change of the settings empties the cache and leaves queries alone.    *)
(*                                                                         *)
(* Only PowerShell takes time.  A goroutine that can go on does so before  *)
(* the clock ticks, and a query is killed at its deadline.                 *)
(***************************************************************************)
EXTENDS Naturals

CONSTANTS Caller, NoCaller,
          Address, NoAddress,
          TTL,           \* addressCacheTTL, 5 s
          QueryTimeout,  \* addressPowerShellTimeout, 4 s
          MaxNow,        \* bound on the clock
          MaxChanges     \* bound on the changes of addresses

ASSUME AddressCacheAssumption ==
  /\ NoCaller \notin Caller /\ NoAddress \notin Address
  /\ TTL \in Nat \ {0} /\ QueryTimeout \in Nat \ {0}
  /\ MaxNow \in Nat /\ MaxChanges \in Nat

VARIABLES
  now, address, until,  \* clock and adapters, as FreshAddress has them
  cache,     \* entries by key
  inflight,  \* the caller whose query runs for a key
  pc,        \* where each caller is
  key,       \* the key it is asking for
  started,   \* when its query began, 0 without one
  found,     \* what its query, or the one it joined, has found
  answer,    \* what buildDirectDialer was told, NoAddress while it asks
  changes

world == <<now, address, until, changes>>
store == <<cache, inflight>>
vars == <<world, store, pc, key, started, found, answer>>

(* "ipv4:" and "fallback:" before the name of the one adapter in the settings. *)
Key == {"ipv4", "fallback"}
NoEntry == [ip |-> NoAddress, expiresAt |-> 0]

Init ==
  /\ now = 1
  /\ address \in [Key -> Address \cup {NoAddress}]
  /\ until = [k \in Key |-> [a \in Address |-> 0]]
  /\ cache = [k \in Key |-> NoEntry]
  /\ inflight = [k \in Key |-> NoCaller]
  /\ pc = [c \in Caller |-> "idle"]
  /\ key = [c \in Caller |-> "ipv4"]
  /\ started = [c \in Caller |-> 0]
  /\ found = [c \in Caller |-> NoAddress]
  /\ answer = [c \in Caller |-> NoAddress]
  /\ changes = 0

-----------------------------------------------------------------------------
(* A caller with a query of its own, under the deadline of winps.Run. *)
Querying(c) == pc[c] \in {"query", "read"}

Tick ==
  /\ now < MaxNow
  /\ \A c \in Caller :
       /\ pc[c] \in {"idle", "query", "read", "joined"}
       /\ Querying(c) => now < started[c] + QueryTimeout
  /\ now' = now + 1
  /\ UNCHANGED <<address, until, changes, store, pc, key, started, found, answer>>

Change(k, a) ==
  /\ changes < MaxChanges /\ changes' = changes + 1
  /\ a # address[k]
  /\ address' = [address EXCEPT ![k] = a]
  /\ until' = [until EXCEPT ![k] = [b \in Address |-> IF b = address[k] THEN now ELSE @[b]]]
  /\ UNCHANGED <<now, store, pc, key, started, found, answer>>

ClearAddressCacheAndFlights ==
  /\ cache' = [k \in Key |-> NoEntry]
  /\ inflight' = [k \in Key |-> NoCaller]
  /\ UNCHANGED <<world, pc, key, started, found, answer>>

(* A new map.  The flights stay as they are. *)
ClearAddressCache ==
  /\ cache' = [k \in Key |-> NoEntry]
  /\ UNCHANGED <<world, inflight, pc, key, started, found, answer>>

-----------------------------------------------------------------------------
(* A lookup ends with a, or with an error.  buildDirectDialer goes on to the *)
(* fallback only after an error of the first lookup.                         *)
NextStop(c, a) == IF a = NoAddress /\ key[c] = "ipv4" THEN "cached" ELSE "idle"
Return(c, a) ==
  /\ key' = [key EXCEPT ![c] = IF NextStop(c, a) = "cached" THEN "fallback" ELSE "ipv4"]
  /\ answer' = [answer EXCEPT ![c] = IF NextStop(c, a) = "idle" THEN a ELSE @]

Goto(c, l) == pc' = [pc EXCEPT ![c] = l]

BuildDirectDialer(c) ==
  /\ pc[c] = "idle"
  /\ Goto(c, "cached")
  /\ answer' = [answer EXCEPT ![c] = NoAddress]
  /\ UNCHANGED <<world, store, key, started, found>>

(* cachedAddressEntry takes an entry up to and including its last moment. *)
ExpiredNever(k) == FALSE
Expired(k) == now > cache[k].expiresAt

CacheHit(c) ==
  /\ pc[c] = "cached"
  /\ cache[key[c]] # NoEntry /\ ~Expired(key[c])
  /\ Return(c, cache[key[c]].ip)
  /\ Goto(c, NextStop(c, cache[key[c]].ip))
  /\ UNCHANGED <<world, store, started, found>>

CacheMiss(c) ==
  /\ pc[c] = "cached"
  /\ cache[key[c]] = NoEntry \/ Expired(key[c])
  /\ cache' = [cache EXCEPT ![key[c]] = NoEntry]
  /\ Goto(c, "flight")
  /\ UNCHANGED <<world, inflight, key, started, found, answer>>

(* addressSingleflight up to its first unlock: the entry may be there by     *)
(* now, or a query may run already; otherwise the caller makes one.          *)
Landed(k) == cache[k] # NoEntry /\ now < cache[k].expiresAt

FlightHit(c) ==
  /\ pc[c] = "flight"
  /\ Landed(key[c])
  /\ Return(c, cache[key[c]].ip)
  /\ Goto(c, NextStop(c, cache[key[c]].ip))
  /\ UNCHANGED <<world, store, started, found>>

Join(c) ==
  /\ pc[c] = "flight"
  /\ ~Landed(key[c]) /\ inflight[key[c]] # NoCaller
  /\ Goto(c, "joined")
  /\ UNCHANGED <<world, store, key, started, found, answer>>

Fly(c) ==
  /\ pc[c] = "flight"
  /\ ~Landed(key[c]) /\ inflight[key[c]] = NoCaller
  /\ inflight' = [inflight EXCEPT ![key[c]] = c]
  /\ started' = [started EXCEPT ![c] = now]
  /\ Goto(c, "query")
  /\ UNCHANGED <<world, cache, key, found, answer>>

(* The script reads the address at some moment of its run. *)
ScriptReads(c) ==
  /\ pc[c] = "query"
  /\ address[key[c]] # NoAddress
  /\ found' = [found EXCEPT ![c] = address[key[c]]]
  /\ Goto(c, "read")
  /\ UNCHANGED <<world, store, key, started, answer>>

(* close(call.done): those who joined find what the query found. *)
Joiners(c) == {d \in Caller : pc[d] = "joined" /\ key[d] = key[c]}
Publish(c, a) ==
  /\ found' = [d \in Caller |-> IF d \in Joiners(c) THEN a
                                ELSE IF d = c THEN NoAddress ELSE found[d]]
  /\ started' = [started EXCEPT ![c] = 0]
  /\ pc' = [d \in Caller |-> IF d \in Joiners(c) THEN "woken"
                             ELSE IF d = c THEN NextStop(c, a) ELSE pc[d]]

LandLeavesFlight(c) == UNCHANGED inflight
Land(c) == inflight' = [inflight EXCEPT ![key[c]] = NoCaller]

(* addressSingleflight after the query: only an answer is kept. *)
QueryAnswers(c) ==
  /\ pc[c] = "read"
  /\ cache' = [cache EXCEPT ![key[c]] = [ip |-> found[c], expiresAt |-> now + TTL]]
  /\ Land(c)
  /\ Publish(c, found[c])
  /\ Return(c, found[c])
  /\ UNCHANGED world

QueryFails(c) ==
  /\ Querying(c)
  /\ Land(c)
  /\ Publish(c, NoAddress)
  /\ Return(c, NoAddress)
  /\ UNCHANGED <<world, cache>>

Wake(c) ==
  /\ pc[c] = "woken"
  /\ Return(c, found[c])
  /\ Goto(c, NextStop(c, found[c]))
  /\ found' = [found EXCEPT ![c] = NoAddress]
  /\ UNCHANGED <<world, store, started>>

-----------------------------------------------------------------------------
Lookup(c) ==
  CacheHit(c) \/ CacheMiss(c) \/ FlightHit(c) \/ Join(c) \/ Fly(c) \/ Wake(c)
Query(c) == ScriptReads(c) \/ QueryAnswers(c) \/ QueryFails(c)

Next ==
  \/ Tick
  \/ \E k \in Key, a \in Address \cup {NoAddress} : Change(k, a)
  \/ ClearAddressCache
  \/ \E c \in Caller : BuildDirectDialer(c) \/ Lookup(c) \/ Query(c)

Spec == Init /\ [][Next]_vars

(* Goroutines run, and a script ends: at its deadline at the latest. *)
Fairness == \A c \in Caller : WF_vars(Lookup(c)) /\ WF_vars(QueryAnswers(c) \/ QueryFails(c))
FairSpec == Spec /\ Fairness
-----------------------------------------------------------------------------
(* Answers are at most this old: the entry's life and the query's before it. *)
MaxAge == TTL + QueryTimeout

(* k has the address a, or had it no longer than d before t. *)
Had(k, a, t, d) == a \in Address /\ (address[k] = a \/ (until[k][a] # 0 /\ t <= until[k][a] + d))

TypeOK ==
  /\ now \in Nat \ {0} /\ changes \in Nat
  /\ address \in [Key -> Address \cup {NoAddress}]
  /\ until \in [Key -> [Address -> Nat]]
  /\ cache \in [Key -> [ip : Address \cup {NoAddress}, expiresAt : Nat]]
  /\ inflight \in [Key -> Caller \cup {NoCaller}]
  /\ pc \in [Caller -> {"idle", "cached", "flight", "query", "read", "joined", "woken"}]
  /\ key \in [Caller -> Key]
  /\ started \in [Caller -> Nat]
  /\ found \in [Caller -> Address \cup {NoAddress}]
  /\ answer \in [Caller -> Address \cup {NoAddress}]

(* One query per key at a time, known to inflight, and whoever has joined    *)
(* waits for a query that runs.                                              *)
OneQueryPerKey ==
  /\ \A c \in Caller : Querying(c) <=> inflight[key[c]] = c
  /\ \A c \in Caller : pc[c] = "joined" => inflight[key[c]] # NoCaller
  /\ \A k \in Key : inflight[k] # NoCaller => key[inflight[k]] = k

(* How old what is kept, found or handed over can be. *)
AgesBounded ==
  /\ \A k \in Key : cache[k] # NoEntry =>
       /\ cache[k].expiresAt <= now + TTL
       /\ Had(k, cache[k].ip, cache[k].expiresAt, MaxAge)
  /\ \A c \in Caller :
       /\ Querying(c) => started[c] <= now /\ now <= started[c] + QueryTimeout
       /\ pc[c] = "read" => Had(key[c], found[c], started[c], 0)
       /\ pc[c] = "woken" /\ found[c] # NoAddress => Had(key[c], found[c], now, QueryTimeout)

(* The queries of one key never overlap, whoever asks, joins, fails or       *)
(* empties the cache, and the inflight map has exactly those that run: a     *)
(* caller that joins a query that has ended would wait for ever.             *)
IInv == TypeOK /\ OneQueryPerKey /\ AgesBounded

(* Nothing the cache tells is older than the life of an entry and of the     *)
(* query behind it, also when the cache was emptied while that query ran and *)
(* the answer from before is stored afterwards.                              *)
Promise == INSTANCE FreshAddress WITH asking <- {c \in Caller : pc[c] # "idle"}
AnswersAreFresh == Promise!Spec

(* Whoever dials gets an answer or an error, although it may wait for the    *)
(* query of another and then for a second one.                               *)
Answered == \A c \in Caller : pc[c] # "idle" ~> pc[c] = "idle"
=============================================================================
