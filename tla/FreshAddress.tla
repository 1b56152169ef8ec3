---------------------------- MODULE FreshAddress ----------------------------
(***************************************************************************)
(* What internal/netadapter promises to those who dial (LookupIPv4 and     *)
(* LookupFallbackIPv4, as buildDirectDialer calls them): an answer is an   *)
(* address the adapter has, or had no longer than MaxAge ago.  How it is   *)
(* found, kept and shared is left open; AddressCache implements it.        *)
(***************************************************************************)
EXTENDS Naturals

CONSTANTS Caller,   \* goroutines that dial
          Key,      \* what can be asked for
          Address,  \* IPv4 addresses
          NoAddress,
          MaxAge    \* how long an address may be gone and still be given out

VARIABLES
  now,      \* the clock
  address,  \* the address of each key, NoAddress when there is none
  until,    \* until[k][a]: when k last ceased to have a, 0 if it never did
  asking,   \* the callers that wait for an answer
  answer    \* what each caller was told, NoAddress while it asks

abstractVars == <<now, address, until, asking, answer>>

(* The addresses that may be given out. *)
Recent(k) ==
  {a \in Address : address[k] = a \/ (until[k][a] # 0 /\ now <= until[k][a] + MaxAge)}

Init ==
  /\ now = 1
  /\ address \in [Key -> Address \cup {NoAddress}]
  /\ until = [k \in Key |-> [a \in Address |-> 0]]
  /\ asking = {}
  /\ answer = [c \in Caller |-> NoAddress]

(* Time passes, and adapters get and lose addresses. *)
Tick == now' = now + 1 /\ UNCHANGED <<address, until, asking, answer>>

Change(k, a) ==
  /\ a # address[k]
  /\ address' = [address EXCEPT ![k] = a]
  /\ until' = [until EXCEPT ![k] = [b \in Address |-> IF b = address[k] THEN now ELSE @[b]]]
  /\ UNCHANGED <<now, asking, answer>>

Ask(c) ==
  /\ c \notin asking
  /\ asking' = asking \cup {c}
  /\ answer' = [answer EXCEPT ![c] = NoAddress]
  /\ UNCHANGED <<now, address, until>>

Tell(c, a) ==
  /\ c \in asking
  /\ asking' = asking \ {c}
  /\ answer' = [answer EXCEPT ![c] = a]
  /\ UNCHANGED <<now, address, until>>

Answer(c) == \E k \in Key : \E a \in Recent(k) : Tell(c, a)
Refuse(c) == Tell(c, NoAddress)

Next ==
  \/ Tick
  \/ \E k \in Key, a \in Address \cup {NoAddress} : Change(k, a)
  \/ \E c \in Caller : Ask(c) \/ Answer(c) \/ Refuse(c)

Spec == Init /\ [][Next]_abstractVars
=============================================================================
