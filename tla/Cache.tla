------------------------------- MODULE Cache -------------------------------
(***************************************************************************)
(* What the Cache interface (modules/cache/cache.go, described in          *)
(* modules/cache/README.md) promises: a map from which an entry vanishes   *)
(* when its time has come, and for no other reason than a call that says   *)
(* so.  Nothing here sweeps or evicts.                                     *)
(***************************************************************************)
EXTENDS Naturals

CONSTANTS
    Clients,  \* goroutines that call the cache; a value is named for its writer
    Keys,
    TTLs,     \* durations given by callers; 0: never expires
    None      \* no entry, no call

VARIABLES
    store,    \* the entries that have not expired
    called,   \* per client: the call in progress
    now

vars == <<store, called, now>>

Init ==
    /\ store = [k \in Keys |-> None]
    /\ called = [c \in Clients |-> None]
    /\ now = 1

Visible(e) == IF e.exp = 0 \/ now < e.exp THEN e ELSE None

\* A call begins; the time at which its entry expires is set by then.
CallSet(c, kind, k, ttl) ==
    /\ called[c] = None
    /\ called' = [called EXCEPT ![c] = [kind |-> kind, key |-> k, ttl |-> ttl, at |-> now]]
    /\ UNCHANGED <<store, now>>

CallDelete(c, k) ==
    /\ called[c] = None
    /\ called' = [called EXCEPT ![c] = [kind |-> "delete", key |-> k]]
    /\ UNCHANGED <<store, now>>

Return(c) == called' = [called EXCEPT ![c] = None]

\* The value is stored; SetNX stores only where nothing is.
Put(c) ==
    /\ called[c].kind \in {"set", "setnx"}
    /\ called[c].kind = "setnx" => store[called[c].key] = None
    /\ LET exp == IF called[c].ttl = 0 THEN 0 ELSE called[c].at + called[c].ttl IN
       store' = [store EXCEPT ![called[c].key] = Visible([val |-> c, exp |-> exp])]
    /\ Return(c)
    /\ UNCHANGED now

\* SetNX finds an entry, or found one that has expired since.
Refuse(c) ==
    /\ called[c].kind = "setnx"
    /\ Return(c)
    /\ UNCHANGED <<store, now>>

Delete(c) ==
    /\ called[c].kind = "delete"
    /\ store' = [store EXCEPT ![called[c].key] = None]
    /\ Return(c)
    /\ UNCHANGED now

Tick ==
    /\ now' = now + 1
    /\ store' = [k \in Keys |-> IF store[k] # None /\ store[k].exp = now' THEN None ELSE store[k]]
    /\ UNCHANGED called

Next ==
    \/ \E c \in Clients :
          \/ \E kind \in {"set", "setnx"}, k \in Keys, ttl \in TTLs : CallSet(c, kind, k, ttl)
          \/ \E k \in Keys : CallDelete(c, k)
          \/ called[c] # None /\ (Put(c) \/ Refuse(c) \/ Delete(c))
    \/ Tick

Spec == Init /\ [][Next]_vars
=============================================================================
