------------------------------- MODULE Broker -------------------------------
(***************************************************************************)
(* What the Broker interface (memorybroker/broker.go, described in         *)
(* memorybroker/README.md) promises, without its index: a set of active    *)
(* subscriptions, from which a publish takes, at one instant, exactly      *)
(* those whose pattern matches the topic.  Close first stops admissions,   *)
(* then waits for the asynchronous publishes, then forgets everybody.      *)
(***************************************************************************)
EXTENDS Pattern

CONSTANTS
    Threads,   \* goroutines of the program that call the broker
    Tasks,     \* goroutines started by PublishAsync
    Subs,      \* subscriptions, each made at most once
    SubTopic,  \* the pattern each subscription was made with
    Topics     \* topics that are published to

VARIABLES
    active,    \* subscriptions that publishes reach
    admitting, \* FALSE once Close has committed
    shut,      \* the Close that committed has returned
    calls      \* for each goroutine, the handlers it still has to call

vars == <<active, admitting, shut, calls>>

Init ==
    /\ active = {}
    /\ admitting = TRUE
    /\ shut = FALSE
    /\ calls = [g \in Threads \cup Tasks |-> {}]

Subscribe(s) ==
    /\ admitting
    /\ s \notin active
    /\ active' = active \cup {s}
    /\ UNCHANGED <<admitting, shut, calls>>

Unsubscribe(s) ==
    /\ admitting
    /\ active' = active \ {s}
    /\ UNCHANGED <<admitting, shut, calls>>

Publish(g, topic) ==
    /\ calls[g] = {}
    /\ calls' = [calls EXCEPT ![g] = {s \in active : Match(SubTopic[s], topic)}]
    /\ g \in Tasks => ~shut
    /\ UNCHANGED <<active, admitting, shut>>

Call(g, s) ==
    /\ s \in calls[g]
    /\ calls' = [calls EXCEPT ![g] = @ \ {s}]
    /\ g \in Tasks => ~shut
    /\ UNCHANGED <<active, admitting, shut>>

StopAdmitting ==
    /\ admitting
    /\ admitting' = FALSE
    /\ UNCHANGED <<active, shut, calls>>

Shut ==
    /\ ~admitting /\ ~shut
    /\ \A t \in Tasks : calls[t] = {}
    /\ shut' = TRUE
    /\ active' = {}
    /\ UNCHANGED <<admitting, calls>>

Next ==
    \/ \E s \in Subs : Subscribe(s) \/ Unsubscribe(s)
    \/ \E g \in Threads \cup Tasks :
          \/ \E topic \in Topics : Publish(g, topic)
          \/ \E s \in Subs : Call(g, s)
    \/ StopAdmitting
    \/ Shut

Spec == Init /\ [][Next]_vars
=============================================================================
