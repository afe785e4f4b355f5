-------------------------- MODULE HTTPClientProofs --------------------------
(***************************************************************************)
(* Proofs about HTTPClient, for every number of retries and of changes of  *)
(* the settings during a call, and every request.                          *)
(***************************************************************************)
EXTENDS HTTPClient, TLAPS

----------------------------------------------------------------------------
(* The parts of the inductive invariant.                                   *)

Ended == {"save", "copy", "returned"}
Unsent == {"start", "build", "snapshot", "before"}

\* buildRequest succeeded (as far as it matters: an attempt may follow or did).
Built == pc \notin {"start", "build"} /\ (pc = "returned" => attempt > 0)

\* The transport is always the one of the present settings.
TransportCurrent == transport = BuildTransport(client)

\* How far the attempts are: one more than those whose outcome Retry has seen,
\* and a further one only when the count of retries allows it.
Attempts ==
    /\ pc \in Unsent => attempt = 0
    /\ pc \in {"wire", "answered", "after", "save", "copy"} => attempt > 0
    /\ (pc = "attempt" /\ attempt > 0) => attempt <= RetryCount
    /\ (pc # "attempt" /\ attempt > 1) => attempt <= RetryCount + 1
    /\ Len(wire) <= attempt

\* What buildBody decided stays: a reader that can be read once is buffered
\* exactly when willRetry saw a count, and what was read without being buffered
\* was put on the wire.
BodyState ==
    Built =>
        /\ buffered <=> \/ rb.body \in {"built", "replayable"}
                        \/ rb.body = "once" /\ (rb.retry > 0 \/ retryAtBody > 0)
        /\ (consumed /\ ~buffered) => rb.body = "once" /\ wire # <<>>

\* The settings differ from what was read of them only after a change.
SettingsSeen ==
    configs = 0 =>
        /\ Built => retryAtBody = client.retry
        /\ snap = client

\* The body of a streamed answer is open from the answer until the attempt is
\* tried again, the error ends the call, or the caller closes it.
OpenBodies ==
    /\ open \subseteq {attempt}
    /\ open # {} => rb.stream /\ resp # "error" /\ pc \in {"answered", "after"} \cup Ended
    /\ (open # {} /\ pc \in Ended) => outcome # "error"

\* The call ends in one way, and its context with it, or with the stream.
Outcomes ==
    /\ outcome = "none" <=> pc \notin Ended
    /\ pc \in {"save", "copy"} => outcome = "response" /\ rb.download
    /\ pc = "start" => ctx = "none"
    /\ (rb.download \/ ~rb.timeout) => ctx = "none"
    /\ pc \notin {"after"} \cup Ended => ctx # "cancelled" /\ ~guarded
    /\ (pc \in {"after"} \cup Ended /\ ctx = "live") => guarded /\ outcome # "error"
    /\ (pc \in {"after", "returned"} /\ outcome \in {"none", "response"} /\ open # {})
            => ctx # "cancelled"
    /\ (open # {} /\ outcome \in {"none", "response"} /\ pc \in {"after"} \cup Ended)
            => (guarded <=> ctx # "none")

\* Download leaves the old file alone until it creates the new one.
FileState ==
    rb.download =>
        /\ pc \notin {"copy", "returned"} => file = "old"
        /\ pc = "copy" => file = "partial"
        /\ pc = "returned" => file # "partial" /\ (file = "whole" <=> outcome = "response")

\* Which hooks have run: none before the settings are copied, all before hooks
\* ahead of the first attempt, and the others according to the outcome.
HookState ==
    /\ pc \in {"start", "build", "snapshot"} => hooks.before = 0
    /\ hooks.before <= snap.before
    /\ (pc = "attempt" \/ attempt > 0) => hooks.before = snap.before
    /\ pc \notin {"after"} \cup Ended => hooks.error = 0 /\ hooks.after = 0
    /\ pc = "after" =>
        resp # "error" /\ StatusOK /\ hooks.error = 0 /\ hooks.after <= snap.after
    /\ pc \in Ended =>
        IF attempt = 0 THEN hooks.error = 0 /\ hooks.after = 0
        ELSE IF resp = "error" \/ ~StatusOK
        THEN hooks.error = snap.onError /\ hooks.after = 0
        ELSE /\ hooks.error = 0 /\ hooks.after <= snap.after
             /\ IF outcome = "bad" THEN hooks.after > 0 ELSE hooks.after = snap.after

Inv ==
    /\ TypeOK
    /\ TransportCurrent
    /\ Attempts
    /\ BodyState
    /\ SettingsSeen
    /\ OpenBodies
    /\ Outcomes
    /\ FileState
    /\ HookState
    /\ BodyWhole
    /\ PolicyEnforced

\* What the settings of a Client hold (client.go).
LEMMA ConfigTypes ==
    ASSUME NEW c \in Configs
    PROVE  /\ c.retry \in Nat /\ c.timeout \in BOOLEAN
           /\ c.before \in Nat /\ c.after \in Nat /\ c.onError \in Nat
BY HTTPClientAssumption DEF Configs

\* What a RequestBuilder holds; the download helpers of client.go send a GET that
\* streams and sets no timeout.
LEMMA BuilderTypes ==
    ASSUME NEW b \in Builders
    PROVE  /\ b.retry \in Nat
           /\ b.timeout \in BOOLEAN /\ b.stream \in BOOLEAN /\ b.download \in BOOLEAN
           /\ b.download => b.stream /\ ~b.timeout
BY HTTPClientAssumption

\* The invariant holds when Send is called.
LEMMA InitInv == Init => Inv
<1> SUFFICES ASSUME Init PROVE Inv
    OBVIOUS
<1>1. client \in Configs /\ client.httpsOnly \in BOOLEAN /\ client.hostAllowed \in BOOLEAN
    BY HTTPClientAssumption DEF Init, Configs
<1>h. /\ hooks.before = 0 /\ hooks.error = 0 /\ hooks.after = 0
      /\ snap.before \in Nat
    BY <1>1, ConfigTypes DEF Init
<1>2. TypeOK
    <2>1. transport \in Rules
        BY <1>1 DEF Init, BuildTransport, Rules
    <2>2. wire \in Seq(Sent) /\ hooks \in HookCounts
        BY DEF Init, HookCounts
    <2> QED BY <1>1, <2>1, <2>2 DEF Init, TypeOK
<1> QED BY <1>2, <1>h
        DEF Inv, Init, TransportCurrent, Attempts, Unsent, BodyState, Built, SettingsSeen,
            OpenBodies, Ended, Outcomes, FileState, HookState, BodyWhole, PolicyEnforced

\* A change of the settings by another goroutine preserves the invariant.
LEMMA ConfigureInv ==
    ASSUME Inv, NEW c \in Configs, Configure(c), transport' = BuildTransport(c)
    PROVE  Inv'
<1> USE DEF Inv
<1>1. TypeOK'
    <2>1. transport' \in Rules
        BY DEF BuildTransport, Rules, Configs
    <2> QED BY <2>1 DEF TypeOK, Configure, request, reply
<1>2. TransportCurrent' /\ SettingsSeen'
    BY DEF TransportCurrent, SettingsSeen, Configure, TypeOK
<1>3. /\ Attempts' /\ BodyState' /\ OpenBodies' /\ Outcomes' /\ FileState'
      /\ HookState' /\ PolicyEnforced'
    BY DEF Attempts, RetryCount, Unsent, BodyState, Built, OpenBodies, Ended, Outcomes,
           FileState, HookState, StatusOK, PolicyEnforced, Configure, request, reply
<1>4. BodyWhole'
    BY DEF BodyWhole, Configure, request, TypeOK
<1> QED BY <1>1, <1>2, <1>3, <1>4

\* Every step of Send, of the reader of its response and of the saving of a
\* download preserves the invariant (request.go, client.go, download.go).
LEMMA NextInv == Inv /\ [Next]_vars => Inv'
<1> SUFFICES ASSUME Inv, [Next]_vars PROVE Inv'
    OBVIOUS
<1> USE DEF Inv
<1>typed. /\ snap.retry \in Nat /\ snap.before \in Nat /\ snap.after \in Nat
          /\ snap.onError \in Nat /\ client.before \in Nat
          /\ hooks.before \in Nat /\ hooks.error \in Nat /\ hooks.after \in Nat
          /\ client.retry \in Nat /\ client.timeout \in BOOLEAN /\ rb.retry \in Nat
          /\ rb.timeout \in BOOLEAN /\ rb.stream \in BOOLEAN /\ rb.download \in BOOLEAN
          /\ rb.download => rb.stream /\ ~rb.timeout
    BY ConfigTypes, BuilderTypes DEF TypeOK, HookCounts
<1>unsent. pc \in Unsent => DOMAIN wire = {}
    BY DEF TypeOK, Attempts
<1>1. ASSUME Start PROVE Inv'
    <2>1. TypeOK'
        BY <1>1, ZenonT(60) DEF TypeOK, Statuses, Start, request, reply, settings
    <2>2. Outcomes'
        BY <1>1, <1>typed DEF Outcomes, Ended, Start, request, reply, settings,
           TypeOK
    <2>3. /\ TransportCurrent' /\ Attempts' /\ BodyState' /\ SettingsSeen'
          /\ OpenBodies' /\ FileState' /\ HookState' /\ BodyWhole' /\ PolicyEnforced'
        BY <1>1 DEF TransportCurrent, BuildTransport, Attempts, RetryCount,
           Unsent, BodyState, Built, SettingsSeen, OpenBodies, Ended, FileState,
           HookState, StatusOK, BodyWhole, PolicyEnforced, Start, request,
           reply, settings, TypeOK
    <2> QED BY <2>1, <2>2, <2>3 DEF Inv
<1>2. ASSUME BuildFails PROVE Inv'
    <2>1. TypeOK'
        BY <1>2, ZenonT(60) DEF TypeOK, Statuses, BuildFails, Return, Cancelled, request,
           reply, settings
    <2>2. BodyState'
        BY <1>2 DEF BodyState, Built, Attempts, Unsent, BuildFails, Return,
           Cancelled, request, reply, settings, TypeOK
    <2>3. SettingsSeen'
        BY <1>2 DEF SettingsSeen, Built, Attempts, Unsent, BuildFails, Return,
           Cancelled, request, reply, settings, TypeOK
    <2>4. HookState'
        BY <1>2 DEF HookState, Ended, StatusOK, Attempts, Unsent, BuildFails,
           Return, Cancelled, request, reply, settings, TypeOK
    <2>5. /\ TransportCurrent' /\ Attempts' /\ OpenBodies' /\ Outcomes' /\ FileState'
          /\ BodyWhole' /\ PolicyEnforced'
        BY <1>2 DEF TransportCurrent, BuildTransport, Attempts, RetryCount,
           Unsent, OpenBodies, Ended, Outcomes, FileState, BodyWhole,
           PolicyEnforced, BuildFails, Return, Cancelled, request, reply,
           settings, TypeOK
    <2> QED BY <2>1, <2>2, <2>3, <2>4, <2>5 DEF Inv
<1>3. ASSUME BuildRequest PROVE Inv'
    <2>1. TypeOK'
        BY <1>3, <1>typed, ZenonT(60) DEF TypeOK, Statuses, BuildRequest, WillRetry, request,
           reply, settings
    <2>2. BodyState'
        BY <1>3, <1>typed DEF BodyState, Built, BuildRequest, WillRetry, request,
           reply, settings, TypeOK
    <2>3. BodyWhole'
        BY <1>3, <1>unsent DEF BodyWhole, Unsent, BuildRequest, WillRetry, request,
           reply, settings, TypeOK
    <2>4. /\ TransportCurrent' /\ Attempts' /\ SettingsSeen' /\ OpenBodies'
          /\ Outcomes' /\ FileState' /\ HookState' /\ PolicyEnforced'
        BY <1>3 DEF TransportCurrent, BuildTransport, Attempts, RetryCount,
           Unsent, SettingsSeen, Built, OpenBodies, Ended, Outcomes, FileState,
           HookState, StatusOK, PolicyEnforced, BuildRequest, WillRetry,
           request, reply, settings, TypeOK
    <2> QED BY <2>1, <2>2, <2>3, <2>4 DEF Inv
<1>4. ASSUME Snapshot PROVE Inv'
    <2>1. TypeOK'
        BY <1>4, ZenonT(60) DEF TypeOK, Statuses, Snapshot, request, reply, settings
    <2>2. BodyWhole'
        BY <1>4, <1>unsent DEF BodyWhole, Unsent, Snapshot, request, reply,
           settings, TypeOK
    <2>3. /\ TransportCurrent' /\ Attempts' /\ BodyState' /\ SettingsSeen'
          /\ OpenBodies' /\ Outcomes' /\ FileState' /\ PolicyEnforced'
        BY <1>4 DEF TransportCurrent, BuildTransport, Attempts, RetryCount,
           Unsent, BodyState, Built, SettingsSeen, OpenBodies, Ended, Outcomes,
           FileState, PolicyEnforced, Snapshot, request,
           reply, settings, TypeOK
    <2>4. HookState'
        BY <1>4, <1>typed DEF HookState, Ended, StatusOK, Attempts, Unsent, Snapshot,
           request, reply, settings, TypeOK
    <2> QED BY <2>1, <2>2, <2>3, <2>4 DEF Inv
<1>5. ASSUME BeforeHooks PROVE Inv'
    <2>1. TypeOK'
        <3>1. hooks' \in HookCounts
            BY <1>5, <1>typed, SMTT(30) DEF TypeOK, HookCounts, BeforeHooks
        <3>2. ctx' \in {"none", "live", "expired", "cancelled"}
            BY <1>5 DEF TypeOK, BeforeHooks, Cancelled
        <3> QED BY <1>5, <3>1, <3>2, ZenonT(60)
                DEF TypeOK, Statuses, BeforeHooks, Return, request, reply, settings
    <2>2. BodyState'
        BY <1>5 DEF BodyState, Built, Attempts, Unsent, BeforeHooks, Return,
           Cancelled, request, reply, settings, TypeOK
    <2>3. SettingsSeen'
        BY <1>5 DEF SettingsSeen, Built, Attempts, Unsent, BeforeHooks, Return,
           Cancelled, request, reply, settings, TypeOK
    <2>4. HookState'
        BY <1>5, <1>typed DEF HookState, HookCounts, Ended, StatusOK, Attempts, Unsent, BeforeHooks,
           Return, Cancelled, request, reply, settings, TypeOK
    <2>5. /\ TransportCurrent' /\ Attempts' /\ OpenBodies' /\ Outcomes' /\ FileState'
          /\ BodyWhole' /\ PolicyEnforced'
        BY <1>5 DEF TransportCurrent, BuildTransport, Attempts, RetryCount,
           Unsent, OpenBodies, Ended, Outcomes, FileState, BodyWhole,
           PolicyEnforced, BeforeHooks, Return, Cancelled, request, reply,
           settings, TypeOK
    <2> QED BY <2>1, <2>2, <2>3, <2>4, <2>5 DEF Inv
<1>6. ASSUME Attempt PROVE Inv'
    <2>1. TypeOK'
        <3>1. wire' \in Seq(Sent)
            <4>1. [body |-> AttemptBody, permitted |-> Permits(client)] \in Sent
                BY DEF AttemptBody, Permits, TypeOK, Sent, Configs
            <4> QED BY <4>1, <1>6 DEF Attempt, TypeOK
        <3>2. limited' \in BOOLEAN /\ consumed' \in BOOLEAN
            BY <1>6, <1>typed DEF TypeOK, Attempt
        <3> QED BY <1>6, <3>1, <3>2 DEF TypeOK, Attempt, request, reply, settings
    <2>2. Attempts'
        BY <1>6, <1>typed, SMTT(30) DEF Attempts, RetryCount, Unsent, Attempt, AttemptBody,
           request, reply, settings, TypeOK
    <2>3. BodyWhole'
        <3>1. CASE wire' = wire
            BY <1>6, <3>1 DEF BodyWhole, Attempt, settings
        <3>2. CASE wire' = Append(wire, [body |-> AttemptBody, permitted |-> Permits(client)])
            <4>1. ASSUME AttemptBody = "short"
                  PROVE  /\ rb.body = "once" /\ retryAtBody = 0 /\ rb.retry = 0
                         /\ Len(wire) > 0 /\ attempt > 0
                BY <1>6, <4>1, <1>typed DEF AttemptBody, BodyState, Built, Attempt, Attempts, TypeOK
            <4>2. ASSUME AttemptBody = "short" PROVE snap.retry > 0 /\ configs > 0
                BY <1>6, <4>1, <4>2, <1>typed
                   DEF Attempt, Attempts, RetryCount, SettingsSeen, Built, TypeOK
            <4> QED BY <1>6, <3>2, <4>1, <4>2 DEF BodyWhole, Attempt, settings, TypeOK
        <3> QED BY <1>6, <3>1, <3>2 DEF Attempt
    <2>4. PolicyEnforced'
        <3>1. Permits(transport) => Permits(client)
            BY DEF TransportCurrent, BuildTransport, Permits
        <3>2. CASE wire' = wire
            BY <3>2 DEF PolicyEnforced
        <3>3. CASE Permits(client)
                   /\ wire' = Append(wire, [body |-> AttemptBody, permitted |-> Permits(client)])
            BY <3>3 DEF PolicyEnforced, TypeOK
        <3> QED BY <1>6, <3>1, <3>2, <3>3 DEF Attempt
    <2>5. /\ TransportCurrent' /\ BodyState' /\ SettingsSeen' /\ OpenBodies'
          /\ Outcomes' /\ FileState' /\ HookState'
        BY <1>6 DEF TransportCurrent, BuildTransport, BodyState, Built,
           SettingsSeen, OpenBodies, Ended, Outcomes, FileState, HookState,
           StatusOK, Attempt, AttemptBody, request, reply, settings, TypeOK
    <2> QED BY <2>1, <2>2, <2>3, <2>4, <2>5 DEF Inv
<1>7. ASSUME MiddlewareAnswers PROVE Inv'
    <2>1. TypeOK'
        BY <1>7 DEF TypeOK, MiddlewareAnswers, request, reply, settings
    <2>2. Attempts'
        BY <1>7, <1>typed DEF Attempts, RetryCount, Unsent, MiddlewareAnswers,
           request, reply, settings, TypeOK
    <2>3. /\ TransportCurrent' /\ BodyState' /\ SettingsSeen' /\ OpenBodies'
          /\ Outcomes' /\ FileState' /\ HookState' /\ BodyWhole' /\ PolicyEnforced'
        BY <1>7 DEF TransportCurrent, BuildTransport, BodyState, Built,
           SettingsSeen, OpenBodies, Ended, Outcomes, FileState, HookState,
           StatusOK, BodyWhole, PolicyEnforced, MiddlewareAnswers, request,
           reply, settings, TypeOK
    <2> QED BY <2>1, <2>2, <2>3 DEF Inv
<1>8. ASSUME Answer PROVE Inv'
    <2>1. TypeOK'
        BY <1>8 DEF TypeOK, Statuses, Answer, request, reply, settings
    <2>2. OpenBodies'
        BY <1>8 DEF OpenBodies, Ended, Statuses, Answer, request, reply,
           settings, TypeOK
    <2>3. /\ TransportCurrent' /\ Attempts' /\ BodyState' /\ SettingsSeen'
          /\ Outcomes' /\ FileState' /\ HookState' /\ BodyWhole' /\ PolicyEnforced'
        BY <1>8 DEF TransportCurrent, BuildTransport, Attempts, RetryCount,
           Unsent, BodyState, Built, SettingsSeen, Outcomes, Ended, FileState,
           HookState, StatusOK, BodyWhole, PolicyEnforced, Answer, request,
           reply, settings, TypeOK
    <2> QED BY <2>1, <2>2, <2>3 DEF Inv
<1>9. ASSUME Fail PROVE Inv'
    <2>1. TypeOK'
        BY <1>9 DEF TypeOK, Statuses, Fail, request, reply, settings
    <2>2. /\ TransportCurrent' /\ Attempts' /\ BodyState' /\ SettingsSeen'
          /\ OpenBodies' /\ Outcomes' /\ FileState' /\ HookState' /\ BodyWhole'
          /\ PolicyEnforced'
        BY <1>9 DEF TransportCurrent, BuildTransport, Attempts, RetryCount,
           Unsent, BodyState, Built, SettingsSeen, OpenBodies, Ended, Outcomes,
           FileState, HookState, StatusOK, BodyWhole, PolicyEnforced, Fail,
           request, reply, settings, TypeOK
    <2> QED BY <2>1, <2>2 DEF Inv
<1>10. ASSUME GiveUp PROVE Inv'
    <2>1. TypeOK'
        BY <1>10 DEF TypeOK, Statuses, GiveUp, request, reply, settings
    <2>2. /\ TransportCurrent' /\ Attempts' /\ BodyState' /\ SettingsSeen'
          /\ OpenBodies' /\ Outcomes' /\ FileState' /\ HookState' /\ BodyWhole'
          /\ PolicyEnforced'
        BY <1>10 DEF TransportCurrent, BuildTransport, Attempts, RetryCount,
           Unsent, BodyState, Built, SettingsSeen, OpenBodies, Ended, Outcomes,
           FileState, HookState, StatusOK, BodyWhole, PolicyEnforced, GiveUp,
           request, reply, settings, TypeOK
    <2> QED BY <2>1, <2>2 DEF Inv
<1>11. ASSUME Expire PROVE Inv'
    <2>1. TypeOK'
        BY <1>11, ZenonT(60) DEF TypeOK, Statuses, Expire, request, reply, settings
    <2>2. /\ TransportCurrent' /\ Attempts' /\ BodyState' /\ SettingsSeen'
          /\ OpenBodies' /\ Outcomes' /\ FileState' /\ HookState' /\ BodyWhole'
          /\ PolicyEnforced'
        BY <1>11 DEF TransportCurrent, BuildTransport, Attempts, RetryCount,
           Unsent, BodyState, Built, SettingsSeen, OpenBodies, Ended, Outcomes,
           FileState, HookState, StatusOK, BodyWhole, PolicyEnforced, Expire,
           request, reply, settings, TypeOK
    <2> QED BY <2>1, <2>2 DEF Inv
<1>12. ASSUME Retry PROVE Inv'
    <2>1. TypeOK'
        BY <1>12, ZenonT(60) DEF TypeOK, Statuses, Retry, RetryCount, request, reply,
           settings
    <2>2. /\ TransportCurrent' /\ Attempts' /\ BodyState' /\ SettingsSeen'
          /\ OpenBodies' /\ Outcomes' /\ FileState' /\ HookState' /\ BodyWhole'
          /\ PolicyEnforced'
        BY <1>12 DEF TransportCurrent, BuildTransport, Attempts, RetryCount,
           Unsent, BodyState, Built, SettingsSeen, OpenBodies, Ended, Outcomes,
           FileState, HookState, StatusOK, BodyWhole, PolicyEnforced, Retry,
           request, reply, settings, TypeOK
    <2> QED BY <2>1, <2>2 DEF Inv
<1>13. ASSUME Failed PROVE Inv'
    <2>1. TypeOK'
        <3>1. hooks' \in HookCounts
            BY <1>13, <1>typed, SMTT(30) DEF TypeOK, HookCounts, Failed, RunErrorHooks
        <3> QED BY <1>13, <3>1
                DEF TypeOK, Failed, Return, Cancelled, request, reply, settings
    <2>2. HookState'
        BY <1>13, <1>typed DEF HookState, HookCounts, Ended, StatusOK, Attempts, Failed, Final,
           RunErrorHooks, Return, Cancelled, request, reply, settings, TypeOK
    <2>3. /\ TransportCurrent' /\ Attempts' /\ BodyState' /\ SettingsSeen'
          /\ OpenBodies' /\ Outcomes' /\ FileState' /\ BodyWhole' /\ PolicyEnforced'
        BY <1>13 DEF TransportCurrent, BuildTransport, Attempts, RetryCount,
           Unsent, BodyState, Built, SettingsSeen, OpenBodies, Ended, Outcomes,
           FileState, BodyWhole, PolicyEnforced, Failed, Final, RunErrorHooks,
           Return, Cancelled, request, reply, settings, TypeOK
    <2> QED BY <2>1, <2>2, <2>3 DEF Inv
<1>14. ASSUME BadStatus PROVE Inv'
    <2>1. TypeOK'
        <3>1. hooks' \in HookCounts
            BY <1>14, <1>typed, SMTT(30) DEF TypeOK, HookCounts, BadStatus, RunErrorHooks
        <3> QED BY <1>14, <3>1
                DEF TypeOK, BadStatus, Return, Cancelled, request, reply, settings
    <2>2. HookState'
        BY <1>14, <1>typed DEF HookState, HookCounts, Ended, StatusOK, Attempts, BadStatus,
           Final, RunErrorHooks, Return, Cancelled, request, reply, settings,
           TypeOK
    <2>3. /\ TransportCurrent' /\ Attempts' /\ BodyState' /\ SettingsSeen'
          /\ OpenBodies' /\ Outcomes' /\ FileState' /\ BodyWhole' /\ PolicyEnforced'
        BY <1>14 DEF TransportCurrent, BuildTransport, Attempts, RetryCount,
           Unsent, BodyState, Built, SettingsSeen, OpenBodies, Ended, Outcomes,
           FileState, BodyWhole, PolicyEnforced, BadStatus, Final,
           RunErrorHooks, Return, Cancelled, StatusOK, request, reply, settings,
           TypeOK
    <2> QED BY <2>1, <2>2, <2>3 DEF Inv
<1>15. ASSUME Accepted PROVE Inv'
    <2>1. TypeOK'
        BY <1>15, ZenonT(60) DEF TypeOK, Statuses, Accepted, Final, Cancelled, StatusOK,
           request, reply, settings
    <2>2. Outcomes'
        BY <1>15 DEF Outcomes, Ended, OpenBodies, Accepted, Final, Cancelled,
           StatusOK, request, reply, settings, TypeOK
    <2>h. HookState'
        BY <1>15, <1>typed DEF HookState, Ended, StatusOK, Attempts, Accepted, Final,
           request, reply, settings, TypeOK
    <2>3. /\ TransportCurrent' /\ Attempts' /\ BodyState' /\ SettingsSeen'
          /\ OpenBodies' /\ FileState' /\ BodyWhole' /\ PolicyEnforced'
        BY <1>15 DEF TransportCurrent, BuildTransport, Attempts, RetryCount,
           Unsent, BodyState, Built, SettingsSeen, OpenBodies, Ended, FileState,
           StatusOK, BodyWhole, PolicyEnforced, Accepted, Final,
           Cancelled, request, reply, settings, TypeOK
    <2> QED BY <2>1, <2>2, <2>h, <2>3 DEF Inv
<1>16. ASSUME AfterHooks PROVE Inv'
    <2>1. TypeOK'
        <3>1. hooks' \in HookCounts
            BY <1>16, <1>typed DEF TypeOK, HookCounts, AfterHooks
        <3> QED BY <1>16, <3>1
                DEF TypeOK, AfterHooks, Return, Cancelled, request, reply, settings
    <2>2. HookState'
        BY <1>16, <1>typed DEF HookState, HookCounts, Ended, StatusOK, Attempts, AfterHooks,
           Return, request, reply, settings, TypeOK
    <2>3. /\ TransportCurrent' /\ Attempts' /\ BodyState' /\ SettingsSeen'
          /\ OpenBodies' /\ Outcomes' /\ FileState' /\ BodyWhole' /\ PolicyEnforced'
        BY <1>16 DEF TransportCurrent, BuildTransport, Attempts, RetryCount,
           Unsent, BodyState, Built, SettingsSeen, OpenBodies, Ended, Outcomes,
           FileState, BodyWhole, PolicyEnforced, AfterHooks, Return, request,
           reply, settings, TypeOK
    <2> QED BY <2>1, <2>2, <2>3 DEF Inv
<1>17. ASSUME CloseStream PROVE Inv'
    <2>1. TypeOK'
        BY <1>17 DEF TypeOK, Statuses, CloseStream, Cancelled, request, reply,
           settings
    <2>2. /\ TransportCurrent' /\ Attempts' /\ BodyState' /\ SettingsSeen'
          /\ OpenBodies' /\ Outcomes' /\ FileState' /\ HookState' /\ BodyWhole'
          /\ PolicyEnforced'
        BY <1>17 DEF TransportCurrent, BuildTransport, Attempts, RetryCount,
           Unsent, BodyState, Built, SettingsSeen, OpenBodies, Ended, Outcomes,
           FileState, HookState, StatusOK, BodyWhole, PolicyEnforced,
           CloseStream, Cancelled, request, reply, settings, TypeOK
    <2> QED BY <2>1, <2>2 DEF Inv
<1>18. ASSUME CreateFile PROVE Inv'
    <2>1. TypeOK'
        BY <1>18, ZenonT(60) DEF TypeOK, Statuses, CreateFile, request, reply, settings
    <2>2. /\ TransportCurrent' /\ Attempts' /\ BodyState' /\ SettingsSeen'
          /\ OpenBodies' /\ Outcomes' /\ FileState' /\ HookState' /\ BodyWhole'
          /\ PolicyEnforced'
        BY <1>18, ZenonT(60) DEF TransportCurrent, BuildTransport, Attempts, RetryCount,
           Unsent, BodyState, Built, SettingsSeen, OpenBodies, Ended, Outcomes,
           FileState, HookState, StatusOK, BodyWhole, PolicyEnforced,
           CreateFile, request, reply, settings, TypeOK
    <2> QED BY <2>1, <2>2 DEF Inv
<1>19. ASSUME CopyFile PROVE Inv'
    <2>1. TypeOK'
        BY <1>19, ZenonT(60) DEF TypeOK, Statuses, CopyFile, request, reply, settings
    <2>2. FileState'
        BY <1>19 DEF FileState, Ended, Outcomes, CopyFile, request, reply,
           settings, TypeOK
    <2>3. /\ TransportCurrent' /\ Attempts' /\ BodyState' /\ SettingsSeen'
          /\ OpenBodies' /\ Outcomes' /\ HookState' /\ BodyWhole' /\ PolicyEnforced'
        BY <1>19 DEF TransportCurrent, BuildTransport, Attempts, RetryCount,
           Unsent, BodyState, Built, SettingsSeen, OpenBodies, Ended, Outcomes,
           HookState, StatusOK, BodyWhole, PolicyEnforced, CopyFile, request,
           reply, settings, TypeOK
    <2> QED BY <2>1, <2>2, <2>3 DEF Inv
<1>20. ASSUME Reconfigure PROVE Inv'
    <2>1. ASSUME NEW c \in Configs, Configure(c), UNCHANGED transport,
                 c.httpsOnly = client.httpsOnly, c.hostAllowed = client.hostAllowed
          PROVE  Inv'
        <3>1. transport' = BuildTransport(c)
            BY <2>1 DEF TransportCurrent, BuildTransport
        <3> QED BY <2>1, <3>1, ConfigureInv
    <2>2. CASE Set
        <3>1. \/ \E n \in 0..MaxRetry : Configure([client EXCEPT !.retry = n])
              \/ \E b \in BOOLEAN : Configure([client EXCEPT !.timeout = b])
              \/ \E b \in BOOLEAN : Configure([client EXCEPT !.anyStatus = b])
            BY <2>2 DEF Set
        <3>2. ASSUME NEW n \in 0..MaxRetry PROVE [client EXCEPT !.retry = n] \in Configs
            BY DEF TypeOK, Configs
        <3>3. ASSUME NEW b \in BOOLEAN
              PROVE  /\ [client EXCEPT !.timeout = b] \in Configs
                     /\ [client EXCEPT !.anyStatus = b] \in Configs
            BY DEF TypeOK, Configs
        <3> QED BY <2>1, <2>2, <3>1, <3>2, <3>3, ZenonT(60) DEF Set, TypeOK, Configs
    <2>3. CASE AddHook
        <3>1. /\ [client EXCEPT !.before = @ + 1] \in Configs
              /\ [client EXCEPT !.after = @ + 1] \in Configs
              /\ [client EXCEPT !.onError = @ + 1] \in Configs
            <4>1. /\ client \in Configs
                  /\ client.before + 1 \in Nat /\ client.after + 1 \in Nat
                  /\ client.onError + 1 \in Nat
                BY ConfigTypes DEF TypeOK
            <4> QED BY <4>1 DEF Configs
        <3> QED BY <2>1, <2>3, <3>1 DEF AddHook, TypeOK, Configs
    <2>4. CASE SetTransport
        <3>1. ASSUME NEW b \in BOOLEAN
              PROVE  /\ [client EXCEPT !.httpsOnly = b] \in Configs
                     /\ [client EXCEPT !.hostAllowed = b] \in Configs
            BY DEF TypeOK, Configs
        <3> QED BY <2>4, <3>1, ConfigureInv DEF SetTransport, Rebuild, TypeOK
    <2> QED BY <1>20, <2>2, <2>3, <2>4 DEF Reconfigure
<1>21. CASE UNCHANGED vars
    BY <1>21
       DEF vars, request, reply, settings, TypeOK, TransportCurrent, Attempts, RetryCount,
           Unsent, BodyState, Built, SettingsSeen, OpenBodies, Ended, Outcomes, FileState,
           HookState, StatusOK, BodyWhole, PolicyEnforced
<1> QED BY <1>1, <1>2, <1>3, <1>4, <1>5, <1>6, <1>7, <1>8, <1>9, <1>10, <1>11, <1>12,
        <1>13, <1>14, <1>15, <1>16, <1>17, <1>18, <1>19, <1>20, <1>21 DEF Next, Step

----------------------------------------------------------------------------
\* The invariant of a call of Send, for every request, every number of retries
\* and every change of the settings meanwhile.
THEOREM Invariance == Spec => []Inv
BY InitInv, NextInv, PTL DEF Spec

\* Type correctness.
THEOREM Typing == Spec => []TypeOK
BY Invariance, PTL DEF Inv

\* A request that the transport's rules forbid is never sent (transport.go): the
\* transport in use is always the one of the settings as they are.
THEOREM RulesHold == Spec => []PolicyEnforced
BY Invariance, PTL DEF Inv

\* Only a SetRetry between buildBody and the copy of the settings can make an
\* attempt send a body that an earlier one has read (request.go, willRetry).
THEOREM BodiesWhole == Spec => []BodyWhole
BY Invariance, PTL DEF Inv

\* Each hook runs at most once: the before hooks ahead of the first attempt, then
\* either all error hooks or the after hooks up to the first that fails, for any
\* number of hooks (request.go, Send).
THEOREM HooksRunOnce == Spec => []HooksOnce
<1>1. Inv => HooksOnce
    <2> SUFFICES ASSUME Inv PROVE HooksOnce
        OBVIOUS
    <2>1. snap.onError \in Nat /\ snap.after \in Nat
        BY ConfigTypes DEF Inv, TypeOK
    <2>2. hooks.after <= snap.after
        BY <2>1 DEF Inv, HookState
    <2> QED BY <2>1, <2>2 DEF Inv, HookState, HooksOnce, Ended, TypeOK
<1> QED BY <1>1, Invariance, PTL

\* Bodies, contexts and files are not left behind (request.go, Send; client.go,
\* DownloadWithProgress; download.go, saveToFile).
THEOREM ClosesAll == Spec => []NothingLeaks
<1>1. Inv => NothingLeaks
    BY DEF Inv, OpenBodies, Outcomes, FileState, NothingLeaks, Ended, TypeOK
<1> QED BY <1>1, Invariance, PTL
=============================================================================
