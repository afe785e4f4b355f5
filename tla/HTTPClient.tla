----------------------------- MODULE HTTPClient -----------------------------
(***************************************************************************)
(* The HTTP client: Send of one request (modules/httpclient/request.go),   *)
(* its retries (retry.go), the final handler and Download (client.go,      *)
(* download.go) and the transport's rules (transport.go), while other      *)
(* goroutines change the client's settings.  Requests meet only in these   *)
(* settings, which no request writes, so one request is enough.            *)
(*                                                                         *)
(* The server answers, fails or hangs as it likes.  The raw body of a      *)
(* request is a reader that can be read once, or one net/http can rewind   *)
(* (replayable); the bodies built from JSON, forms and files are buffered. *)
(***************************************************************************)
EXTENDS Naturals, Sequences, FiniteSets

CONSTANTS
    MaxRetry,     \* bound on retry counts
    MaxConfig,    \* bound on changes of the settings during the request
    MaxHooks,     \* bound on the hooks of each kind
    Builders,     \* requests: records of timeout, retry, body, stream, scheme, download
    Clients       \* initial settings

Statuses == {"ok", "not found", "fault"}

Configs == [retry : 0..MaxRetry, httpsOnly : BOOLEAN, hostAllowed : BOOLEAN,
            anyStatus : BOOLEAN, timeout : BOOLEAN,
            before : Nat, after : Nat, onError : Nat]

\* A download is Get(url).Stream().Send(), without a timeout of its own.
ASSUME HTTPClientAssumption ==
    /\ MaxRetry \in Nat /\ MaxConfig \in Nat /\ MaxHooks \in Nat
    /\ Clients \subseteq Configs
    /\ Builders \subseteq [timeout : BOOLEAN, retry : Nat, stream : BOOLEAN, download : BOOLEAN,
                           body : {"none", "built", "once", "replayable"},
                           scheme : {"http", "https"}]
    /\ \A b \in Builders : b.download => b.stream /\ ~b.timeout

VARIABLES
    rb,           \* the requestBuilder
    client,       \* the settings, under client.mu
    transport,    \* underlying.Transport: what it refuses
    configs,      \* changes made so far
    pc,
    ctx,          \* none (no timeout), live, expired or cancelled
    buffered,     \* the request has a GetBody
    consumed,     \* the raw reader was read
    retryAtBody,  \* client.retryCount as willRetry saw it
    snap,         \* the copy of the settings Send works with
    attempt,      \* attempts started, and what each put on the wire
    wire,
    limited,      \* the attempt was started with a client timeout
    resp,         \* answer of the last attempt: a status, "error" or "none"
    open,         \* attempts whose response body is open
    hooks,        \* how many hooks of each kind ran
    outcome,      \* what Send returned; "bad" carries the response in the error
    guarded,      \* the cancel function is in the stream's Close
    file          \* the file Download writes

request == <<buffered, consumed, retryAtBody, snap>>
reply == <<resp, open, limited>>
settings == <<client, transport, configs>>
vars == <<rb, settings, pc, ctx, request, attempt, wire, reply, hooks, outcome, guarded, file>>

Rules == [httpsOnly : BOOLEAN, hostAllowed : BOOLEAN]
Sent == [body : {"whole", "short"}, permitted : BOOLEAN]
HookCounts == [before : Nat, error : Nat, after : Nat]

TypeOK ==
    /\ rb \in Builders /\ client \in Configs /\ snap \in Configs
    /\ transport \in Rules
    /\ configs \in Nat /\ attempt \in Nat /\ retryAtBody \in Nat
    /\ pc \in {"start", "build", "snapshot", "before", "attempt", "wire", "answered",
               "after", "save", "copy", "returned"}
    /\ ctx \in {"none", "live", "expired", "cancelled"}
    /\ buffered \in BOOLEAN /\ consumed \in BOOLEAN
    /\ limited \in BOOLEAN /\ guarded \in BOOLEAN
    /\ wire \in Seq(Sent)
    /\ resp \in Statuses \cup {"error", "none"}
    /\ open \subseteq Nat
    /\ hooks \in HookCounts
    /\ outcome \in {"none", "error", "bad", "response"}
    /\ file \in {"old", "partial", "whole", "none"}

\* buildTransport.
BuildTransport(c) == [httpsOnly |-> c.httpsOnly, hostAllowed |-> c.hostAllowed]

Init ==
    /\ rb \in Builders
    /\ client \in Clients
    /\ transport = BuildTransport(client)
    /\ configs = 0
    /\ pc = "start"
    /\ ctx = "none"
    /\ buffered = FALSE /\ consumed = FALSE /\ retryAtBody = 0
    /\ snap = client
    /\ attempt = 0 /\ wire = <<>>
    /\ resp = "none" /\ open = {} /\ limited = FALSE
    /\ hooks = [before |-> 0, error |-> 0, after |-> 0]
    /\ outcome = "none" /\ guarded = FALSE
    /\ file = "old"

----------------------------------------------------------------------------
(* Settings, changed by other goroutines.                                   *)

Configure(c) ==
    /\ configs < MaxConfig /\ pc # "returned"
    /\ configs' = configs + 1
    /\ client' = c
    /\ UNCHANGED <<rb, pc, ctx, request, attempt, wire, reply, hooks, outcome, guarded, file>>

\* SetRetry, SetTimeout and SetValidateStatus.
Set ==
    /\ \/ \E n \in 0..MaxRetry : Configure([client EXCEPT !.retry = n])
       \/ \E b \in BOOLEAN : Configure([client EXCEPT !.timeout = b])
       \/ \E b \in BOOLEAN : Configure([client EXCEPT !.anyStatus = b])
    /\ UNCHANGED transport

\* OnBeforeRequest, OnAfterResponse and OnError.
AddHook ==
    /\ \/ client.before < MaxHooks /\ Configure([client EXCEPT !.before = @ + 1])
       \/ client.after < MaxHooks /\ Configure([client EXCEPT !.after = @ + 1])
       \/ client.onError < MaxHooks /\ Configure([client EXCEPT !.onError = @ + 1])
    /\ UNCHANGED transport

\* RequireHTTPS, SetValidateHost and SetTLSConfig rebuild the transport.
Rebuild(c) ==
    /\ Configure(c)
    /\ transport' = BuildTransport(c)

\* Mutant: each setter rebuilds the transport from its own rule.
SetTransport_OwnRule ==
    \/ \E b \in BOOLEAN : /\ Configure([client EXCEPT !.httpsOnly = b])
                          /\ transport' = [httpsOnly |-> b, hostAllowed |-> TRUE]
    \/ \E b \in BOOLEAN : /\ Configure([client EXCEPT !.hostAllowed = b])
                          /\ transport' = [httpsOnly |-> FALSE, hostAllowed |-> b]

SetTransport ==
    \/ \E b \in BOOLEAN : Rebuild([client EXCEPT !.httpsOnly = b])
    \/ \E b \in BOOLEAN : Rebuild([client EXCEPT !.hostAllowed = b])
    \/ Rebuild(client)

----------------------------------------------------------------------------
(* Send.                                                                    *)

Cancelled == IF ctx = "none" THEN "none" ELSE "cancelled"

Return(what) == pc' = (IF rb.download /\ what = "response" THEN "save" ELSE "returned")
                /\ outcome' = what

\* Mutant: the request's context is made without the timeout.
Start_NoTimeout ==
    /\ pc = "start"
    /\ pc' = "build"
    /\ UNCHANGED <<rb, settings, ctx, request, attempt, wire, reply, hooks, outcome, guarded, file>>

Start ==
    /\ pc = "start"
    /\ ctx' = IF rb.timeout THEN "live" ELSE "none"
    /\ pc' = "build"
    /\ UNCHANGED <<rb, settings, request, attempt, wire, reply, hooks, outcome, guarded, file>>

\* Mutant: only the builder's own count is looked at.
WillRetry_OwnCount == rb.retry > 0

WillRetry == rb.retry > 0 \/ client.retry > 0

\* buildRequest: a URL or a body that cannot be built ends the call.
BuildFails ==
    /\ pc = "build"
    /\ ctx' = Cancelled
    /\ Return("error")
    /\ UNCHANGED <<rb, settings, request, attempt, wire, reply, hooks, guarded, file>>

\* A raw body is buffered if the request will be retried; net/http gives the
\* request a GetBody for a reader it knows.
BuildRequest ==
    /\ pc = "build"
    /\ LET reads == rb.body \in {"once", "replayable"} /\ WillRetry
       IN /\ buffered' = (rb.body \in {"built", "replayable"} \/ reads)
          /\ consumed' = reads
    /\ retryAtBody' = client.retry
    /\ pc' = "snapshot"
    /\ UNCHANGED <<rb, settings, ctx, snap, attempt, wire, reply, hooks, outcome, guarded, file>>

Snapshot ==
    /\ pc = "snapshot"
    /\ snap' = client
    /\ pc' = "before"
    /\ UNCHANGED <<rb, settings, ctx, buffered, consumed, retryAtBody, attempt, wire, reply,
                   hooks, outcome, guarded, file>>

\* The next before hook runs, and ends the call if it fails; after the last
\* one come the attempts.
BeforeHooks ==
    /\ pc = "before"
    /\ IF hooks.before < snap.before
       THEN /\ hooks' = [hooks EXCEPT !.before = @ + 1]
            /\ \/ UNCHANGED <<pc, ctx, outcome>>
               \/ ctx' = Cancelled /\ Return("error")
       ELSE pc' = "attempt" /\ UNCHANGED <<ctx, outcome, hooks>>
    /\ UNCHANGED <<rb, settings, request, attempt, wire, reply, guarded, file>>

RetryCount == IF rb.retry > 0 THEN rb.retry ELSE snap.retry

\* secureRoundTripper.RoundTrip.
Permits(rules) == (rules.httpsOnly => rb.scheme = "https") /\ rules.hostAllowed

\* The body of an attempt: a fresh copy, or what is left of the reader.
AttemptBody ==
    IF rb.body = "none" \/ buffered \/ ~consumed THEN "whole" ELSE "short"

\* execFn: the request goes out, or the context or the transport refuses it.
\* The transport and the client's timeout are those of this moment.
Attempt ==
    /\ pc = "attempt"
    /\ attempt' = attempt + 1
    /\ limited' = client.timeout
    /\ IF ctx # "expired" /\ Permits(transport)
       THEN /\ wire' = Append(wire, [body |-> AttemptBody, permitted |-> Permits(client)])
            /\ consumed' = (consumed \/ (rb.body = "once" /\ ~buffered))
            /\ pc' = "wire" /\ UNCHANGED resp
       ELSE /\ resp' = "error" /\ pc' = "answered"
            /\ UNCHANGED <<wire, consumed>>
    /\ UNCHANGED <<rb, settings, ctx, buffered, retryAtBody, snap, open, hooks, outcome, guarded, file>>

\* A middleware answers without calling the next handler; the answer has no
\* stream, which Download could not read.
MiddlewareAnswers ==
    /\ pc = "attempt" /\ ~rb.download
    /\ attempt' = attempt + 1
    /\ resp' \in Statuses
    /\ pc' = "answered"
    /\ UNCHANGED <<rb, settings, ctx, request, wire, open, limited, hooks, outcome, guarded, file>>

\* The server answers; without Stream the body is read, up to the limit, and
\* closed.
Answer ==
    /\ pc = "wire"
    /\ ctx # "expired"
    /\ resp' \in Statuses
    /\ open' = IF rb.stream THEN open \cup {attempt} ELSE open
    /\ pc' = "answered"
    /\ UNCHANGED <<rb, settings, ctx, request, attempt, wire, limited, hooks, outcome, guarded, file>>

\* The connection or the reading fails, or the body is longer than the limit.
Fail ==
    /\ pc = "wire"
    /\ resp' = "error"
    /\ pc' = "answered"
    /\ UNCHANGED <<rb, settings, ctx, request, attempt, wire, open, limited, hooks, outcome, guarded, file>>

\* Do returns when the context or the client's timeout runs out.
GiveUp ==
    /\ pc = "wire"
    /\ ctx = "expired" \/ limited
    /\ resp' = "error"
    /\ pc' = "answered"
    /\ UNCHANGED <<rb, settings, ctx, request, attempt, wire, open, limited, hooks, outcome, guarded, file>>

Expire ==
    /\ ctx = "live" /\ outcome = "none"
    /\ ctx' = "expired"
    /\ UNCHANGED <<rb, settings, pc, request, attempt, wire, reply, hooks, outcome, guarded, file>>

Retryable == resp \in {"error", "fault"}

\* Mutant: the body of an answer that is tried again stays open.
Retry_KeepsBody ==
    /\ pc = "answered"
    /\ Retryable /\ attempt <= RetryCount
    /\ pc' = "attempt"
    /\ UNCHANGED <<rb, settings, ctx, request, attempt, wire, reply, hooks, outcome, guarded, file>>

\* retryConfig.execute: the body is closed, and after a pause comes the next
\* attempt, whatever the context says.
Retry ==
    /\ pc = "answered"
    /\ Retryable /\ attempt <= RetryCount
    /\ open' = open \ {attempt}
    /\ pc' = "attempt"
    /\ UNCHANGED <<rb, settings, ctx, request, attempt, wire, resp, limited, hooks, outcome, guarded, file>>

Final == pc = "answered" /\ ~(Retryable /\ attempt <= RetryCount)
StatusOK == snap.anyStatus \/ resp = "ok"

RunErrorHooks == hooks' = [hooks EXCEPT !.error = @ + snap.onError]

Failed ==
    /\ Final
    /\ resp = "error"
    /\ ctx' = Cancelled
    /\ RunErrorHooks
    /\ Return("error")
    /\ UNCHANGED <<rb, settings, request, attempt, wire, reply, guarded, file>>

\* Mutant: the call goes on after the error hooks.
BadStatus_FallsThrough ==
    /\ Final
    /\ resp # "error" /\ ~StatusOK
    /\ RunErrorHooks
    /\ pc' = "after"
    /\ ctx' = Cancelled
    /\ UNCHANGED <<rb, settings, request, attempt, wire, reply, outcome, guarded, file>>

\* The error holds the response; a stream's body is still open in it.
BadStatus ==
    /\ Final
    /\ resp # "error" /\ ~StatusOK
    /\ ctx' = Cancelled
    /\ RunErrorHooks
    /\ Return("bad")
    /\ UNCHANGED <<rb, settings, request, attempt, wire, reply, guarded, file>>

\* The cancel function moves into the Close of a stream.
Accepted ==
    /\ Final
    /\ resp # "error" /\ StatusOK
    /\ guarded' = (rb.stream /\ ctx # "none")
    /\ ctx' = IF guarded' THEN ctx ELSE Cancelled
    /\ pc' = "after"
    /\ UNCHANGED <<rb, settings, request, attempt, wire, reply, hooks, outcome, file>>

\* The next after hook runs, and ends the call if it fails: those behind it
\* are skipped, and no error hook runs.
AfterHooks ==
    /\ pc = "after"
    /\ IF hooks.after < snap.after
       THEN /\ hooks' = [hooks EXCEPT !.after = @ + 1]
            /\ UNCHANGED <<pc, outcome>> \/ Return("bad")
       ELSE Return("response") /\ UNCHANGED hooks
    /\ UNCHANGED <<rb, settings, ctx, request, attempt, wire, reply, guarded, file>>

\* The caller closes the stream it was given.
CloseStream ==
    /\ pc = "returned" /\ outcome = "response"
    /\ open' = {}
    /\ ctx' = IF guarded THEN Cancelled ELSE ctx
    /\ open # {}
    /\ UNCHANGED <<rb, settings, pc, request, attempt, wire, resp, limited, hooks, outcome, guarded, file>>

----------------------------------------------------------------------------
(* Download, after a Send that succeeded; its answer has a body, since no   *)
(* middleware made it up.                                                   *)

CreateFile ==
    /\ pc = "save"
    /\ \/ file' = "partial" /\ pc' = "copy" /\ UNCHANGED <<open, outcome>>
       \/ pc' = "returned" /\ open' = {} /\ outcome' = "error" /\ UNCHANGED file
    /\ UNCHANGED <<rb, settings, ctx, request, attempt, wire, resp, limited, hooks, guarded>>

\* saveToFile copies and closes; the deferred call closes the stream.
CopyFile ==
    /\ pc = "copy"
    /\ \/ file' = "whole" /\ UNCHANGED outcome
       \/ file' = "none" /\ outcome' = "error"
    /\ pc' = "returned" /\ open' = {}
    /\ UNCHANGED <<rb, settings, ctx, request, attempt, wire, resp, limited, hooks, guarded>>

----------------------------------------------------------------------------

Reconfigure == Set \/ AddHook \/ SetTransport

\* Steps of the goroutine that called Send; Answer and Fail are the server's.
Step ==
    \/ Start \/ BuildFails \/ BuildRequest \/ Snapshot \/ BeforeHooks
    \/ Attempt \/ MiddlewareAnswers \/ GiveUp \/ Retry
    \/ Failed \/ BadStatus \/ Accepted \/ AfterHooks \/ CreateFile \/ CopyFile

Next == Reconfigure \/ Step \/ Answer \/ Fail \/ Expire \/ CloseStream

\* The goroutine runs and timers fire; no server has to answer.
Spec == Init /\ [][Next]_vars /\ WF_vars(Step) /\ WF_vars(Expire)

----------------------------------------------------------------------------

\* Every attempt sends the whole body.  A raw reader is buffered only when
\* willRetry expects a retry, and Send decides on retries by a later read of
\* the count: only a SetRetry between the two lets an attempt send what an
\* earlier one left.  buildBody and Send.
BodyWhole ==
    \A n \in DOMAIN wire :
        wire[n].body = "short" =>
            /\ n > 1 /\ rb.body = "once"
            /\ retryAtBody = 0 /\ snap.retry > 0 /\ configs > 0

\* Nothing is left behind by a call: when it returns, the only open body is
\* the last one, held by the response or by the error that carries it; the
\* context is over or ends with the stream the caller got, which it leaves
\* alone until then; no part of a file stays after a download that failed.
NothingLeaks ==
    pc = "returned" =>
        /\ open \subseteq (IF rb.stream /\ outcome # "error" THEN {attempt} ELSE {})
        /\ ctx = "live" => guarded /\ outcome # "error"
        /\ (outcome = "response" /\ open # {}) => ctx # "cancelled"
        /\ rb.download => (file = "whole" <=> outcome = "response") /\ file # "partial"

\* Each hook of the settings the call copied runs at most once, however many
\* attempts there are and whatever hooks are added meanwhile.  All before hooks
\* run before the first attempt.  When the attempts failed or the status was
\* refused, all error hooks run and no after hook; when it was accepted, the
\* after hooks run in order up to the first that fails, and all of them, and no
\* error hook, if none does.  Send, request.go.  Nothing is claimed of the error
\* hooks when a hook failed: README.md:104 and :491 of the client say that they
\* run then too, the code runs none.
HooksOnce ==
    /\ hooks.before <= snap.before /\ hooks.after <= snap.after
    /\ attempt > 0 => hooks.before = snap.before
    /\ (pc = "returned" /\ attempt > 0) =>
        IF resp = "error" \/ ~StatusOK
        THEN hooks.error = snap.onError /\ hooks.after = 0
        ELSE IF outcome = "bad" THEN hooks.after > 0
        ELSE hooks.error = 0 /\ hooks.after = snap.after

\* A request that the transport's rules forbid is never sent, whichever setter
\* changed the transport last and whatever attempt it is.
PolicyEnforced == \A n \in DOMAIN wire : wire[n].permitted

\* With a timeout, Send returns although the server may hang in every attempt.
SendReturns == rb.timeout ~> pc = "returned"
=============================================================================
