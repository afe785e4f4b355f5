---------------------------- MODULE MCHTTPClient ----------------------------
(***************************************************************************)
(* Every kind of body; a reader that can be read once with and without     *)
(* timeout, own retries and streaming; a download; and two changes of the  *)
(* settings while the request is sent.                                     *)
(***************************************************************************)
EXTENDS HTTPClient

Bodies == [timeout : {TRUE}, retry : {0}, body : {"none", "built", "replayable"},
           stream : {FALSE}, scheme : {"http"}, download : {FALSE}]
Raw == [timeout : BOOLEAN, retry : {0, 1}, body : {"once"}, stream : BOOLEAN,
        scheme : {"http"}, download : {FALSE}]
Downloads == [timeout : {FALSE}, retry : {0}, body : {"none"}, stream : {TRUE},
              scheme : {"https"}, download : {TRUE}]
MCBuilders == Bodies \cup Raw \cup Downloads

Fresh == [retry |-> 0, httpsOnly |-> FALSE, hostAllowed |-> TRUE, anyStatus |-> FALSE,
          timeout |-> FALSE, before |-> 0, after |-> 2, onError |-> 1]
MCClients == {Fresh, [Fresh EXCEPT !.retry = 1, !.before = 1], [Fresh EXCEPT !.httpsOnly = TRUE]}
=============================================================================
