---------------------------- MODULE HttpListener ----------------------------
(***************************************************************************)
(* The orchestrator's HTTP endpoints (src/rxon/transports/http_server.py). *)
(* Every endpoint parses the request, calls the application's handler and  *)
(* turns what the handler did into one HTTP response.  The handler is the  *)
(* orchestrator's own code: what it does with one request is an "answer",  *)
(* a record whose fields are                                               *)
(*   does     what the handler did: it returned a value, returned a ready  *)
(*            web.Response, or raised one of the exceptions of Raises, or  *)
(*            start() has not set a handler yet ("missing");               *)
(*   status   the status of that web.Response or web.HTTPException;        *)
(*   body     what the value or the web.Response carries;                  *)
(*   access, refresh   the tokens of a "token" body (0 when absent).       *)
(* A response has the last four fields.  Texts, header values and the raw  *)
(* request put into the context are abstracted away.                       *)
(***************************************************************************)
EXTENDS Integers

\* web.HTTPException, PermissionError, ... in the order of the except clauses.
Raises == {"HTTPException", "PermissionError", "RxonRateLimitError",
           "ValueError", "Exception"}

\* What a response body can be to the worker: no body, a falsy JSON value
\* (null or {}), a JSON object that is a plain answer, an error, an "ignored"
\* verdict, a TaskPayload or a TokenResponse; text that is not declared JSON;
\* bytes declared JSON that do not parse.
Bodies == {"none", "falsy", "dict", "error", "ignored", "task", "token",
           "text", "garbled"}

Statuses == {200, 204, 400, 401, 403, 429, 500, 503}

Reply(status, body) ==
  [status |-> status, body |-> body, access |-> 0, refresh |-> 0]

\* An answer of the handler that carries no tokens.
Answer(does, status, body) ==
  [does |-> does, status |-> status, body |-> body, access |-> 0, refresh |-> 0]

NoHandler == Answer("missing", 503, "none")

Payload(a) ==
  [status |-> a.status, body |-> a.body, access |-> a.access, refresh |-> a.refresh]

\* _json_response: a ready web.Response goes out as it is, a value as 200 JSON.
JsonResponse(a) ==
  IF a.does = "response" THEN Payload(a) ELSE [Payload(a) EXCEPT !.status = 200]

\* The except clauses every endpoint ends with.
ErrorResponse(a) ==
  CASE a.does = "HTTPException"      -> Reply(a.status, "error")
    [] a.does = "PermissionError"    -> Reply(403, "error")
    [] a.does = "RxonRateLimitError" -> Reply(429, "error")
    [] a.does = "ValueError"         -> Reply(400, "error")
    [] OTHER                         -> Reply(500, "error")

\* Value: what the endpoint does with a value the handler returned.
\* NotStarted: the body of the 503 sent while start() has not set a handler.
Handled(a, value, notStarted) ==
  IF a.does = "missing" THEN Reply(503, notStarted)
  ELSE IF a.does \in Raises THEN ErrorResponse(a)
  ELSE value

\* "resp or {...}": a falsy value becomes the endpoint's default object.
OrDefault(a) ==
  IF a.does = "return" /\ a.body = "falsy" THEN Reply(200, "dict") ELSE JsonResponse(a)

handle_register(a)    == Handled(a, OrDefault(a), "error")
handle_result(a)      == Handled(a, OrDefault(a), "error")
handle_event(a)       == Handled(a, OrDefault(a), "error")
handle_heartbeat(a)   == Handled(a, JsonResponse(a), "text")
handle_sts(a)         == Handled(a, JsonResponse(a), "text")
handle_sts_refresh(a) == Handled(a, JsonResponse(a), "text")

\* A falsy value means that there is no task: 204.
handle_poll(a) ==
  Handled(a,
          IF a.does = "return" /\ a.body = "falsy" THEN Reply(204, "none")
                                                  ELSE JsonResponse(a),
          "text")

\* The WebSocket endpoint before the upgrade: every exception but
\* PermissionError is a 500, and without a handler nobody is asked.
handle_ws(a) ==
  CASE a.does = "PermissionError"              -> Reply(403, "text")
    [] a.does \in Raises \ {"PermissionError"} -> Reply(500, "text")
    [] OTHER                                   -> Reply(101, "none")

\* The routes registered by setup_routes.
Route(endpoint, a) ==
  CASE endpoint = "register"    -> handle_register(a)
    [] endpoint = "poll"        -> handle_poll(a)
    [] endpoint = "result"      -> handle_result(a)
    [] endpoint = "heartbeat"   -> handle_heartbeat(a)
    [] endpoint = "event"       -> handle_event(a)
    [] endpoint = "sts_token"   -> handle_sts(a)
    [] endpoint = "sts_refresh" -> handle_sts_refresh(a)
=============================================================================
