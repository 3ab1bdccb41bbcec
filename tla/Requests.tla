------------------------------ MODULE Requests ------------------------------
(***************************************************************************)
(* What a request is answered: the origin check of bootstrap.ts, what the  *)
(* guards and the handler end with, and the exception filter with the      *)
(* sanitizer behind it. A body is the path of keys to one of its values,   *)
(* the keys told apart by whether the sanitizer counts them as sensitive.  *)
(***************************************************************************)
EXTENDS Settings

\* The classes of common.exception.ts, by status.
OwnStatuses == {400, 401, 403, 404, 409, 500}

\* NestJS's own: the throttler (429), the router (404), the health check (503).
NestStatuses == {404, 429, 503}

\* How guards and handler end: with data, or with something thrown.
Outcomes ==
  {<<"ok", 200>>, <<"error", 500>>}
    \cup {<<"own", status>> : status \in OwnStatuses}
    \cup {<<"nest", status>> : status \in NestStatuses}

KeyKinds == {"plain", "sensitive"}

Request(changing, origin, body, outcome) ==
  [changing |-> changing, origin |-> origin, body |-> body, outcome |-> outcome]

-----------------------------------------------------------------------------
(* LogSanitizer *)

MaxDepth == 10

\* The level of the object that holds the i-th key of the body, when the body is
\* the field of a field of what is sanitized.
Level(i) == i + 1

\* What is left of the value at the end of the path.
sanitize(body) ==
  LET masks == {i \in DOMAIN body : body[i] = "sensitive"}
      cuts  == {i \in DOMAIN body : Level(i) >= MaxDepth}
  IN CASE masks \cup cuts = {}                                -> "shown"
       [] \E i \in masks : \A j \in masks \cup cuts : i < j \/ (i = j /\ i \notin cuts)
                                                              -> "masked"
       [] OTHER                                               -> "cut"

-----------------------------------------------------------------------------
(* HttpExceptionFilter *)

\* What the answer shows of the URL of the request with its query, of its body,
\* of the stack and of the message of what was thrown.
NoDetail == [path |-> "absent", body |-> "absent", stack |-> "absent", detail |-> "absent"]

\* The sanitizer looks at keys, and leaves texts as they are: only in the body,
\* which has keys, can it mask or cut anything.
DebugDetail(request) ==
  [path |-> "shown", body |-> sanitize(request.body), stack |-> "shown", detail |-> "shown"]

\* The two shapes of an error: {success, error: {code, message}} and what NestJS
\* makes of its own exceptions.
Answer(status, shape) == [status |-> status, shape |-> shape, debugDetail |-> NoDetail]

\* setDebugDetail, and getResponse that puts it beside the envelope.
WithDebugDetail(answer, request) == [answer EXCEPT !.debugDetail = DebugDetail(request)]

\* Mutant of catch: whether to add the detail is not asked.
catchVerbosely(config, request) ==
  WithDebugDetail(Answer(request.outcome[2], "envelope"), request)

\* Own exceptions and errors become the envelope; a NestHttpException does when
\* details are on, otherwise its own response is sent.
catch(config, request) ==
  LET status == request.outcome[2]
      isDebugDetailEnabled == config["RESPONSE_DEBUG_DETAIL"] = Bool(TRUE)
  IN CASE isDebugDetailEnabled -> WithDebugDetail(Answer(status, "envelope"), request)
       [] ~isDebugDetailEnabled /\ request.outcome[1] = "nest" -> Answer(status, "nest")
       [] OTHER -> Answer(status, "envelope")

-----------------------------------------------------------------------------
(* The middleware of bootstrap.ts *)

\* A state-changing method from an origin that APP_CORS_URL does not list.
CsrfRejected(request) == request.changing /\ request.origin = "foreign"

Respond(config, request) ==
  CASE CsrfRejected(request)        -> Answer(403, "envelope")
    [] ~CsrfRejected(request) /\ request.outcome[1] = "ok" -> Answer(200, "envelope")
    [] OTHER                        -> catch(config, request)

\* app.set('trust proxy', ...): a text that is a number counts as one.
TrustedProxies(config) ==
  LET set == config["TRUST_PROXY"] IN
  IF set[1] = "text" /\ NumberOf(set[2]) # {}
    THEN Num(CHOOSE n \in NumberOf(set[2]) : TRUE)
    ELSE set

=============================================================================
