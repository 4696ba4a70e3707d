------------------------------- MODULE Request -------------------------------
(***************************************************************************)
(* One request through the API's shell: RequestContextMiddleware (api's    *)
(* main.py) around the exception handlers (errors.py), around the session  *)
(* of get_db (db.py), around an endpoint.                                  *)
(*                                                                         *)
(* FastAPI runs the exit code of a dependency with scope="function" when   *)
(* the endpoint has returned and before its response is sent, and throws   *)
(* into it what the endpoint raises; a session left by an exception rolls  *)
(* back.  A body is read before the dependencies are solved.  Headers,     *)
(* messages and the request's ID are left out.                             *)
(***************************************************************************)
EXTENDS Naturals, Sequences

CONSTANTS
    Cap,        \* MAX_BODY_BYTES
    MaxBody     \* bound: the longest body, in the unit of Cap

VARIABLES
    request,    \* its body's length, and the Content-Length it declares (0: none)
    at,         \* where the request is
    received,   \* of its body
    pending,    \* whether the session holds writes that are not committed
    stored,     \* how writes came to be in the database
    lost,       \* history: writes were rolled back
    response,   \* the response to be sent
    status,     \* of the response that was started, NotYet before
    sent,       \* history: every http.response.start
    logged      \* the status in the access log

vars == <<request, at, received, pending, stored, lost, response, status, sent, logged>>

NotYet    == 0
Success == 200
Handled == {401, 404, 409, 422, 429}    \* ApiError and RequestValidationError

Init ==
    /\ request \in [body : 0 .. MaxBody, declared : 0 .. MaxBody]
    /\ at = "arrived" /\ received = 0
    /\ pending = FALSE /\ stored = {} /\ lost = FALSE
    /\ response = NotYet /\ status = NotYet /\ sent = <<>> /\ logged = NotYet
-----------------------------------------------------------------------------
(* The middleware, on the way in *)

Answer(code) == at' = "answering" /\ response' = code

CheckDeclared ==
    /\ at = "arrived"
    /\ IF request.declared > Cap THEN Answer(413)
       ELSE at' = "reading" /\ UNCHANGED response
    /\ UNCHANGED <<request, received, pending, stored, lost, status, sent, logged>>

\* A message of the body, through capped_receive.
Receive ==
    /\ at = "reading" /\ received < request.body
    /\ \E n \in 1 .. request.body - received :
         /\ received' = received + n
         /\ IF received' > Cap THEN Answer(413) ELSE UNCHANGED <<at, response>>
    /\ UNCHANGED <<request, pending, stored, lost, status, sent, logged>>

\* The body is read, or the route takes none; it may not be what the route takes.
Dispatch ==
    /\ at = "reading" /\ received \in {0, request.body}
    /\ (at' = "endpoint" /\ UNCHANGED response) \/ Answer(422)
    /\ UNCHANGED <<request, received, pending, stored, lost, status, sent, logged>>
-----------------------------------------------------------------------------
(* Dependencies and endpoint, inside get_db's session *)

Write ==
    /\ at = "endpoint"
    /\ pending' = TRUE
    /\ UNCHANGED <<request, at, received, stored, lost, response, status, sent, logged>>

RollBack == pending' = FALSE /\ lost' = (lost \/ pending)

Keep(how) == stored' = IF pending THEN stored \cup {how} ELSE stored

\* start_run and cancel_run commit before they tell the queue, a refresh that
\* finds its token reused before it refuses.  A commit that fails may have
\* reached the database all the same.
EndpointCommits ==
    /\ at = "endpoint" /\ pending
    /\ \/ Keep("endpoint") /\ pending' = FALSE /\ UNCHANGED <<at, lost>>
       \/ Keep("unknown") /\ pending' = FALSE /\ at' = "raised" /\ UNCHANGED lost
       \/ RollBack /\ at' = "raised" /\ UNCHANGED stored
    /\ UNCHANGED <<request, received, response, status, sent, logged>>

\* The endpoint returns, and get_db goes on after its yield.
Return_AnswerFirst ==
    /\ at = "endpoint"
    /\ Answer(Success)
    /\ UNCHANGED <<request, received, pending, stored, lost, status, sent, logged>>
Return ==
    /\ at = "endpoint"
    /\ \/ Keep("exit") /\ pending' = FALSE /\ Answer(Success) /\ UNCHANGED lost
       \/ Keep("unknown") /\ pending' = FALSE /\ at' = "raised" /\ UNCHANGED <<lost, response>>
       \/ RollBack /\ at' = "raised" /\ UNCHANGED <<stored, response>>
    /\ UNCHANGED <<request, received, status, sent, logged>>

\* It raises: an error that has a handler, or any other.
Refuse ==
    /\ at = "endpoint"
    /\ RollBack
    /\ \E code \in Handled : Answer(code)
    /\ UNCHANGED <<request, received, stored, status, sent, logged>>

Raise ==
    /\ at = "endpoint"
    /\ RollBack /\ at' = "raised"
    /\ UNCHANGED <<request, received, stored, response, status, sent, logged>>
-----------------------------------------------------------------------------
(* The middleware, on the way out *)

StartResponse ==    \* send_with_id
    /\ at = "answering"
    /\ status' = response /\ sent' = Append(sent, response)
    /\ at' = "sending"
    /\ UNCHANGED <<request, received, pending, stored, lost, response, logged>>

\* The body of the response is sent, or (a stream) raises while it is.
SendBody ==
    /\ at = "sending"
    /\ at' \in IF status = Success THEN {"finally", "raised"} ELSE {"finally"}
    /\ UNCHANGED <<request, received, pending, stored, lost, response, status, sent, logged>>

\* except Exception: a 500, or the connection is cut.
Catch ==
    /\ at = "raised"
    /\ IF status = NotYet THEN Answer(500) ELSE at' = "finally" /\ UNCHANGED response
    /\ UNCHANGED <<request, received, pending, stored, lost, status, sent, logged>>

Log ==
    /\ at = "finally"
    /\ logged' = status /\ at' = "done"
    /\ UNCHANGED <<request, received, pending, stored, lost, response, status, sent>>

Next ==
    \/ CheckDeclared \/ Receive \/ Dispatch
    \/ Write \/ EndpointCommits \/ Return \/ Refuse \/ Raise
    \/ StartResponse \/ SendBody \/ Catch \/ Log

Spec == Init /\ [][Next]_vars
-----------------------------------------------------------------------------
(* Properties *)

\* What has been started cannot be taken back.
AnsweredOnce ==
    /\ Len(sent) <= 1
    /\ at = "done" => sent = <<logged>>

\* db.py: the commit happens before the response is sent, and a failed commit
\* becomes a 500 instead of a silently lost write.
NoLostWrite == Success \in {sent[i] : i \in DOMAIN sent} => ~pending /\ ~lost

\* An error that the client is told of has left nothing behind, except what the
\* endpoint committed itself, and what a 500 cannot know.
ErrorsLeaveNothing ==
    /\ status \notin {NotYet, Success} => "exit" \notin stored
    /\ status \notin {NotYet, 500} => "unknown" \notin stored

\* ADR 0036: no more than the cap is read for an endpoint, whatever was declared.
BodyIsCapped == at = "endpoint" => received <= Cap

\* main.py, errors.py, db.py: the answer of every request, its log line, and
\* what it left in the database agree, whichever part of it fails.
AnswersAreTrue == AnsweredOnce /\ NoLostWrite /\ ErrorsLeaveNothing /\ BodyIsCapped
=============================================================================
