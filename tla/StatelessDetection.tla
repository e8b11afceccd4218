-------------------------- MODULE StatelessDetection --------------------------
(***************************************************************************)
(* The image and text endpoints of one API process: image_detection_       *)
(* service.py, text_detection_service.py and the GPU moderation service    *)
(* they share (gpu_moderation_service.py), whose semaphore admits          *)
(* gpu_max_concurrency calls at a time.                                    *)
(*                                                                         *)
(* A request is a task of the event loop; an action is what it does        *)
(* between two awaits.  asyncio.Semaphore hands a released slot to the     *)
(* first waiter, which holds it from then on.  The GPU service is          *)
(* configured: without it every request that is let in, but an undecodable *)
(* base64 one, is answered 503 at once.                                    *)
(*                                                                         *)
(* Every endpoint is behind the signature check (deps.py, auth_service.py, *)
(* security.py).  What a client sends is a record of Calls: its body, its  *)
(* headers or their absence, its clock behind ours by age, its signature.  *)
(***************************************************************************)
EXTENDS ModerationPolicy

CONSTANTS
    Requests,
    KindOf,               \* "url", "base64" or "text"
    GpuMaxConcurrency,    \* gpu_max_concurrency
    GpuMaxAttempts,       \* max(1, gpu_max_attempts)
    DownloadMaxAttempts,  \* max(1, image_download_max_attempts)
    Replies,              \* what the model may reply
    Calls,                \* what clients send
    Secret,               \* internal_request_secret, or
    NoSecret,             \*   what it is when not configured
    MaxSkew,              \* internal_request_max_skew_sec
    NotAnInteger          \* the age of a timestamp that is no integer

ASSUME DetectionAssumption ==
    /\ KindOf \in [Requests -> {"url", "base64", "text"}]
    /\ IsFiniteSet(Requests)
    /\ GpuMaxConcurrency \in Nat \ {0}
    /\ GpuMaxAttempts \in Nat \ {0}
    /\ DownloadMaxAttempts \in Nat \ {0}
    /\ MaxSkew \in Nat
    /\ \A call \in Calls :
           /\ call.body \in {"malformed", "invalid", "valid"}
           /\ call.headers \in BOOLEAN
           /\ call.age \in Int \cup {NotAnInteger}

VARIABLES
    pc,        \* where a request is
    clients,   \* requests with an open HTTP client
    dirs,      \* requests with a temporary directory
    slots,     \* free slots of the semaphore
    waiters,   \* requests that wait for a slot, first come first
    attempts,  \* GET or GPU attempts that failed so far
    last,      \* last_error of the running or finished loop
    answer     \* what was answered: a status, or 200 with a body

heldVars == <<clients, dirs>>
slotVars == <<slots, waiters>>
vars == <<pc, heldVars, slotVars, attempts, last, answer>>

PcValues == {"new", "get", "getPause", "bytes", "acquire", "waiting", "call",
             "gpuPause", "answered"}
Errors == {"none", "timeout", "upstream", "request", "raised", "invalid"}
Answers ==
    [status : {0, 400, 401, 422, 500, 502, 503, 504}] \cup
    [status : {200}, body : [top : Categories, nsfw : BOOLEAN, severity : Severities]]

DetectionTypeOK ==
    /\ pc \in [Requests -> PcValues]
    /\ clients \subseteq Requests
    /\ dirs \subseteq Requests
    /\ slots \in 0..GpuMaxConcurrency
    /\ waiters \in Seq(Requests)
    /\ attempts \in [Requests -> Nat]
    /\ last \in [Requests -> Errors]
    /\ answer \in [Requests -> Answers]

NoAnswer == [status |-> 0]

Init ==
    /\ pc = [r \in Requests |-> "new"]
    /\ clients = {}
    /\ dirs = {}
    /\ slots = GpuMaxConcurrency
    /\ waiters = <<>>
    /\ attempts = [r \in Requests |-> 0]
    /\ last = [r \in Requests |-> "none"]
    /\ answer = [r \in Requests |-> NoAnswer]

At(r, label) == pc[r] = label
Jump(r, label) == pc' = [pc EXCEPT ![r] = label]

\* The response of the route, or that of an error handler.
Respond(r, body) ==
    /\ Jump(r, "answered")
    /\ answer' = [answer EXCEPT ![r] = body]

RespondError(r, status) == Respond(r, [status |-> status])

-----------------------------------------------------------------------------
(* Letting a request in.                                                   *)

\* sign_request: a hex digest that no other key and no other timestamp, path
\* or body has.  The path is the endpoint's; the method is always POST.
Sign(secret, age, path, body) ==
    [hex |-> TRUE, key |-> secret, message |-> <<age, path, body>>]

VerifySignature(r, call) ==
    /\ call.signature.hex
    /\ call.signature = Sign(Secret, call.age, KindOf[r], call.body)

\* AuthService.authenticate; every way it fails is a 401.
Authentic(r, call) ==
    /\ call.headers
    /\ Secret # NoSecret
    /\ call.age # NotAnInteger
    /\ call.age \in (-MaxSkew)..MaxSkew
    /\ VerifySignature(r, call)

\* The answer to a request that is not let in, 0 to one that is.  A body that
\* is no JSON is refused before the dependency require_signed_request is
\* solved, one that misses a field after it.
Refusal(r, call) ==
    CASE call.body = "malformed" -> 422
      [] call.body # "malformed" /\ ~Authentic(r, call) -> 401
      [] call.body = "invalid" /\ Authentic(r, call) -> 422
      [] OTHER -> 0

-----------------------------------------------------------------------------
(* Getting the bytes.                                                      *)

\* detect_url opens a client, detect_base64 decodes (text that is not ASCII
\* raises another exception than the one caught), detect has its text.
Admit(r) ==
    \/ /\ KindOf[r] = "url"
       /\ clients' = clients \cup {r}
       /\ Jump(r, "get") /\ UNCHANGED answer
    \/ /\ KindOf[r] = "base64"
       /\ \/ Jump(r, "bytes") /\ UNCHANGED answer
          \/ \E status \in {400, 500} : RespondError(r, status)
       /\ UNCHANGED clients
    \/ /\ KindOf[r] = "text"
       /\ Jump(r, "acquire") /\ UNCHANGED <<clients, answer>>

\* A request arrives, and is refused or handled.
Receive(r) ==
    /\ At(r, "new")
    /\ \E call \in Calls :
           IF Refusal(r, call) = 0
           THEN Admit(r)
           ELSE RespondError(r, Refusal(r, call)) /\ UNCHANGED clients
    /\ UNCHANGED <<dirs, slotVars, attempts, last>>

\* Mutant of DownloadStatus: a timeout is answered as the client's own.
DownloadStatusOther(error) ==
    CASE error = "timeout" -> 408
      [] error = "upstream" -> 502
      [] error = "request" -> 400

\* The errors after the last attempt of _download_image_with_retries.
DownloadStatus(error) ==
    CASE error = "timeout" -> 504
      [] error = "upstream" -> 502
      [] error = "request" -> 400

\* Mutant of Get: the client stays open when the download fails.
GetLeavesClient(r) ==
    /\ At(r, "get")
    /\ \/ /\ Jump(r, "bytes")
          /\ clients' = clients \ {r}
          /\ attempts' = [attempts EXCEPT ![r] = 0]
          /\ UNCHANGED <<last, answer>>
       \/ /\ \E status \in {400, 500} : RespondError(r, status)
          /\ UNCHANGED <<clients, attempts, last>>
       \/ \E error \in {"timeout", "upstream", "request"} :
              /\ attempts' = [attempts EXCEPT ![r] = @ + 1]
              /\ last' = [last EXCEPT ![r] = error]
              /\ IF attempts[r] + 1 < DownloadMaxAttempts
                 THEN Jump(r, "getPause") /\ UNCHANGED answer
                 ELSE RespondError(r, DownloadStatus(error))
              /\ UNCHANGED clients
    /\ UNCHANGED <<dirs, slotVars>>

\* One GET.  A status under 500 is answered at once, and so is an exception
\* that nothing catches (a URL httpx cannot parse); a timeout, a status of
\* 500 or more or another request error is tried again.  The client is
\* closed on every way out.
Get(r) ==
    /\ At(r, "get")
    /\ \/ /\ Jump(r, "bytes")
          /\ clients' = clients \ {r}
          /\ attempts' = [attempts EXCEPT ![r] = 0]
          /\ UNCHANGED <<last, answer>>
       \/ /\ \E status \in {400, 500} : RespondError(r, status)
          /\ clients' = clients \ {r}
          /\ UNCHANGED <<attempts, last>>
       \/ \E error \in {"timeout", "upstream", "request"} :
              /\ attempts' = [attempts EXCEPT ![r] = @ + 1]
              /\ last' = [last EXCEPT ![r] = error]
              /\ IF attempts[r] + 1 < DownloadMaxAttempts
                 THEN Jump(r, "getPause") /\ UNCHANGED <<clients, answer>>
                 ELSE /\ RespondError(r, DownloadStatus(error))
                      /\ clients' = clients \ {r}
    /\ UNCHANGED <<dirs, slotVars>>

\* _sleep_before_retry, of either loop; after the last attempt nobody sleeps.
Resume(r) ==
    /\ \/ At(r, "getPause") /\ Jump(r, "get")
       \/ At(r, "gpuPause") /\ Jump(r, "acquire")
    /\ UNCHANGED <<heldVars, slotVars, attempts, last, answer>>

\* _detect_image_bytes up to the GPU: no bytes or too many are refused, and
\* bytes that cannot be written to the temporary directory are a 500.
CheckBytes(r) ==
    /\ At(r, "bytes")
    /\ \/ /\ \E status \in {400, 500} : RespondError(r, status)
          /\ UNCHANGED dirs
       \/ /\ Jump(r, "acquire")
          /\ dirs' = dirs \cup {r}
          /\ UNCHANGED answer
    /\ UNCHANGED <<clients, slotVars, attempts, last>>

-----------------------------------------------------------------------------
(* The GPU service.                                                        *)

\* async with self._semaphore: a slot, or a place behind all who wait.
Acquire(r) ==
    /\ At(r, "acquire")
    /\ IF slots > 0 /\ waiters = <<>>
       THEN /\ slots' = slots - 1 /\ Jump(r, "call") /\ UNCHANGED waiters
       ELSE /\ waiters' = Append(waiters, r) /\ Jump(r, "waiting") /\ UNCHANGED slots
    /\ UNCHANGED <<heldVars, attempts, last, answer>>

\* Mutant of Parses: a single object with scores will do.
ParsesUnchecked(r, reply) == reply.shape \in {"list", "object"} /\ Len(reply.items) = 1

Parses(r, reply) ==
    IF KindOf[r] = "text" THEN TextParses(reply) ELSE BatchParses(reply, 1)

\* The end of async with self._semaphore: the slot goes to the first waiter or
\* back, and r goes on at label.  asyncio keeps a woken waiter in its queue
\* until its task runs; nobody else can take its slot in between.
Leave(r, label) ==
    IF waiters = <<>>
    THEN slots' = slots + 1 /\ UNCHANGED waiters /\ pc' = [pc EXCEPT ![r] = label]
    ELSE /\ waiters' = Tail(waiters) /\ UNCHANGED slots
         /\ pc' = [pc EXCEPT ![r] = label, ![Head(waiters)] = "call"]

\* Mutant of CallFails: one attempt too few.
CallFailsEarly(r, error) ==
    /\ attempts' = [attempts EXCEPT ![r] = @ + 1]
    /\ last' = [last EXCEPT ![r] = error]
    /\ IF attempts[r] + 2 < GpuMaxAttempts
       THEN Leave(r, "gpuPause") /\ UNCHANGED <<dirs, answer>>
       ELSE /\ Leave(r, "answered")
            /\ dirs' = dirs \ {r}
            /\ answer' = [answer EXCEPT ![r] =
                             [status |-> IF error = "invalid" THEN 502 ELSE 503]]

\* Mutant of CallFails: an attempt that is tried again never leaves its slot.
CallFailsKeepsSlot(r, error) ==
    /\ attempts' = [attempts EXCEPT ![r] = @ + 1]
    /\ last' = [last EXCEPT ![r] = error]
    /\ IF attempts[r] + 1 < GpuMaxAttempts
       THEN Jump(r, "gpuPause") /\ UNCHANGED <<slotVars, dirs, answer>>
       ELSE /\ Leave(r, "answered")
            /\ dirs' = dirs \ {r}
            /\ answer' = [answer EXCEPT ![r] =
                             [status |-> IF error = "invalid" THEN 502 ELSE 503]]

\* The except of the attempt and, after the last one, _raise_model_failure:
\* a reply that did not parse is an AppError and raised as it is.
CallFails(r, error) ==
    /\ attempts' = [attempts EXCEPT ![r] = @ + 1]
    /\ last' = [last EXCEPT ![r] = error]
    /\ IF attempts[r] + 1 < GpuMaxAttempts
       THEN Leave(r, "gpuPause") /\ UNCHANGED <<dirs, answer>>
       ELSE /\ Leave(r, "answered")
            /\ dirs' = dirs \ {r}
            /\ answer' = [answer EXCEPT ![r] =
                             [status |-> IF error = "invalid" THEN 502 ELSE 503]]

\* The call of the model returns or raises.  Parsing, the answer and the end
\* of the temporary directory follow without an await.
Call(r) ==
    /\ At(r, "call")
    /\ \/ \E reply \in Replies :
              /\ Parses(r, reply)
              /\ Leave(r, "answered")
              /\ dirs' = dirs \ {r}
              /\ answer' = [answer EXCEPT ![r] =
                               [status |-> 200, body |-> Answer(reply.items[1].out)]]
              /\ UNCHANGED <<attempts, last>>
       \/ \E reply \in Replies : ~Parses(r, reply) /\ CallFails(r, "invalid")
       \/ CallFails(r, "raised")
    /\ UNCHANGED clients

-----------------------------------------------------------------------------

Step(r) ==
    \/ Receive(r) \/ Get(r) \/ Resume(r) \/ CheckBytes(r) \/ Acquire(r) \/ Call(r)

Next == \E r \in Requests : Step(r)

Spec == Init /\ [][Next]_vars

\* A task whose await returns is run: GET and model calls end by their
\* timeouts, and a waiter becomes a caller when it is handed a slot.
FairSpec == Spec /\ \A r \in Requests : WF_vars(Step(r))

-----------------------------------------------------------------------------
(* Properties.                                                             *)

Callers == {r \in Requests : pc[r] = "call"}

\* A slot belongs to an attempt (async with self._semaphore inside the loop of
\* gpu_moderation_service.py) and not to a request: an attempt that ends, by
\* an answer, an exception or an invalid reply, takes no slot with it into the
\* backoff, the next attempt or the response, and gives none back twice.
SlotsAddUp == slots + Cardinality(Callers) = GpuMaxConcurrency

\* What is open belongs to the part of the request that uses it: a client
\* only to a download and a directory only to a moderation, also while the
\* request waits or sleeps, and an answered request holds nothing.
HoldsWhatItUses ==
    /\ clients = {r \in Requests : pc[r] \in {"get", "getPause"}}
    /\ dirs = {r \in Requests : /\ KindOf[r] # "text"
                                /\ pc[r] \in {"acquire", "waiting", "call", "gpuPause"}}

\* A 502, 503 or 504 is answered only when every attempt of the loop failed,
\* and it is the error of the last one, whatever the earlier ones were.
ErrorIsOfLastAttempt ==
    \A r \in Requests :
        LET status == answer[r].status
        IN /\ status = 504 => attempts[r] = DownloadMaxAttempts /\ last[r] = "timeout"
           /\ status = 503 => attempts[r] = GpuMaxAttempts /\ last[r] = "raised"
           /\ status = 502 =>
                  \/ attempts[r] = DownloadMaxAttempts /\ last[r] = "upstream"
                  \/ attempts[r] = GpuMaxAttempts /\ last[r] = "invalid"

\* A reply that contradicts itself is never an answer: what is called safe is
\* not flagged, and what is flagged has a severity of at least 3.
AnswersAgree ==
    \A r \in Requests :
        answer[r].status = 200 /\ answer[r].body.nsfw =>
            answer[r].body.top # "safe" /\ answer[r].body.severity >= 3

\* Every request is answered, through every retry and wait for a slot.
EveryRequestAnswered == \A r \in Requests : <>(pc[r] = "answered")
=============================================================================
