-------------------------------- MODULE Service --------------------------------
(***************************************************************************)
(* The HTTP service (src/visionforge/api, security, db): requests from the *)
(* middleware through authentication, rate limit, validation and handler   *)
(* to a counted answer, streams of any client, the operator's API keys,    *)
(* and the process that comes and goes.                                    *)
(*                                                                         *)
(* Handlers are coroutines of one event loop: a step goes from one await   *)
(* to the next, and inference is synchronous inside such a step.  Slots    *)
(* are requests in progress.  What a model, a job or the database does is  *)
(* an outcome here; ModelManager and JobManager have the insides.  A       *)
(* bucket holds whole tokens and a tick adds one; RateLimiter has the      *)
(* fractions.  Routes that only read (/, /health, /ready, /models) are     *)
(* left out.                                                               *)
(***************************************************************************)
EXTENDS Registry, Naturals, Sequences, FiniteSets, Functions

CONSTANTS
    Slots,          \* requests that can be in progress at once
    Sockets,
    EnvKeys,        \* the keys in VF_API_KEYS
    DbKeys,         \* the keys the operator may put into the database
    StrangeKeys,    \* keys nobody issued
    Hosts,
    Settings,       \* environments to start in, [production, requireAuth, wildcard, metrics]
    Requests,       \* [route, key, host, complete, task, backend, files, source, job]
    Frames,         \* messages of a stream: [kind, task, backend, upload, index]
    MaxBytes,       \* VF_MAX_UPLOAD_MB
    MaxSide,        \* VF_MAX_IMAGE_SIDE
    BatchLimit,     \* 32
    Rate,           \* requests a minute, of every key and host
    MaxServed       \* bound: requests in the life of a process

Upload ==
    [bytes : Nat, declared : {"allowed", "other", None}, magic : BOOLEAN, decodes : BOOLEAN, side : Nat]

\* Names do not clash, and forms have the files FastAPI insists on.
ASSUME ServiceAssumption ==
    /\ IsFiniteSet(Slots)
    /\ Rate \in Nat \ {0} /\ MaxBytes \in Nat /\ MaxSide \in Nat /\ BatchLimit \in Nat
    /\ None \notin Settings /\ None \notin EnvKeys \cup DbKeys \cup StrangeKeys \cup Hosts
    /\ EnvKeys \cap DbKeys = {} /\ StrangeKeys \cap (EnvKeys \cup DbKeys) = {}
    /\ (EnvKeys \cup DbKeys) \cap Hosts = {} /\ {"env", "AuthError"} \cap (DbKeys \cup Hosts) = {}
    /\ \A r \in Requests :
        /\ r.key \in EnvKeys \cup DbKeys \cup StrangeKeys \cup {None} /\ r.host \in Hosts
        /\ r.files \in Seq(Upload)
        /\ r.route \in {"infer", "batch"} => r.files # << >>

VARIABLES
    settings,       \* get_settings(), None while the process is down
    db,             \* _DB: "absent", "open", or "failing" when its sessions raise
    active,         \* the api_keys rows with active = 1
    tokens,         \* _buckets: the tokens of each rl_key
    jobs,           \* _jobs: whether each job is still "active" or "ended"
    slot,           \* the request in each slot
    open,           \* the sockets that were accepted and are not closed
    requestsTotal, errorsTotal,     \* the counters of /metrics
    issued, revoked,    \* history: the keys the operator was told exist, and no longer do
    answered,           \* history: answers sent, by code
    drawn               \* history: how many of their requests of late a key or host had let in

counters == <<requestsTotal, errorsTotal, answered>>
keyVars == <<db, active, issued, revoked>>
limitVars == <<tokens, drawn>>
vars == <<settings, keyVars, limitVars, jobs, slot, open, counters>>

Up == settings # None
Identities == {"env"} \cup DbKeys \cup Hosts
Keys == EnvKeys \cup DbKeys \cup StrangeKeys \cup {None}

\* The status of each code; "detail" is FastAPI's own complaint about a form.
StatusOf ==
    [ok |-> 200, accepted |-> 202, detail |-> 422, validation_error |-> 422,
     unauthorized |-> 401, rate_limited |-> 429, payload_too_large |-> 413,
     unsupported_media_type |-> 415, not_found |-> 404, inference_failed |-> 500,
     internal_error |-> 500, service_unavailable |-> 503]
Codes == DOMAIN StatusOf
Statuses == {StatusOf[c] : c \in Codes}
Fine == {"ok", "accepted", "detail"}

Idle == [pc |-> "idle"]

\* code is the answer once there is one.  ran and made are history: the uploads
\* handed to a model for it, and whether a job was made.
Request(r) ==
    [pc |-> "entered", req |-> r, files |-> r.files, code |-> "ok", ran |-> << >>, made |-> FALSE]

Fresh(tok, drw, jbs, slt, opn, req, err, ans) ==
    /\ tok = [i \in Identities |-> Rate]
    /\ drw = [k \in Keys \cup Hosts |-> 0]
    /\ jbs = << >>
    /\ slt = [p \in Slots |-> Idle]
    /\ opn = {}
    /\ req = [s \in Statuses |-> 0]
    /\ err = [c \in Codes |-> 0]
    /\ ans = [c \in Codes |-> 0]

Init ==
    /\ settings = None
    /\ db = "absent" /\ active = {} /\ issued = {} /\ revoked = {}
    /\ Fresh(tokens, drawn, jobs, slot, open, requestsTotal, errorsTotal, answered)
-------------------------------------------------------------------------------
(* The process. *)

\* validate_startup: what production insists on.
ValidStartup(s) == s.production => ~s.wildcard /\ s.requireAuth

\* lifespan up to its yield.  A database whose engine cannot be made is absent
\* for the life of the process, without a word.
Start ==
    /\ ~Up
    /\ \E s \in Settings : ValidStartup(s) /\ settings' = s
    /\ db' \in {"absent", "open"}
    /\ UNCHANGED <<active, issued, revoked, limitVars, jobs, slot, open, counters>>

\* The process ends, by lifespan's shutdown or by a crash: whatever was not in
\* the database is gone, requests in progress with it.
Down ==
    /\ Up
    /\ settings' = None
    /\ Fresh(tokens', drawn', jobs', slot', open', requestsTotal', errorsTotal', answered')
    /\ UNCHANGED keyVars

DbFails ==
    /\ Up /\ db = "open" /\ db' = "failing"
    /\ UNCHANGED <<settings, active, issued, revoked, limitVars, jobs, slot, open, counters>>
DbRecovers ==
    /\ Up /\ db = "failing" /\ db' = "open"
    /\ UNCHANGED <<settings, active, issued, revoked, limitVars, jobs, slot, open, counters>>

\* Buckets refill.
Tick ==
    /\ \E i \in Identities : tokens[i] < Rate
    /\ tokens' = [i \in Identities |-> IF tokens[i] < Rate THEN tokens[i] + 1 ELSE Rate]
    /\ drawn' = [k \in DOMAIN drawn |-> IF drawn[k] > 0 THEN drawn[k] - 1 ELSE 0]
    /\ UNCHANGED <<settings, keyVars, jobs, slot, open, counters>>

JobEnds(n) ==
    /\ jobs[n] = "active"
    /\ jobs' = [jobs EXCEPT ![n] = "ended"]
    /\ UNCHANGED <<settings, keyVars, limitVars, slot, open, counters>>
-------------------------------------------------------------------------------
(* API keys. *)

\* ApiKeyRepository.create in a session that commits; a session that fails
\* raises, and the operator is told nothing.
CreateKey(k) ==
    /\ db = "open" /\ k \notin issued
    /\ active' = active \cup {k} /\ issued' = issued \cup {k}
    /\ UNCHANGED <<settings, db, revoked, limitVars, jobs, slot, open, counters>>

\* Mutant: the session is closed without a commit.
DeactivateUncommitted(k) ==
    /\ db = "open" /\ k \in issued \ revoked
    /\ revoked' = revoked \cup {k}
    /\ UNCHANGED <<settings, db, active, issued, limitVars, jobs, slot, open, counters>>

\* deactivate: the row stays, with active = 0.
Deactivate(k) ==
    /\ db = "open" /\ k \in issued \ revoked
    /\ active' = active \ {k} /\ revoked' = revoked \cup {k}
    /\ UNCHANGED <<settings, db, issued, limitVars, jobs, slot, open, counters>>

\* _db_lookup over get_by_hash: a failing session is caught and finds nothing.
DbLookup(k) == IF db = "open" /\ k \in active THEN k ELSE None

\* authenticate: who a key belongs to.  All keys of the environment are one;
\* without a key, and without the need for one, the client is its host.
AuthError == "AuthError"
Authenticate(k, h) ==
    CASE k = None -> IF settings.requireAuth THEN AuthError ELSE h
      [] k \in EnvKeys -> "env"
      [] OTHER -> IF DbLookup(k) = None THEN AuthError ELSE DbLookup(k)
-------------------------------------------------------------------------------
(* Validation. *)

ValidTask(t) == t \in ValidTasks \cup {None, ""}
TaskOf(t) == IF t \in {None, ""} THEN "detection" ELSE t

\* The checks an upload fails, in the order they are made: validate_size (two),
\* validate_content_type, sniff_image_mime, the decoder, validate_dimensions.
Failures(u) ==
    {i \in 1..6 :
        \/ i = 1 /\ u.bytes = 0
        \/ i = 2 /\ u.bytes > MaxBytes
        \/ i = 3 /\ u.declared = "other"
        \/ i = 4 /\ ~u.magic
        \/ i = 5 /\ ~u.decodes
        \/ i = 6 /\ u.side > MaxSide}

FailureCode ==
    <<"validation_error", "payload_too_large", "unsupported_media_type",
      "unsupported_media_type", "validation_error", "validation_error">>

\* The first of them is raised.
DecodeImage(u) ==
    IF Failures(u) = {} THEN "ok"
    ELSE FailureCode[CHOOSE i \in Failures(u) : \A j \in Failures(u) : i <= j]

\* May a model answer?  A backend nobody knows, a model that does not load or
\* raises, an open breaker: all are exceptions.
Answers(task, backend) ==
    IF Resolve(TaskOf(task), backend) = NoBackend THEN {FALSE} ELSE BOOLEAN
-------------------------------------------------------------------------------
(* Requests. *)

InFlight == Cardinality({p \in Slots : slot[p] # Idle})
Served == SumFunctionOnSet(answered, Codes)

\* RequestContextMiddleware: a request comes in.
Arrive(p) ==
    /\ Up /\ slot[p] = Idle /\ InFlight + Served < MaxServed
    /\ \E r \in Requests : slot' = [slot EXCEPT ![p] = Request(r)]
    /\ UNCHANGED <<settings, keyVars, limitVars, jobs, open, counters>>

\* What an endpoint comes to: a response of its own, an error of the project's,
\* or an exception of someone else's.
Becomes(p, stage, c) == slot' = [slot EXCEPT ![p].pc = stage, ![p].code = c]
Reply(p, c) == Becomes(p, "replying", c)
Raise(p, c) == Becomes(p, "raised", c)
Crumble(p) == Becomes(p, "unhandled", "internal_error")

\* submit_job: the manager may raise, with the job in its table.
Submit(p) ==
    IF ~ValidTask(slot[p].req.task) \/ slot[p].req.source = "missing"
    THEN Raise(p, "validation_error") /\ UNCHANGED jobs
    ELSE /\ jobs' = Append(jobs, "active")
         /\ \/ slot' = [slot EXCEPT ![p].pc = "replying", ![p].code = "accepted", ![p].made = TRUE]
            \/ slot' = [slot EXCEPT ![p].pc = "unhandled", ![p].code = "internal_error", ![p].made = TRUE]

\* job_status and job_results.
LookUp(p) ==
    /\ IF slot[p].req.job \in DOMAIN jobs THEN Reply(p, "ok") ELSE Raise(p, "not_found")
    /\ UNCHANGED jobs

CancelJob(p) ==
    /\ IF slot[p].req.job \in DOMAIN jobs /\ jobs[slot[p].req.job] = "active"
       THEN Reply(p, "ok") ELSE Raise(p, "validation_error")
    /\ UNCHANGED jobs

\* infer and infer_batch up to their first await.
Accept(p) ==
    /\ IF ValidTask(slot[p].req.task) /\ Len(slot[p].files) <= BatchLimit
       THEN slot' = [slot EXCEPT ![p].pc = "reading"] ELSE Raise(p, "validation_error")
    /\ UNCHANGED jobs

Endpoint(p) ==
    \/ slot[p].req.route \in {"infer", "batch"} /\ Accept(p)
    \/ slot[p].req.route = "submit" /\ Submit(p)
    \/ slot[p].req.route = "job" /\ LookUp(p)
    \/ slot[p].req.route = "cancel" /\ CancelJob(p)

\* The one public route that can fail.
Metrics(p) ==
    /\ slot[p].pc = "entered" /\ slot[p].req.route = "metrics"
    /\ IF settings.metrics THEN Reply(p, "ok") ELSE Raise(p, "service_unavailable")
    /\ UNCHANGED <<settings, keyVars, limitVars, jobs, open, counters>>

\* require_api_key, with who the request is from: no one, one who has no tokens
\* left, or one who is let in.  What FastAPI thinks of the form comes after
\* that, and then the endpoint.
AtTheGate(p) == slot[p].pc = "entered" /\ slot[p].req.route # "metrics"
Who(p) == Authenticate(slot[p].req.key, slot[p].req.host)

Refuse(p) ==
    /\ AtTheGate(p) /\ Who(p) = AuthError
    /\ Raise(p, "unauthorized")
    /\ UNCHANGED <<settings, keyVars, limitVars, jobs, open, counters>>

Limit(p) ==
    /\ AtTheGate(p) /\ Who(p) # AuthError
    /\ tokens[Who(p)] = 0
    /\ Raise(p, "rate_limited")
    /\ UNCHANGED <<settings, keyVars, limitVars, jobs, open, counters>>

\* Whose request it is, as the client sees it.
Holder(p) == IF slot[p].req.key = None THEN slot[p].req.host ELSE slot[p].req.key

Enter(p) ==
    /\ AtTheGate(p) /\ Who(p) # AuthError
    /\ tokens[Who(p)] > 0
    /\ tokens' = [tokens EXCEPT ![Who(p)] = @ - 1]
    /\ drawn' = [drawn EXCEPT ![Holder(p)] = @ + 1]
    /\ IF slot[p].req.complete THEN Endpoint(p) ELSE Reply(p, "detail") /\ UNCHANGED jobs
    /\ UNCHANGED <<settings, keyVars, open, counters>>

\* manager.infer, or infer_batch up to the image that raises, if one does.
Infer(p, images) ==
    \/ /\ TRUE \in Answers(slot[p].req.task, slot[p].req.backend)
       /\ slot' = [slot EXCEPT ![p].pc = "replying", ![p].ran = images]
    \/ \E n \in 1..Len(images) :
        IF slot[p].req.route = "infer"
        THEN slot' = [slot EXCEPT ![p].pc = "raised", ![p].code = "inference_failed",
                                  ![p].ran = SubSeq(images, 1, n)]
        ELSE slot' = [slot EXCEPT ![p].pc = "unhandled", ![p].code = "internal_error",
                                  ![p].ran = SubSeq(images, 1, n)]

\* Mutant: a batch is inferred file by file, as it is read.
ReadFileAndInfer(p) ==
    /\ slot[p].pc = "reading"
    /\ LET u == Head(slot[p].files)
           last == Len(slot[p].files) = 1
       IN IF DecodeImage(u) # "ok" THEN Raise(p, DecodeImage(u))
          ELSE slot' = [slot EXCEPT ![p].files = Tail(@), ![p].ran = Append(@, u),
                                    ![p].pc = IF last THEN "replying" ELSE @]
    /\ UNCHANGED <<settings, keyVars, limitVars, jobs, open, counters>>

\* An await in infer or infer_batch comes back: decode, and after the last file
\* run the model.
ReadFile(p) ==
    /\ slot[p].pc = "reading"
    /\ LET u == Head(slot[p].files)
           last == Len(slot[p].files) = 1
       IN IF DecodeImage(u) # "ok" THEN Raise(p, DecodeImage(u))
          ELSE IF ~last THEN slot' = [slot EXCEPT ![p].files = Tail(@)]
          ELSE Infer(p, slot[p].req.files)
    /\ UNCHANGED <<settings, keyVars, limitVars, jobs, open, counters>>

\* _handle_vf_error.
Handle(p) ==
    /\ slot[p].pc = "raised"
    /\ errorsTotal' = [errorsTotal EXCEPT ![slot[p].code] = @ + 1]
    /\ slot' = [slot EXCEPT ![p].pc = "replying"]
    /\ UNCHANGED <<settings, keyVars, limitVars, jobs, open, requestsTotal, answered>>

\* The client has its answer.
Sent(p) ==
    /\ answered' = [answered EXCEPT ![slot[p].code] = @ + 1]
    /\ slot' = [slot EXCEPT ![p] = Idle]

\* Mutant: status_code is not set from the response.
CountAsFailure(p) ==
    /\ slot[p].pc = "replying"
    /\ requestsTotal' = [requestsTotal EXCEPT ![500] = @ + 1]
    /\ Sent(p)
    /\ UNCHANGED <<settings, keyVars, limitVars, jobs, open, errorsTotal>>

\* The response passes RequestContextMiddleware, whose finally counts it.
Count(p) ==
    /\ slot[p].pc = "replying"
    /\ requestsTotal' = [requestsTotal EXCEPT ![StatusOf[slot[p].code]] = @ + 1]
    /\ Sent(p)
    /\ UNCHANGED <<settings, keyVars, limitVars, jobs, open, errorsTotal>>

\* An exception passes it, with the 500 that status_code started with ...
CountException(p) ==
    /\ slot[p].pc = "unhandled"
    /\ requestsTotal' = [requestsTotal EXCEPT ![500] = @ + 1]
    /\ slot' = [slot EXCEPT ![p].pc = "rescued"]
    /\ UNCHANGED <<settings, keyVars, limitVars, jobs, open, errorsTotal, answered>>

\* Mutant: only the project's own exceptions have a handler.
RescueOwn(p) ==
    /\ slot[p].pc = "rescued" /\ slot[p].code # "internal_error"
    /\ Sent(p)
    /\ UNCHANGED <<settings, keyVars, limitVars, jobs, open, requestsTotal, errorsTotal>>

\* ... and reaches _handle_unexpected outside of all middleware, so that the
\* response has none of the headers that are attached to the others.
Rescue(p) ==
    /\ slot[p].pc = "rescued"
    /\ errorsTotal' = [errorsTotal EXCEPT !["internal_error"] = @ + 1]
    /\ Sent(p)
    /\ UNCHANGED <<settings, keyVars, limitVars, jobs, open, requestsTotal>>
-------------------------------------------------------------------------------
(* Streams. *)

\* ws_stream up to accept: the key is looked at once, and only if it must be.
Connect(s, k) ==
    /\ Up /\ s \notin open
    /\ settings.requireAuth => Authenticate(k, None) # AuthError
    /\ open' = open \cup {s}
    /\ UNCHANGED <<settings, keyVars, limitVars, jobs, slot, counters>>

\* What a message can come to: a reply, or the handler breaks and the socket is
\* closed.  A message that is no object has no get, and a frame index that is
\* no number raises outside of every inner try.
Outcomes(f) ==
    CASE f.kind = "list" -> {"closed"}
      [] f.kind \in {"garbled", "unknown"} -> {"error"}
      [] f.kind = "ping" -> {"pong"}
      [] f.kind = "frame" ->
            IF ~ValidTask(f.task) \/ ~f.base64 \/ DecodeImage(f.upload) # "ok" THEN {"error"}
            ELSE IF f.index = "word" THEN {"closed"}
            ELSE {IF ok THEN "result" ELSE "error" : ok \in Answers(f.task, f.backend)}

\* The service keeps nothing from one message to the next.
Message(s, f) ==
    /\ s \in open
    /\ \E o \in Outcomes(f) : open' = IF o = "closed" THEN open \ {s} ELSE open
    /\ UNCHANGED <<settings, keyVars, limitVars, jobs, slot, counters>>

Disconnect(s) ==
    /\ s \in open
    /\ open' = open \ {s}
    /\ UNCHANGED <<settings, keyVars, limitVars, jobs, slot, counters>>
-------------------------------------------------------------------------------
Serve(p) ==
    \/ Metrics(p) \/ Refuse(p) \/ Limit(p) \/ Enter(p) \/ ReadFile(p)
    \/ Handle(p) \/ Count(p) \/ CountException(p) \/ Rescue(p)

Next ==
    \/ Start \/ Down \/ DbFails \/ DbRecovers \/ Tick
    \/ \E n \in DOMAIN jobs : JobEnds(n)
    \/ \E k \in DbKeys : CreateKey(k) \/ Deactivate(k)
    \/ \E p \in Slots : Arrive(p) \/ Serve(p)
    \/ \E s \in Sockets :
        \/ \E k \in Keys : Connect(s, k)
        \/ \E f \in Frames : Message(s, f)
        \/ Disconnect(s)

\* The event loop runs what can run; nothing is owed by clients, operators, the
\* database or the clock.
Fairness == \A p \in Slots : WF_vars(Serve(p))

Spec == Init /\ [][Next]_vars /\ Fairness
-------------------------------------------------------------------------------
(* Properties. *)

Stages == {"entered", "reading", "raised", "replying", "unhandled", "rescued"}

RequestState ==
    [pc : Stages, req : Requests, files : Seq(Upload), code : Codes, ran : Seq(Upload), made : BOOLEAN]

\* The types.  Rows are keys the operator was told of, no bucket holds more
\* than a minute's tokens, and a request in progress is in some stage with the
\* code of an answer that StatusOf knows.
TypeOK ==
    /\ settings \in Settings \cup {None}
    /\ db \in {"absent", "open", "failing"}
    /\ revoked \subseteq issued /\ active \subseteq issued /\ issued \subseteq DbKeys
    /\ tokens \in [Identities -> 0..Rate]
    /\ drawn \in [Keys \cup Hosts -> Nat]
    /\ jobs \in Seq({"active", "ended"})
    /\ slot \in [Slots -> {Idle} \cup RequestState]
    /\ open \subseteq Sockets
    /\ requestsTotal \in [Statuses -> Nat]
    /\ errorsTotal \in [Codes -> Nat]
    /\ answered \in [Codes -> Nat]

GoodKey(k) == k \in EnvKeys \cup (issued \ revoked)

\* What is fair to tell a request at the gate.
FairTo(p) ==
    LET k == slot[p].req.key
        told == slot'[p].code
        own == k \notin EnvKeys
    IN CASE told = "unauthorized" ->
                IF k = None THEN settings.requireAuth
                ELSE GoodKey(k) => k \in DbKeys /\ db # "open"
         [] told = "rate_limited" -> own => drawn[Holder(p)] >= Rate
         [] OTHER -> /\ IF k = None THEN ~settings.production ELSE GoodKey(k)
                     /\ own => drawn[Holder(p)] < Rate

\* The gate is fair.  Whoever is let in has a key of the environment, or one
\* that the operator was told exists and has not since been told is revoked,
\* whatever crashed, failed or was in progress; or has none where none is
\* needed, which is never in production.  A good key is refused only while the
\* database is out of reach.  And the limit of one is not used up by others: a
\* client is told to slow down only for requests of its own (all keys of the
\* environment being one client).
GateIsFair ==
    [][\A p \in Slots : slot[p] # Idle /\ slot'[p] # Idle /\ slot'[p] # slot[p] /\ AtTheGate(p) =>
          FairTo(p)]_vars

Sound(u) ==
    /\ u.bytes \in 1..MaxBytes /\ u.side <= MaxSide
    /\ u.declared # "other" /\ u.magic /\ u.decodes

\* A request that is refused has done nothing: when the answer is the client's
\* fault no job was made and no model has seen any of its files, the sound ones
\* of a batch included.  A model sees sound images only, and an answer is for
\* all of them.
RejectedLeavesNoTrace ==
    \A p \in Slots : slot[p] # Idle =>
        /\ slot[p].pc \in {"raised", "replying"} /\ StatusOf[slot[p].code] \in 400..499 =>
                slot[p].ran = << >> /\ ~slot[p].made
        /\ \A i \in DOMAIN slot[p].ran : Sound(slot[p].ran[i])
        /\ slot[p].pc = "replying" /\ slot[p].code = "ok" /\ slot[p].req.route \in {"infer", "batch"} =>
                slot[p].ran = slot[p].req.files

\* How many requests are at a stage with a code, and how many with a code
\* requestsTotal has seen.
At(stage, c) == Cardinality({p \in Slots : slot[p] # Idle /\ slot[p].pc = stage /\ slot[p].code = c})
Counted == [c \in Codes |-> answered[c] + At("rescued", c)]

\* /metrics tells the truth: every answer is counted once, under the status it
\* was sent with, and every error once, under its code, whichever of the two
\* handlers made it; what is not yet in both counts is in progress.
CountersBalance ==
    /\ \A s \in Statuses :
            requestsTotal[s] = SumFunctionOnSet(Counted, {c \in Codes : StatusOf[c] = s})
    /\ \A c \in Codes \ Fine : errorsTotal[c] = answered[c] + At("replying", c)
    /\ \A c \in Fine : errorsTotal[c] = 0

\* Every request gets an answer, whatever its endpoint comes to, unless the
\* process goes down with it.
EveryoneAnswered == \A p \in Slots : slot[p] # Idle ~> slot[p] = Idle
===============================================================================
