------------------------------ MODULE ServiceProofs ------------------------------
(***************************************************************************)
(* Theorems about Service, for any number of requests at once, any forms,  *)
(* keys, hosts and limits; and about Registry, whose names it resolves.    *)
(***************************************************************************)
EXTENDS Service, Integers, SequenceTheorems, FiniteSetTheorems, TLAPS

\* What is found to serve a task is the name of a class that supports it, not
\* an alias; and what available() lists is served.
THEOREM ResolvedServes ==
    ASSUME NEW task \in ValidTasks, NEW backend
    PROVE  /\ Resolve(task, backend) # NoBackend =>
                /\ Resolve(task, backend) \in ValidBackends \ {"baseline"}
                /\ task \in Supports(Resolve(task, backend))
           /\ <<task, backend>> \in Available => Resolve(task, backend) = Alias(backend)
<1>. DEFINE named == Alias(IF backend \in {None, ""} THEN DefaultBackend(task) ELSE backend)
<1>1. Resolve(task, backend) = IF task \in Supports(named) THEN named ELSE NoBackend
  BY DEF Resolve
<1>2. task \in Supports(named) => named \in {"yolo", "hf", "onnx", "centernet", "centernet-onnx"}
  BY DEF Supports
<1>3. <<task, backend>> \in Available => named = Alias(backend) /\ task \in Supports(named)
  <2>. SUFFICES ASSUME <<task, backend>> \in Available
                PROVE  named = Alias(backend) /\ task \in Supports(named)
    OBVIOUS
  <2>1. /\ backend \in {"centernet", "centernet-onnx", "baseline", "hf", "onnx", "yolo"}
        /\ backend \in {"centernet", "centernet-onnx", "baseline", "onnx"} => task = "detection"
        /\ backend = "hf" => task \in {"detection", "classification"}
        /\ backend = "yolo" => task \in YoloTasks
    BY DEF Available
  <2>2. backend \notin {None, ""}
    BY <2>1, RegistryAssumption DEF ValidBackends
  <2>. QED
    BY <2>1, <2>2 DEF Alias, Supports, YoloTasks, HfTasks, OnnxTasks, CenterNetTasks
<1>. QED
  BY <1>1, <1>2, <1>3 DEF NoBackend, ValidBackends
-------------------------------------------------------------------------------
\* The part of the state that belongs to requests, by type.
SlotsOK == slot \in [Slots -> {Idle} \cup RequestState]

LEMMA IdleIsNoRequest == Idle \notin RequestState
BY DEF Idle, RequestState, Stages

\* An upload that fails a check has the code of one.
LEMMA FailedHasCode ==
    ASSUME NEW u, Failures(u) # {}
    PROVE  DecodeImage(u) \in {"validation_error", "payload_too_large", "unsupported_media_type"}
<1>. DEFINE first == CHOOSE i \in Failures(u) : \A j \in Failures(u) : i <= j
<1>0. Failures(u) \subseteq 1..6
  BY DEF Failures
<1>1. \E i \in Failures(u) : \A j \in Failures(u) : i <= j
  <2>1. PICK n \in Failures(u) : TRUE
    OBVIOUS
  <2>2. \A i \in 1..6 : i \in Failures(u) =>
            1 \in Failures(u) \/ 2 \in Failures(u) \/ 3 \in Failures(u)
              \/ 4 \in Failures(u) \/ 5 \in Failures(u) \/ 6 \in Failures(u)
    OBVIOUS
  <2>. QED
    BY <1>0, <2>1, <2>2
<1>2. first \in 1..6
  BY <1>0, <1>1
<1>3. DecodeImage(u) = FailureCode[first]
  BY DEF DecodeImage
<1>4. \A i \in 1..6 : FailureCode[i] \in {"validation_error", "payload_too_large", "unsupported_media_type"}
  BY DEF FailureCode
<1>. QED
  BY <1>2, <1>3, <1>4

\* An upload that passes every check is sound.
LEMMA DecodedIsSound ==
    ASSUME NEW u \in Upload, DecodeImage(u) = "ok"
    PROVE  Sound(u)
<1>1. Failures(u) = {}
  BY FailedHasCode
<1>2. 1 \notin Failures(u) /\ 2 \notin Failures(u) /\ 3 \notin Failures(u)
        /\ 4 \notin Failures(u) /\ 5 \notin Failures(u) /\ 6 \notin Failures(u)
  BY <1>1
<1>3. u.bytes # 0 /\ ~(u.bytes > MaxBytes) /\ u.declared # "other" /\ ~(u.side > MaxSide)
  BY <1>2 DEF Failures
<1>4. u.magic
  BY <1>2 DEF Failures
<1>5. u.decodes
  BY <1>2 DEF Failures
<1>6. u.bytes \in 1..MaxBytes /\ u.side <= MaxSide
  BY <1>3, ServiceAssumption DEF Upload
<1>. QED
  BY <1>3, <1>4, <1>5, <1>6 DEF Sound
-------------------------------------------------------------------------------
\* The files that are left are the last ones of the form, and those before
\* them are sound.
ReadSoFar(form, left) ==
    /\ left # << >> /\ Len(left) <= Len(form)
    /\ \A i \in 1..(Len(form) - Len(left)) : Sound(form[i])
    /\ \A i \in 1..Len(left) : form[Len(form) - Len(left) + i] = left[i]

AllSound(images) == \A i \in 1..Len(images) : Sound(images[i])

Untouched(s) == s.ran = << >> /\ ~s.made

\* What is true of one request on its way: nothing has happened for it before
\* its last file is read, and not after that if its code is the client's fault.
TraceInv(s) ==
    /\ s.pc = "entered" => Untouched(s) /\ s.files = s.req.files /\ s.code = "ok"
    /\ s.pc = "reading" => Untouched(s) /\ ReadSoFar(s.req.files, s.files)
                              /\ s.req.route \in {"infer", "batch"} /\ s.code = "ok"
    /\ s.pc \in {"raised", "replying"} =>
          s.code \in {"ok", "accepted", "inference_failed", "internal_error"} \/ Untouched(s)
    /\ s.pc = "raised" => s.code \notin {"ok", "accepted"}
    /\ AllSound(s.ran)
    /\ s.pc = "replying" /\ s.code = "ok" /\ s.req.route \in {"infer", "batch"} => s.ran = s.req.files

RequestsInv == SlotsOK /\ \A p \in Slots : slot[p] # Idle => TraceInv(slot[p])

\* A file that decodes moves the boundary by one.
LEMMA ReadOneMore ==
    ASSUME NEW form \in Seq(Upload), NEW left \in Seq(Upload), ReadSoFar(form, left),
           DecodeImage(Head(left)) = "ok"
    PROVE  /\ Len(left) = 1 => AllSound(form)
           /\ Len(left) # 1 => ReadSoFar(form, Tail(left)) /\ Tail(left) \in Seq(Upload)
<1>1. Len(left) \in Nat \ {0} /\ Len(form) \in Nat
  BY DEF ReadSoFar
<1>2. Head(left) = left[1] /\ left[1] \in Upload
  BY <1>1
<1>3. Sound(left[1])
  BY <1>2, DecodedIsSound
<1>4. form[Len(form) - Len(left) + 1] = left[1]
  BY <1>1 DEF ReadSoFar
<1>5. Len(left) = 1 => AllSound(form)
  BY <1>1, <1>3, <1>4 DEF ReadSoFar, AllSound
<1>6. ASSUME Len(left) # 1 PROVE ReadSoFar(form, Tail(left)) /\ Tail(left) \in Seq(Upload)
  <2>1. Tail(left) \in Seq(Upload) /\ Len(Tail(left)) = Len(left) - 1
    BY <1>1
  <2>2. \A i \in 1..(Len(left) - 1) : Tail(left)[i] = left[i + 1]
    BY <1>1
  <2>3. \A i \in 1..(Len(form) - Len(Tail(left))) : Sound(form[i])
    BY <1>1, <1>3, <1>4, <2>1 DEF ReadSoFar
  <2>4. \A i \in 1..Len(Tail(left)) : form[Len(form) - Len(Tail(left)) + i] = Tail(left)[i]
    BY <1>1, <2>1, <2>2 DEF ReadSoFar
  <2>5. Len(Tail(left)) # 0 /\ Len(Tail(left)) <= Len(form)
    BY <1>1, <1>6, <2>1 DEF ReadSoFar
  <2>. QED
    BY <2>1, <2>3, <2>4, <2>5, EmptySeq DEF ReadSoFar
<1>. QED
  BY <1>5, <1>6
-------------------------------------------------------------------------------
\* A step that changes one slot as it should keeps all of them in order.
LEMMA OneSlot ==
    ASSUME RequestsInv, NEW p \in Slots, NEW new,
           slot' = [slot EXCEPT ![p] = new],
           new = Idle \/ (new \in RequestState /\ TraceInv(new))
    PROVE  RequestsInv'
<1>1. SlotsOK'
  BY DEF RequestsInv, SlotsOK
<1>2. \A q \in Slots : slot'[q] = IF q = p THEN new ELSE slot[q]
  BY DEF RequestsInv, SlotsOK
<1>3. \A q \in Slots : slot'[q] # Idle => TraceInv(slot'[q])
  <2>. HIDE DEF TraceInv
  <2>. QED
    BY <1>2 DEF RequestsInv
<1>. QED
  BY <1>1, <1>3 DEF RequestsInv, TraceInv

\* What Becomes does to a request.
LEMMA BecomesOf ==
    ASSUME SlotsOK, NEW p \in Slots, slot[p] # Idle, NEW stage \in Stages, NEW c \in Codes,
           Becomes(p, stage, c)
    PROVE  \E new \in RequestState :
              /\ slot' = [slot EXCEPT ![p] = new]
              /\ new.pc = stage /\ new.code = c
              /\ new.req = slot[p].req /\ new.files = slot[p].files
              /\ new.ran = slot[p].ran /\ new.made = slot[p].made
<1>. DEFINE new == [slot[p] EXCEPT !.pc = stage, !.code = c]
<1>1. slot[p] \in RequestState
  BY DEF SlotsOK
<1>2. slot' = [slot EXCEPT ![p] = new]
  BY DEF Becomes
<1>3. new \in RequestState
  BY <1>1 DEF RequestState
<1>4. /\ new.pc = stage /\ new.code = c
      /\ new.req = slot[p].req /\ new.files = slot[p].files
      /\ new.ran = slot[p].ran /\ new.made = slot[p].made
  BY <1>1 DEF RequestState
<1>. QED
  BY <1>2, <1>3, <1>4

\* A request that nothing was done for may be refused with any code, and
\* answered with any but an image result.
LEMMA AnswerUntouched ==
    ASSUME RequestsInv, NEW p \in Slots, slot[p] # Idle, Untouched(slot[p]),
           NEW stage \in {"raised", "replying", "unhandled"}, NEW c \in Codes,
           Becomes(p, stage, c),
           stage = "raised" => c \notin {"ok", "accepted"},
           stage = "replying" /\ c = "ok" => slot[p].req.route \notin {"infer", "batch"}
    PROVE  RequestsInv'
<1>1. PICK new \in RequestState :
              /\ slot' = [slot EXCEPT ![p] = new]
              /\ new.pc = stage /\ new.code = c
              /\ new.req = slot[p].req /\ new.files = slot[p].files
              /\ new.ran = slot[p].ran /\ new.made = slot[p].made
  BY BecomesOf DEF RequestsInv, Stages
<1>2. new.ran = << >> /\ ~new.made
  BY <1>1, Zenon DEF Untouched
<1>3. AllSound(new.ran)
  BY <1>2 DEF AllSound
<1>4. new.pc # "entered" /\ new.pc # "reading"
  BY <1>1
<1>5. Untouched(new)
  BY <1>2 DEF Untouched
<1>6. TraceInv(new)
  BY <1>1, <1>3, <1>4, <1>5 DEF TraceInv
<1>. QED
  BY <1>1, <1>6, OneSlot

LEMMA CodesAre ==
    Codes = {"ok", "accepted", "detail", "validation_error", "unauthorized", "rate_limited",
             "payload_too_large", "unsupported_media_type", "not_found", "inference_failed",
             "internal_error", "service_unavailable"}
BY DEF Codes, StatusOf

\* Requests that no step touches stay as they are.
LEMMA SameRequests ==
    ASSUME RequestsInv, UNCHANGED slot
    PROVE  RequestsInv'
BY DEF RequestsInv, SlotsOK, TraceInv

LEMMA ArriveKeeps ==
    ASSUME RequestsInv, NEW p \in Slots, Arrive(p)
    PROVE  RequestsInv'
<1>1. PICK r \in Requests : slot' = [slot EXCEPT ![p] = Request(r)]
  BY DEF Arrive
<1>2. r.files \in Seq(Upload)
  BY ServiceAssumption
<1>3. << >> \in Seq(Upload)
  BY EmptySeq
<1>4. Request(r) \in RequestState
  BY <1>2, <1>3, CodesAre DEF Request, RequestState, Stages
<1>5. Untouched(Request(r))
  BY DEF Request, Untouched
<1>6. AllSound(Request(r).ran)
  BY DEF Request, AllSound
<1>7. Request(r).pc = "entered" /\ Request(r).code = "ok" /\ Request(r).files = Request(r).req.files
  BY DEF Request
<1>8. TraceInv(Request(r))
  BY <1>5, <1>6, <1>7 DEF TraceInv
<1>. QED
  BY <1>1, <1>4, <1>8, OneSlot
-------------------------------------------------------------------------------
\* What is true of a request that has only come in.
LEMMA EnteredFacts ==
    ASSUME RequestsInv, NEW p \in Slots, slot[p].pc = "entered"
    PROVE  /\ slot[p] # Idle /\ slot[p] \in RequestState /\ slot[p].req \in Requests
           /\ Untouched(slot[p]) /\ slot[p].files = slot[p].req.files
           /\ slot[p].code = "ok" /\ AllSound(slot[p].ran)
<1>1. slot[p] # Idle
  BY DEF Idle
<1>2. slot[p] \in RequestState /\ TraceInv(slot[p])
  BY <1>1 DEF RequestsInv, SlotsOK
<1>3. slot[p].req \in Requests
  BY <1>2 DEF RequestState
<1>. QED
  BY <1>1, <1>2, <1>3 DEF TraceInv

LEMMA MetricsKeeps ==
    ASSUME RequestsInv, NEW p \in Slots, Metrics(p)
    PROVE  RequestsInv'
<1>1. slot[p].pc = "entered" /\ slot[p].req.route = "metrics"
  BY DEF Metrics
<1>2. Becomes(p, "replying", "ok") \/ Becomes(p, "raised", "service_unavailable")
  BY DEF Metrics, Reply, Raise
<1>. QED
  BY <1>1, <1>2, EnteredFacts, AnswerUntouched, CodesAre

LEMMA GateKeeps ==
    ASSUME RequestsInv, NEW p \in Slots, Refuse(p) \/ Limit(p)
    PROVE  RequestsInv'
<1>1. slot[p].pc = "entered"
  BY DEF Refuse, Limit, AtTheGate
<1>2. Becomes(p, "raised", "unauthorized") \/ Becomes(p, "raised", "rate_limited")
  BY DEF Refuse, Limit, Raise
<1>. QED
  BY <1>1, <1>2, EnteredFacts, AnswerUntouched, CodesAre

\* A form that is accepted has files, and none of them has been read.
LEMMA AcceptKeeps ==
    ASSUME RequestsInv, NEW p \in Slots, slot[p].pc = "entered",
           slot[p].req.route \in {"infer", "batch"}, Accept(p)
    PROVE  RequestsInv'
<1>. USE EnteredFacts
<1>1. CASE Raise(p, "validation_error")
  BY <1>1, AnswerUntouched, CodesAre DEF Raise
<1>2. CASE slot' = [slot EXCEPT ![p].pc = "reading"]
  <2>. DEFINE new == [slot[p] EXCEPT !.pc = "reading"]
  <2>1. slot' = [slot EXCEPT ![p] = new]
    BY <1>2
  <2>2. new \in RequestState
    BY DEF RequestState, Stages
  <2>3. /\ new.pc = "reading" /\ new.req = slot[p].req /\ new.files = slot[p].files
        /\ new.code = "ok" /\ new.ran = slot[p].ran /\ new.made = slot[p].made
    BY DEF RequestState
  <2>4. new.ran = << >> /\ ~new.made
    BY <2>3, Zenon DEF Untouched
  <2>5. new.req.files \in Seq(Upload) /\ new.req.files # << >>
    BY <2>3, ServiceAssumption
  <2>. HIDE DEF new
  <2>6. ReadSoFar(new.req.files, new.files)
    <3>1. \A form \in Seq(Upload) : form # << >> => ReadSoFar(form, form)
      BY DEF ReadSoFar
    <3>2. new.files = new.req.files
      BY <2>3
    <3>. QED
      BY <2>5, <3>1, <3>2
  <2>7. AllSound(new.ran)
    BY <2>3
  <2>8. TraceInv(new)
    BY <2>3, <2>4, <2>6, <2>7 DEF TraceInv, Untouched
  <2>. QED
    BY <2>1, <2>2, <2>8, OneSlot
<1>. QED
  BY <1>1, <1>2 DEF Accept

\* A job is made for a request that is answered with success or broken off.
LEMMA SubmitKeeps ==
    ASSUME RequestsInv, NEW p \in Slots, slot[p].pc = "entered",
           slot[p].req.route = "submit", Submit(p)
    PROVE  RequestsInv'
<1>. USE EnteredFacts
<1>1. CASE Raise(p, "validation_error")
  BY <1>1, AnswerUntouched, CodesAre DEF Raise
<1>2. ASSUME NEW stage \in {"replying", "unhandled"}, NEW c \in {"accepted", "internal_error"},
             slot' = [slot EXCEPT ![p].pc = stage, ![p].code = c, ![p].made = TRUE]
      PROVE  RequestsInv'
  <2>. DEFINE new == [slot[p] EXCEPT !.pc = stage, !.code = c, !.made = TRUE]
  <2>1. slot' = [slot EXCEPT ![p] = new]
    BY <1>2
  <2>2. new \in RequestState
    BY <1>2, CodesAre DEF RequestState, Stages
  <2>3. new.pc = stage /\ new.code = c /\ new.ran = slot[p].ran
    BY DEF RequestState
  <2>. HIDE DEF new
  <2>4. AllSound(new.ran)
    BY <2>3
  <2>5. TraceInv(new)
    BY <1>2, <2>3, <2>4 DEF TraceInv
  <2>. QED
    BY <2>1, <2>2, <2>5, OneSlot
<1>. QED
  BY <1>1, <1>2 DEF Submit

LEMMA EnterKeeps ==
    ASSUME RequestsInv, NEW p \in Slots, Enter(p)
    PROVE  RequestsInv'
<1>. USE EnteredFacts
<1>1. slot[p].pc = "entered"
  BY DEF Enter, AtTheGate
<1>2. CASE Reply(p, "detail")
  BY <1>1, <1>2, AnswerUntouched, CodesAre DEF Reply
<1>3. CASE slot[p].req.route \in {"infer", "batch"} /\ Accept(p)
  BY <1>1, <1>3, AcceptKeeps
<1>4. CASE slot[p].req.route = "submit" /\ Submit(p)
  BY <1>1, <1>4, SubmitKeeps
<1>5. CASE slot[p].req.route = "job" /\ LookUp(p)
  BY <1>1, <1>5, AnswerUntouched, CodesAre DEF LookUp, Reply, Raise
<1>6. CASE slot[p].req.route = "cancel" /\ CancelJob(p)
  BY <1>1, <1>6, AnswerUntouched, CodesAre DEF CancelJob, Reply, Raise
<1>. QED
  BY <1>2, <1>3, <1>4, <1>5, <1>6 DEF Enter, Endpoint

\* A file is read; the model runs when all are, on all of them or up to the
\* one that it cannot answer.
LEMMA InferKeeps ==
    ASSUME RequestsInv, NEW p \in Slots, slot[p].pc = "reading",
           NEW images \in Seq(Upload), images = slot[p].req.files, AllSound(images),
           Infer(p, images)
    PROVE  RequestsInv'
<1>1. slot[p] # Idle
  BY DEF Idle
<1>2. slot[p] \in RequestState
  BY <1>1 DEF RequestsInv, SlotsOK
<1>3. CASE slot' = [slot EXCEPT ![p].pc = "replying", ![p].ran = images]
  <2>. DEFINE new == [slot[p] EXCEPT !.pc = "replying", !.ran = images]
  <2>1. slot' = [slot EXCEPT ![p] = new]
    BY <1>3
  <2>2. new \in RequestState
    BY <1>2 DEF RequestState, Stages
  <2>3. new.pc = "replying" /\ new.ran = images /\ new.req = slot[p].req /\ new.code = slot[p].code
    BY <1>2 DEF RequestState
  <2>4. new.code = "ok"
    BY <1>1, <2>3 DEF RequestsInv, TraceInv
  <2>. HIDE DEF new
  <2>5. TraceInv(new)
    BY <2>3, <2>4 DEF TraceInv
  <2>. QED
    BY <2>1, <2>2, <2>5, OneSlot
<1>4. ASSUME NEW n \in 1..Len(images), NEW stage \in {"raised", "unhandled"},
             NEW c \in {"inference_failed", "internal_error"},
             slot' = [slot EXCEPT ![p].pc = stage, ![p].code = c, ![p].ran = SubSeq(images, 1, n)]
      PROVE  RequestsInv'
  <2>. DEFINE some == SubSeq(images, 1, n)
              new == [slot[p] EXCEPT !.pc = stage, !.code = c, !.ran = some]
  <2>0. some \in Seq(Upload) /\ Len(some) = n /\ \A i \in 1..n : some[i] = images[i]
    OBVIOUS
  <2>1. slot' = [slot EXCEPT ![p] = new]
    BY <1>4
  <2>. HIDE DEF some
  <2>2. new \in RequestState
    BY <1>2, <2>0, CodesAre DEF RequestState, Stages
  <2>3. new.pc = stage /\ new.code = c /\ new.ran = some
    BY <1>2 DEF RequestState
  <2>4. AllSound(some)
    BY <2>0 DEF AllSound
  <2>. HIDE DEF new
  <2>5. TraceInv(new)
    BY <2>3, <2>4 DEF TraceInv
  <2>. QED
    BY <2>1, <2>2, <2>5, OneSlot
<1>. QED
  BY <1>3, <1>4 DEF Infer

LEMMA ReadFileKeeps ==
    ASSUME RequestsInv, NEW p \in Slots, ReadFile(p)
    PROVE  RequestsInv'
<1>. DEFINE form == slot[p].req.files
            left == slot[p].files
            u == Head(left)
<1>0. slot[p].pc = "reading"
  BY DEF ReadFile
<1>1. slot[p] # Idle
  BY <1>0 DEF Idle
<1>2. slot[p] \in RequestState /\ TraceInv(slot[p])
  BY <1>1 DEF RequestsInv, SlotsOK
<1>3. /\ Untouched(slot[p]) /\ ReadSoFar(form, left)
      /\ slot[p].req.route \in {"infer", "batch"} /\ slot[p].code = "ok"
  BY <1>0, <1>2 DEF TraceInv
<1>4. form \in Seq(Upload) /\ left \in Seq(Upload)
  BY <1>2, ServiceAssumption DEF RequestState
<1>5. CASE DecodeImage(u) # "ok" /\ Raise(p, DecodeImage(u))
  <2>1. DecodeImage(u) \in {"validation_error", "payload_too_large", "unsupported_media_type"}
    BY <1>5, FailedHasCode DEF DecodeImage
  <2>. QED
    BY <1>1, <1>3, <1>5, <2>1, AnswerUntouched, CodesAre DEF Raise
<1>6. CASE DecodeImage(u) = "ok" /\ Len(left) # 1 /\ slot' = [slot EXCEPT ![p].files = Tail(@)]
  <2>. DEFINE new == [slot[p] EXCEPT !.files = Tail(left)]
  <2>1. slot' = [slot EXCEPT ![p] = new]
    BY <1>6
  <2>2. Tail(left) \in Seq(Upload) /\ ReadSoFar(form, Tail(left))
    BY <1>3, <1>4, <1>6, ReadOneMore
  <2>3. new \in RequestState
    BY <1>2, <2>2 DEF RequestState
  <2>4. /\ new.pc = "reading" /\ new.req = slot[p].req /\ new.files = Tail(left)
        /\ new.code = slot[p].code /\ new.ran = slot[p].ran /\ new.made = slot[p].made
    BY <1>0, <1>2 DEF RequestState
  <2>5. new.ran = << >> /\ ~new.made
    BY <1>3, <2>4, Zenon DEF Untouched
  <2>6. ReadSoFar(new.req.files, new.files) /\ new.req.route \in {"infer", "batch"} /\ new.code = "ok"
    BY <1>3, <2>2, <2>4
  <2>. HIDE DEF new
  <2>7. AllSound(new.ran)
    BY <2>5 DEF AllSound
  <2>8. TraceInv(new)
    BY <2>4, <2>5, <2>6, <2>7 DEF TraceInv, Untouched
  <2>. QED
    BY <2>1, <2>3, <2>8, OneSlot
<1>7. CASE DecodeImage(u) = "ok" /\ Len(left) = 1 /\ Infer(p, form)
  BY <1>0, <1>3, <1>4, <1>7, ReadOneMore, InferKeeps
<1>. QED
  BY <1>5, <1>6, <1>7 DEF ReadFile

\* The answer goes out: an error becomes a response, with the code it had.
LEMMA HandleKeeps ==
    ASSUME RequestsInv, NEW p \in Slots, Handle(p)
    PROVE  RequestsInv'
<1>1. slot[p].pc = "raised" /\ slot[p] # Idle
  BY DEF Handle, Idle
<1>2. slot[p] \in RequestState /\ TraceInv(slot[p])
  BY <1>1 DEF RequestsInv, SlotsOK
<1>. DEFINE new == [slot[p] EXCEPT !.pc = "replying"]
<1>3. slot' = [slot EXCEPT ![p] = new]
  BY DEF Handle
<1>4. new \in RequestState
  BY <1>2 DEF RequestState, Stages
<1>5. new.pc = "replying" /\ new.code = slot[p].code /\ new.ran = slot[p].ran /\ new.made = slot[p].made
  BY <1>2 DEF RequestState
<1>6. new.code \in {"ok", "accepted", "inference_failed", "internal_error"} \/ Untouched(new)
  <2>1. CASE Untouched(slot[p])
    <3>1. new.ran = << >> /\ ~new.made
      BY <1>5, <2>1, Zenon DEF Untouched
    <3>. QED
      BY <3>1 DEF Untouched
  <2>2. CASE slot[p].code \in {"ok", "accepted", "inference_failed", "internal_error"}
    BY <1>5, <2>2
  <2>. QED
    BY <1>1, <1>2, <2>1, <2>2 DEF TraceInv
<1>7. new.code # "ok" /\ AllSound(new.ran)
  BY <1>1, <1>2, <1>5 DEF TraceInv
<1>. HIDE DEF new
<1>8. TraceInv(new)
  BY <1>5, <1>6, <1>7 DEF TraceInv
<1>. QED
  BY <1>3, <1>4, <1>8, OneSlot

LEMMA SendKeeps ==
    ASSUME RequestsInv, NEW p \in Slots, Count(p) \/ CountException(p) \/ Rescue(p)
    PROVE  RequestsInv'
<1>1. CASE Count(p) \/ Rescue(p)
  <2>1. slot' = [slot EXCEPT ![p] = Idle]
    BY <1>1 DEF Count, Rescue, Sent
  <2>. QED
    BY <2>1, OneSlot
<1>2. CASE CountException(p)
  <2>1. slot[p].pc = "unhandled" /\ slot[p] # Idle
    BY <1>2 DEF CountException, Idle
  <2>2. slot[p] \in RequestState /\ TraceInv(slot[p])
    BY <2>1 DEF RequestsInv, SlotsOK
  <2>. DEFINE new == [slot[p] EXCEPT !.pc = "rescued"]
  <2>3. slot' = [slot EXCEPT ![p] = new]
    BY <1>2 DEF CountException
  <2>4. new \in RequestState
    BY <2>2 DEF RequestState, Stages
  <2>5. new.pc = "rescued" /\ new.ran = slot[p].ran
    BY <2>2 DEF RequestState
  <2>6. AllSound(new.ran)
    BY <2>2, <2>5 DEF TraceInv
  <2>. HIDE DEF new
  <2>7. TraceInv(new)
    BY <2>5, <2>6 DEF TraceInv
  <2>. QED
    BY <2>3, <2>4, <2>7, OneSlot
<1>. QED
  BY <1>1, <1>2
-------------------------------------------------------------------------------
\* A step of the service keeps every request in order.
LEMMA RequestsNext ==
    RequestsInv /\ [Next]_vars => RequestsInv'
<1>. SUFFICES ASSUME RequestsInv, [Next]_vars PROVE RequestsInv'
  OBVIOUS
<1>1. CASE UNCHANGED vars
  BY <1>1, SameRequests DEF vars
<1>2. CASE Start \/ DbFails \/ DbRecovers \/ Tick
  BY <1>2, SameRequests DEF Start, DbFails, DbRecovers, Tick
<1>3. CASE Down
  <2>1. slot' = [p \in Slots |-> Idle]
    BY <1>3 DEF Down, Fresh
  <2>2. SlotsOK'
    BY <2>1 DEF SlotsOK
  <2>3. \A p \in Slots : slot'[p] = Idle
    BY <2>1
  <2>. QED
    BY <2>2, <2>3 DEF RequestsInv, TraceInv
<1>4. ASSUME NEW n \in DOMAIN jobs, JobEnds(n) PROVE RequestsInv'
  BY <1>4, SameRequests DEF JobEnds
<1>5. ASSUME NEW k \in DbKeys, CreateKey(k) \/ Deactivate(k) PROVE RequestsInv'
  BY <1>5, SameRequests DEF CreateKey, Deactivate
<1>6. ASSUME NEW p \in Slots, Arrive(p) \/ Serve(p) PROVE RequestsInv'
  BY <1>6, ArriveKeeps, MetricsKeeps, GateKeeps, EnterKeeps, ReadFileKeeps, HandleKeeps, SendKeeps DEF Serve
<1>7. ASSUME NEW s \in Sockets, NEW k \in Keys, Connect(s, k) PROVE RequestsInv'
  BY <1>7, SameRequests DEF Connect
<1>8. ASSUME NEW s \in Sockets, NEW f \in Frames, Message(s, f) PROVE RequestsInv'
  BY <1>8, SameRequests DEF Message
<1>9. ASSUME NEW s \in Sockets, Disconnect(s) PROVE RequestsInv'
  BY <1>9, SameRequests DEF Disconnect
<1>. QED
  BY <1>1, <1>2, <1>3, <1>4, <1>5, <1>6, <1>7, <1>8, <1>9 DEF Next

LEMMA RequestsInit ==
    Init => RequestsInv
BY DEF Init, Fresh, RequestsInv, SlotsOK, TraceInv

\* Nothing that happened to a request is the client's fault.
LEMMA RequestsRejected ==
    RequestsInv => RejectedLeavesNoTrace
<1>. SUFFICES ASSUME RequestsInv, NEW p \in Slots, slot[p] # Idle
              PROVE  /\ slot[p].pc \in {"raised", "replying"} /\ StatusOf[slot[p].code] \in 400..499 =>
                            slot[p].ran = << >> /\ ~slot[p].made
                     /\ \A i \in DOMAIN slot[p].ran : Sound(slot[p].ran[i])
                     /\ slot[p].pc = "replying" /\ slot[p].code = "ok" /\ slot[p].req.route \in {"infer", "batch"} =>
                            slot[p].ran = slot[p].req.files
  BY DEF RejectedLeavesNoTrace
<1>1. TraceInv(slot[p]) /\ slot[p] \in RequestState
  BY DEF RequestsInv, SlotsOK
<1>2. DOMAIN slot[p].ran = 1..Len(slot[p].ran)
  BY <1>1 DEF RequestState
<1>3. \A c \in {"ok", "accepted", "inference_failed", "internal_error"} : StatusOf[c] \notin 400..499
  BY DEF StatusOf
<1>4. slot[p].pc \in {"raised", "replying"} /\ StatusOf[slot[p].code] \in 400..499 => Untouched(slot[p])
  BY <1>1, <1>3 DEF TraceInv
<1>5. \A i \in DOMAIN slot[p].ran : Sound(slot[p].ran[i])
  BY <1>1, <1>2 DEF TraceInv, AllSound
<1>6. slot[p].pc = "replying" /\ slot[p].code = "ok" /\ slot[p].req.route \in {"infer", "batch"} =>
          slot[p].ran = slot[p].req.files
  BY <1>1 DEF TraceInv
<1>7. Untouched(slot[p]) => slot[p].ran = << >> /\ ~slot[p].made
  BY DEF Untouched
<1>. QED
  BY <1>4, <1>5, <1>6, <1>7

\* A request that is refused has done nothing (RejectedLeavesNoTrace of Service).
THEOREM RejectionsAreClean == Spec => []RejectedLeavesNoTrace
<1>1. Init => RequestsInv
  BY RequestsInit
<1>2. RequestsInv /\ [Next]_vars => RequestsInv'
  BY RequestsNext
<1>3. RequestsInv => RejectedLeavesNoTrace
  BY RequestsRejected
<1>. QED
  BY <1>1, <1>2, <1>3, PTL DEF Spec
-------------------------------------------------------------------------------
\* What the gate goes by: settings it may run with, the rows that are active,
\* and buckets that miss what their one client has drawn.  Only the bucket of
\* the environment's keys has several clients.
StartedRight == settings = None \/ (settings \in Settings /\ ValidStartup(settings))

RowsAreKeys == revoked \subseteq issued /\ issued \subseteq DbKeys /\ active = issued \ revoked

BucketsMissWhatIsDrawn ==
    /\ tokens \in [Identities -> 0..Rate]
    /\ drawn \in [Keys \cup Hosts -> Nat]
    /\ \A i \in DbKeys \cup Hosts : tokens[i] + drawn[i] = Rate

DownIsEmpty == settings = None => \A p \in Slots : slot[p] = Idle

GateInv == StartedRight /\ RowsAreKeys /\ BucketsMissWhatIsDrawn /\ DownIsEmpty

\* Who authenticate finds, and whose tokens he draws.
LEMMA WhoIs ==
    ASSUME RequestsInv, GateInv, NEW p \in Slots, AtTheGate(p)
    PROVE  LET k == slot[p].req.key IN
           /\ k \in Keys /\ settings \in Settings /\ ValidStartup(settings)
           /\ Who(p) = AuthError =>
                IF k = None THEN settings.requireAuth ELSE k \notin EnvKeys /\ ~(db = "open" /\ k \in active)
           /\ Who(p) # AuthError =>
                /\ IF k = None THEN ~settings.requireAuth ELSE k \in EnvKeys \cup active
                /\ k \in EnvKeys => Who(p) = "env" /\ Holder(p) = k
                /\ k \notin EnvKeys => Who(p) = Holder(p) /\ Holder(p) \in DbKeys \cup Hosts
<1>. DEFINE k == slot[p].req.key
            h == slot[p].req.host
<1>1. slot[p].pc = "entered"
  BY DEF AtTheGate
<1>2. slot[p] # Idle /\ slot[p].req \in Requests
  BY <1>1, EnteredFacts
<1>3. k \in Keys /\ h \in Hosts
  BY <1>2, ServiceAssumption DEF Keys
<1>4. settings \in Settings /\ ValidStartup(settings)
  BY <1>2 DEF GateInv, StartedRight, DownIsEmpty
<1>5. active \subseteq DbKeys
  BY DEF GateInv, RowsAreKeys
<1>. HIDE DEF k, h
<1>6. Who(p) = CASE k = None -> IF settings.requireAuth THEN AuthError ELSE h
                 [] k \in EnvKeys -> "env"
                 [] OTHER -> IF DbLookup(k) = None THEN AuthError ELSE DbLookup(k)
  BY DEF Who, Authenticate, k, h
<1>7. Holder(p) = IF k = None THEN h ELSE k
  BY DEF Holder, k, h
<1>8. CASE k = None
  <2>1. Who(p) = IF settings.requireAuth THEN AuthError ELSE h
    BY <1>6, <1>8, ServiceAssumption
  <2>2. h # AuthError /\ k \notin EnvKeys
    BY <1>3, <1>8, ServiceAssumption DEF AuthError
  <2>3. Who(p) = AuthError => settings.requireAuth
    BY <2>1, <2>2, Zenon
  <2>4. Who(p) # AuthError => ~settings.requireAuth /\ Who(p) = h
    BY <2>1, Zenon
  <2>. QED
    BY <1>3, <1>4, <1>7, <1>8, <2>2, <2>3, <2>4 DEF k
<1>9. CASE k # None /\ k \in EnvKeys
  <2>1. Who(p) = "env" /\ Who(p) # AuthError
    BY <1>6, <1>9 DEF AuthError
  <2>. QED
    BY <1>3, <1>4, <1>7, <1>9, <2>1 DEF k
<1>10. CASE k # None /\ k \notin EnvKeys
  <2>1. Who(p) = IF DbLookup(k) = None THEN AuthError ELSE DbLookup(k)
    BY <1>6, <1>10
  <2>2. CASE db = "open" /\ k \in active
    <3>1. DbLookup(k) = k /\ k # AuthError
      BY <1>5, <2>2, ServiceAssumption DEF DbLookup, AuthError
    <3>. QED
      BY <1>3, <1>4, <1>5, <1>7, <1>10, <2>1, <2>2, <3>1 DEF k
  <2>3. CASE ~(db = "open" /\ k \in active)
    <3>1. DbLookup(k) = None
      BY <2>3 DEF DbLookup
    <3>. QED
      BY <1>3, <1>4, <1>10, <2>1, <2>3, <3>1 DEF k
  <2>. QED
    BY <2>2, <2>3
<1>. QED
  BY <1>8, <1>9, <1>10

\* A request that is let in draws one token, of the bucket it is counted for.
LEMMA EnterDraws ==
    ASSUME RequestsInv, GateInv, NEW p \in Slots, Enter(p)
    PROVE  BucketsMissWhatIsDrawn'
<1>. DEFINE w == Who(p)
            o == Holder(p)
            k == slot[p].req.key
<1>1. /\ w \in Identities /\ o \in Keys \cup Hosts
      /\ k \in EnvKeys => w = "env" /\ o = k
      /\ k \notin EnvKeys => w = o
  BY WhoIs DEF Enter, Identities, Keys
<1>2. tokens[w] \in 1..Rate
  BY <1>1, ServiceAssumption DEF Enter, GateInv, BucketsMissWhatIsDrawn
<1>3. tokens' = [tokens EXCEPT ![w] = @ - 1] /\ drawn' = [drawn EXCEPT ![o] = @ + 1]
  BY DEF Enter
<1>4. \A i \in DbKeys \cup Hosts : i = w <=> i = o
  BY <1>1, ServiceAssumption
<1>. HIDE DEF w, o, k
<1>5. tokens' \in [Identities -> 0..Rate]
  BY <1>1, <1>2, <1>3, ServiceAssumption DEF GateInv, BucketsMissWhatIsDrawn
<1>6. drawn' \in [Keys \cup Hosts -> Nat]
  BY <1>1, <1>3 DEF GateInv, BucketsMissWhatIsDrawn
<1>7. ASSUME NEW i \in DbKeys \cup Hosts PROVE tokens'[i] + drawn'[i] = Rate
  <2>1. tokens[i] \in 0..Rate /\ drawn[i] \in Nat /\ tokens[i] + drawn[i] = Rate
    BY DEF GateInv, BucketsMissWhatIsDrawn, Identities, Keys
  <2>2. CASE i = w
    <3>1. tokens'[i] = tokens[i] - 1 /\ drawn'[i] = drawn[i] + 1
      BY <1>1, <1>3, <1>4, <2>2 DEF GateInv, BucketsMissWhatIsDrawn
    <3>. QED
      BY <2>1, <3>1, ServiceAssumption
  <2>3. CASE i # w
    <3>1. tokens'[i] = tokens[i] /\ drawn'[i] = drawn[i]
      BY <1>3, <1>4, <2>3 DEF GateInv, BucketsMissWhatIsDrawn, Identities, Keys
    <3>. QED
      BY <2>1, <3>1
  <2>. QED
    BY <2>2, <2>3
<1>. QED
  BY <1>5, <1>6, <1>7 DEF BucketsMissWhatIsDrawn

LEMMA TickRefills ==
    ASSUME BucketsMissWhatIsDrawn, Tick
    PROVE  BucketsMissWhatIsDrawn'
<1>1. \A i \in Identities : tokens'[i] = IF tokens[i] < Rate THEN tokens[i] + 1 ELSE Rate
  BY DEF Tick
<1>2. \A i \in Keys \cup Hosts : drawn'[i] = IF drawn[i] > 0 THEN drawn[i] - 1 ELSE 0
  BY DEF Tick, BucketsMissWhatIsDrawn
<1>3. tokens' \in [Identities -> 0..Rate]
  BY ServiceAssumption DEF Tick, BucketsMissWhatIsDrawn
<1>4. drawn' \in [Keys \cup Hosts -> Nat]
  BY DEF Tick, BucketsMissWhatIsDrawn
<1>5. ASSUME NEW i \in DbKeys \cup Hosts PROVE tokens'[i] + drawn'[i] = Rate
  <2>1. tokens[i] \in 0..Rate /\ drawn[i] \in Nat /\ tokens[i] + drawn[i] = Rate
    BY DEF BucketsMissWhatIsDrawn, Identities, Keys
  <2>2. /\ tokens'[i] = IF tokens[i] < Rate THEN tokens[i] + 1 ELSE Rate
        /\ drawn'[i] = IF drawn[i] > 0 THEN drawn[i] - 1 ELSE 0
    BY <1>1, <1>2 DEF Identities, Keys
  <2>. QED
    BY <2>1, <2>2, ServiceAssumption
<1>. QED
  BY <1>3, <1>4, <1>5 DEF BucketsMissWhatIsDrawn

LEMMA FreshBuckets ==
    ASSUME tokens' = [i \in Identities |-> Rate], drawn' = [k \in Keys \cup Hosts |-> 0]
    PROVE  BucketsMissWhatIsDrawn'
BY ServiceAssumption DEF BucketsMissWhatIsDrawn, Identities, Keys

LEMMA GateInit ==
    Init => GateInv
BY ServiceAssumption DEF Init, Fresh, GateInv, StartedRight, RowsAreKeys, DownIsEmpty,
                         BucketsMissWhatIsDrawn, Identities, Keys

\* A step of one slot needs a process that is up, and leaves it so.
LEMMA SlotStepKeeps ==
    ASSUME RequestsInv, GateInv, NEW p \in Slots, Arrive(p) \/ Serve(p)
    PROVE  GateInv'
<1>1. UNCHANGED <<settings, active, issued, revoked>>
  BY DEF Arrive, Serve, Metrics, Refuse, Limit, Enter, ReadFile, Handle, Count, CountException, Rescue, keyVars
<1>2. settings # None
  <2>1. CASE Arrive(p)
    BY <2>1 DEF Arrive, Up
  <2>2. CASE Serve(p)
    <3>1. slot[p].pc \in Stages
      BY <2>2 DEF Serve, Metrics, Refuse, Limit, Enter, AtTheGate, ReadFile, Handle, Count, CountException,
                  Rescue, Stages
    <3>2. slot[p] # Idle
      BY <3>1 DEF Idle, Stages
    <3>. QED
      BY <3>2 DEF GateInv, DownIsEmpty
  <2>. QED
    BY <2>1, <2>2
<1>3. BucketsMissWhatIsDrawn'
  <2>1. CASE UNCHANGED limitVars
    BY <2>1 DEF limitVars, GateInv, BucketsMissWhatIsDrawn
  <2>2. CASE Enter(p)
    BY <2>2, EnterDraws
  <2>. QED
    BY <2>1, <2>2 DEF Arrive, Serve, Metrics, Refuse, Limit, ReadFile, Handle, Count, CountException, Rescue
<1>. QED
  BY <1>1, <1>2, <1>3 DEF GateInv, StartedRight, RowsAreKeys, DownIsEmpty

LEMMA GateNext ==
    RequestsInv /\ GateInv /\ [Next]_vars => GateInv'
<1>. SUFFICES ASSUME RequestsInv, GateInv, [Next]_vars PROVE GateInv'
  OBVIOUS
<1>. USE DEF keyVars, limitVars
<1>0. ASSUME UNCHANGED <<settings, active, issued, revoked, tokens, drawn, slot>> PROVE GateInv'
  BY <1>0 DEF GateInv, StartedRight, RowsAreKeys, BucketsMissWhatIsDrawn, DownIsEmpty
<1>1. CASE UNCHANGED vars
  BY <1>0, <1>1 DEF vars
<1>2. CASE DbFails \/ DbRecovers
  BY <1>0, <1>2 DEF DbFails, DbRecovers
<1>3. CASE Start
  <2>1. settings' \in Settings /\ ValidStartup(settings') /\ settings' # None
    BY <1>3, ServiceAssumption DEF Start
  <2>2. UNCHANGED <<active, issued, revoked, tokens, drawn>>
    BY <1>3 DEF Start
  <2>. QED
    BY <2>1, <2>2 DEF GateInv, StartedRight, RowsAreKeys, BucketsMissWhatIsDrawn, DownIsEmpty, ValidStartup
<1>4. CASE Down
  <2>1. BucketsMissWhatIsDrawn'
    BY <1>4, FreshBuckets DEF Down, Fresh
  <2>2. settings' = None /\ slot' = [p \in Slots |-> Idle]
    BY <1>4 DEF Down, Fresh
  <2>3. UNCHANGED <<active, issued, revoked>>
    BY <1>4 DEF Down
  <2>. QED
    BY <2>1, <2>2, <2>3 DEF GateInv, StartedRight, RowsAreKeys, DownIsEmpty
<1>5. CASE Tick
  <2>1. BucketsMissWhatIsDrawn'
    BY <1>5, TickRefills DEF GateInv
  <2>2. UNCHANGED <<settings, active, issued, revoked, slot>>
    BY <1>5 DEF Tick
  <2>. QED
    BY <2>1, <2>2 DEF GateInv, StartedRight, RowsAreKeys, DownIsEmpty
<1>6. ASSUME NEW n \in DOMAIN jobs, JobEnds(n) PROVE GateInv'
  BY <1>0, <1>6 DEF JobEnds
<1>7. ASSUME NEW k \in DbKeys, CreateKey(k) \/ Deactivate(k) PROVE GateInv'
  BY <1>7 DEF CreateKey, Deactivate, GateInv, StartedRight, RowsAreKeys, BucketsMissWhatIsDrawn, DownIsEmpty
<1>8. ASSUME NEW p \in Slots, Arrive(p) \/ Serve(p) PROVE GateInv'
  BY <1>8, SlotStepKeeps
<1>9. ASSUME NEW s \in Sockets, NEW k \in Keys, Connect(s, k) PROVE GateInv'
  BY <1>0, <1>9 DEF Connect
<1>10. ASSUME NEW s \in Sockets, NEW f \in Frames, Message(s, f) PROVE GateInv'
  BY <1>0, <1>10 DEF Message
<1>11. ASSUME NEW s \in Sockets, Disconnect(s) PROVE GateInv'
  BY <1>0, <1>11 DEF Disconnect
<1>. QED
  BY <1>1, <1>2, <1>3, <1>4, <1>5, <1>6, <1>7, <1>8, <1>9, <1>10, <1>11 DEF Next
-------------------------------------------------------------------------------
\* The three ways past the gate, and nothing else happens to a request there.
LEMMA AtTheGateOnly ==
    ASSUME RequestsInv, GateInv, [Next]_vars, NEW p \in Slots,
           slot'[p] # Idle, slot'[p] # slot[p], AtTheGate(p)
    PROVE  Refuse(p) \/ Limit(p) \/ Enter(p)
<1>1. slot[p].pc = "entered" /\ slot[p] # Idle
  BY DEF AtTheGate, Idle
<1>2. slot' # slot
  OBVIOUS
<1>3. ~Down
  BY DEF Down, Fresh
<1>4. PICK q \in Slots : Arrive(q) \/ Serve(q)
  BY <1>2, <1>3 DEF Next, vars, Start, DbFails, DbRecovers, Tick, JobEnds, CreateKey, Deactivate,
                    Connect, Message, Disconnect
<1>5. ASSUME q # p PROVE slot'[p] = slot[p]
  <2>1. \E new : slot' = [slot EXCEPT ![q] = new]
    BY <1>4 DEF Arrive, Serve, Metrics, Refuse, Limit, Enter, Endpoint, Accept, Submit, LookUp, CancelJob,
                ReadFile, Infer, Handle, Count, CountException, Rescue, Sent, Reply, Raise, Becomes
  <2>. QED
    BY <1>5, <2>1 DEF RequestsInv, SlotsOK
<1>6. q = p
  BY <1>5
<1>. QED
  BY <1>1, <1>4, <1>6 DEF Arrive, Serve, Metrics, AtTheGate, ReadFile, Handle, Count, CountException, Rescue

\* Whoever is let in is told neither of the two refusals.
LEMMA EnteredIsTold ==
    ASSUME RequestsInv, NEW p \in Slots, Enter(p)
    PROVE  slot'[p].code \notin {"unauthorized", "rate_limited"}
<1>1. slot[p].pc = "entered"
  BY DEF Enter, AtTheGate
<1>2. slot[p] \in RequestState /\ slot[p].code = "ok" /\ slot[p] # Idle
  BY <1>1, EnteredFacts
<1>3. ASSUME NEW stage \in Stages, NEW c \in Codes \ {"unauthorized", "rate_limited"}, Becomes(p, stage, c)
      PROVE  slot'[p].code \notin {"unauthorized", "rate_limited"}
  <2>1. PICK new \in RequestState : slot' = [slot EXCEPT ![p] = new] /\ new.code = c
    BY <1>2, <1>3, BecomesOf DEF RequestsInv
  <2>2. slot'[p] = new
    BY <2>1 DEF RequestsInv, SlotsOK
  <2>. QED
    BY <2>1, <2>2
<1>. USE CodesAre DEF Stages
<1>4. CASE Reply(p, "detail")
  BY <1>3, <1>4 DEF Reply
<1>5. CASE Accept(p)
  <2>1. CASE slot' = [slot EXCEPT ![p].pc = "reading"]
    BY <1>2, <2>1 DEF RequestsInv, SlotsOK, RequestState
  <2>. QED
    BY <1>3, <1>5, <2>1 DEF Accept, Raise
<1>6. CASE Submit(p)
  <2>1. ASSUME NEW stage, NEW c \in {"accepted", "internal_error"},
               slot' = [slot EXCEPT ![p].pc = stage, ![p].code = c, ![p].made = TRUE]
        PROVE  slot'[p].code \notin {"unauthorized", "rate_limited"}
    <3>1. slot'[p] = [slot[p] EXCEPT !.pc = stage, !.code = c, !.made = TRUE]
      BY <2>1 DEF RequestsInv, SlotsOK
    <3>2. slot'[p].code = c
      BY <1>2, <3>1 DEF RequestState
    <3>. QED
      BY <3>2
  <2>. QED
    BY <1>3, <1>6, <2>1 DEF Submit, Raise
<1>7. CASE LookUp(p) \/ CancelJob(p)
  BY <1>3, <1>7 DEF LookUp, CancelJob, Reply, Raise
<1>. QED
  BY <1>4, <1>5, <1>6, <1>7 DEF Enter, Endpoint

LEMMA RefusedIsTold ==
    ASSUME RequestsInv, NEW p \in Slots, NEW c \in Codes, AtTheGate(p), Raise(p, c)
    PROVE  slot'[p].code = c
<1>1. slot[p].pc = "entered"
  BY DEF AtTheGate
<1>2. PICK new \in RequestState : slot' = [slot EXCEPT ![p] = new] /\ new.code = c
  BY <1>1, EnteredFacts, BecomesOf DEF Raise, RequestsInv, Stages
<1>. QED
  BY <1>2 DEF RequestsInv, SlotsOK

\* Each of the three ways is fair.
LEMMA GateStep ==
    ASSUME RequestsInv, GateInv, [Next]_vars, NEW p \in Slots,
           slot[p] # Idle, slot'[p] # Idle, slot'[p] # slot[p], AtTheGate(p)
    PROVE  FairTo(p)
<1>. DEFINE k == slot[p].req.key
            told == slot'[p].code
<1>1. active = issued \ revoked /\ issued \subseteq DbKeys
  BY DEF GateInv, RowsAreKeys
<1>2. \A i \in DbKeys \cup Hosts : tokens[i] \in 0..Rate /\ drawn[i] \in Nat /\ tokens[i] + drawn[i] = Rate
  BY DEF GateInv, BucketsMissWhatIsDrawn, Identities, Keys
<1>. HIDE DEF k, told
<1>3. CASE Refuse(p)
  <2>1. told = "unauthorized"
    BY <1>3, RefusedIsTold, CodesAre DEF Refuse, told
  <2>2. IF k = None THEN settings.requireAuth ELSE k \notin EnvKeys /\ ~(db = "open" /\ k \in active)
    BY <1>3, WhoIs, Zenon DEF Refuse, k
  <2>3. k # None => (GoodKey(k) => k \in DbKeys /\ db # "open")
    BY <1>1, <2>2 DEF GoodKey
  <2>4. IF k = None THEN settings.requireAuth ELSE (GoodKey(k) => k \in DbKeys /\ db # "open")
    BY <2>2, <2>3, Zenon
  <2>. QED
    BY <2>1, <2>4 DEF FairTo, k, told
<1>4. CASE Limit(p)
  <2>1. told = "rate_limited"
    BY <1>4, RefusedIsTold, CodesAre DEF Limit, told
  <2>2. k \notin EnvKeys => tokens[Holder(p)] = 0 /\ Holder(p) \in DbKeys \cup Hosts
    BY <1>4, WhoIs DEF Limit, k
  <2>3. k \notin EnvKeys => drawn[Holder(p)] >= Rate
    BY <1>2, <2>2, ServiceAssumption
  <2>. QED
    BY <2>1, <2>3 DEF FairTo, k, told
<1>5. CASE Enter(p)
  <2>1. told \notin {"unauthorized", "rate_limited"}
    BY <1>5, EnteredIsTold DEF told
  <2>2. IF k = None THEN ~settings.requireAuth ELSE k \in EnvKeys \cup active
    BY <1>5, WhoIs, Zenon DEF Enter, k
  <2>3. settings.production => settings.requireAuth
    BY <1>5, WhoIs, Zenon DEF Enter, ValidStartup
  <2>4. k # None => GoodKey(k)
    BY <1>1, <2>2 DEF GoodKey
  <2>5. IF k = None THEN ~settings.production ELSE GoodKey(k)
    BY <2>2, <2>3, <2>4, Zenon
  <2>6. k \notin EnvKeys => tokens[Holder(p)] > 0 /\ Holder(p) \in DbKeys \cup Hosts
    BY <1>5, WhoIs DEF Enter, k
  <2>7. k \notin EnvKeys => drawn[Holder(p)] < Rate
    BY <1>2, <2>6, ServiceAssumption
  <2>. QED
    BY <2>1, <2>5, <2>7 DEF FairTo, k, told
<1>. QED
  BY <1>3, <1>4, <1>5, AtTheGateOnly

LEMMA GateStepFair ==
    RequestsInv /\ GateInv /\ [Next]_vars =>
        [\A p \in Slots : slot[p] # Idle /\ slot'[p] # Idle /\ slot'[p] # slot[p] /\ AtTheGate(p) =>
            FairTo(p)]_vars
BY GateStep, Zenon

\* The gate is fair (GateIsFair of Service).
THEOREM TheGateIsFair == Spec => GateIsFair
<1>1. Init => RequestsInv /\ GateInv
  BY RequestsInit, GateInit
<1>2. RequestsInv /\ GateInv /\ [Next]_vars => RequestsInv' /\ GateInv'
  BY RequestsNext, GateNext
<1>. QED
  BY <1>1, <1>2, GateStepFair, PTL DEF Spec, GateIsFair
-------------------------------------------------------------------------------
(* Sums over finite sets.  SumFunctionOnSet is a recursive function, which *)
(* exists because its approximations do, one of each size: by induction,   *)
(* stated for sets of numbers.                                             *)

LEMMA SetInduction ==
    ASSUME NEW P, 0 \in P, \A n \in Nat : n \in P => n + 1 \in P
    PROVE  Nat \subseteq P
<1>. SUFFICES ASSUME Nat \ P # {} PROVE FALSE
  OBVIOUS
<1>. DEFINE R == OpToRel(<, Nat)
<1>1. IsWellFoundedOn(R, Nat)
  BY NatLessThanWellFounded, Zenon
<1>2. \A n \in Nat : <<n, n + 1>> \in R
  <2>1. R = {ss \in Nat \X Nat : ss[1] < ss[2]}
    BY Zenon DEF OpToRel
  <2>. HIDE DEF R
  <2>. QED
    BY <2>1
<1>. HIDE DEF R
<1>3. PICK x \in Nat \ P : \A y \in Nat \ P : ~(<<y, x>> \in R)
  BY <1>1, WFMin, Zenon
<1>4. PICK y \in Nat : x = y + 1
  <2>1. x # 0 /\ x - 1 \in Nat /\ x = (x - 1) + 1
    OBVIOUS
  <2>. QED
    BY <2>1
<1>. QED
  BY <1>2, <1>3, <1>4

\* The sums of F over the sets in D; a set's element is taken out as
\* SumFunctionOnSet takes it out.
AnyOf(T) == CHOOSE x \in T : TRUE
SumsOver(F, D, iter) ==
    iter = [T \in D |-> IF T = {} THEN 0 ELSE F[AnyOf(T)] + iter[T \ {AnyOf(T)}]]

UpTo(S, n) == {T \in SUBSET S : Cardinality(T) <= n}

\* A set has one element less when one is taken out.
LEMMA OneLess ==
    ASSUME NEW S, IsFiniteSet(S), NEW T \in SUBSET S, T # {}
    PROVE  /\ AnyOf(T) \in T /\ T \ {AnyOf(T)} \in SUBSET S
           /\ Cardinality(T) \in Nat \ {0}
           /\ Cardinality(T \ {AnyOf(T)}) = Cardinality(T) - 1
<1>1. AnyOf(T) \in T
  BY DEF AnyOf
<1>2. IsFiniteSet(T) /\ Cardinality(T) \in Nat
  BY FS_Subset, FS_CardinalityType
<1>3. Cardinality(T \ {AnyOf(T)}) = Cardinality(T) - 1
  BY <1>1, <1>2, FS_RemoveElement
<1>4. Cardinality(T) # 0
  BY <1>2, FS_EmptySet
<1>. QED
  BY <1>1, <1>2, <1>3, <1>4

LEMMA SumsExist ==
    ASSUME NEW F, NEW S, IsFiniteSet(S)
    PROVE  \E iter : SumsOver(F, SUBSET S, iter)
<1>. DEFINE P == {n \in Nat : \E iter : SumsOver(F, UpTo(S, n), iter)}
<1>1. 0 \in P
  <2>1. UpTo(S, 0) = {{}}
    <3>1. {} \in UpTo(S, 0)
      BY FS_EmptySet DEF UpTo
    <3>2. ASSUME NEW T \in UpTo(S, 0), T # {} PROVE FALSE
      <4>1. T \in SUBSET S /\ Cardinality(T) <= 0
        BY DEF UpTo
      <4>2. Cardinality(T) \in Nat \ {0}
        BY <3>2, <4>1, OneLess
      <4>. QED
        BY <4>1, <4>2
    <3>. QED
      BY <3>1, <3>2
  <2>2. SumsOver(F, {{}}, [T \in {{}} |-> 0])
    BY DEF SumsOver
  <2>. QED
    BY <2>1, <2>2
<1>2. ASSUME NEW n \in Nat, n \in P PROVE n + 1 \in P
  <2>1. PICK g : SumsOver(F, UpTo(S, n), g)
    BY <1>2
  <2>. DEFINE h == [T \in UpTo(S, n + 1) |-> IF T = {} THEN 0 ELSE F[AnyOf(T)] + g[T \ {AnyOf(T)}]]
  <2>2. \A T \in UpTo(S, n) : T \in UpTo(S, n + 1) /\ h[T] = g[T]
    <3>. SUFFICES ASSUME NEW T \in UpTo(S, n) PROVE T \in UpTo(S, n + 1) /\ h[T] = g[T]
      OBVIOUS
    <3>1. Cardinality(T) \in Nat
      BY FS_Subset, FS_CardinalityType DEF UpTo
    <3>2. T \in UpTo(S, n + 1)
      BY <3>1 DEF UpTo
    <3>3. g[T] = IF T = {} THEN 0 ELSE F[AnyOf(T)] + g[T \ {AnyOf(T)}]
      BY <2>1, Zenon DEF SumsOver
    <3>. QED
      BY <3>2, <3>3
  <2>3. \A T \in UpTo(S, n + 1) : T # {} => T \ {AnyOf(T)} \in UpTo(S, n)
    BY OneLess DEF UpTo
  <2>4. \A T \in UpTo(S, n + 1) : T # {} => h[T \ {AnyOf(T)}] = g[T \ {AnyOf(T)}]
    <3>. HIDE DEF h
    <3>. QED
      BY <2>2, <2>3
  <2>5. h = [T \in UpTo(S, n + 1) |-> IF T = {} THEN 0 ELSE F[AnyOf(T)] + h[T \ {AnyOf(T)}]]
    <3>. DEFINE k == [T \in UpTo(S, n + 1) |-> IF T = {} THEN 0 ELSE F[AnyOf(T)] + h[T \ {AnyOf(T)}]]
    <3>1. \A T \in UpTo(S, n + 1) : h[T] = IF T = {} THEN 0 ELSE F[AnyOf(T)] + g[T \ {AnyOf(T)}]
      BY Zenon
    <3>2. DOMAIN h = UpTo(S, n + 1) /\ h = [T \in UpTo(S, n + 1) |-> h[T]]
      BY Zenon
    <3>. HIDE DEF h
    <3>3. \A T \in UpTo(S, n + 1) : h[T] = k[T]
      BY <2>4, <3>1
    <3>. QED
      BY <3>2, <3>3
  <2>. HIDE DEF h
  <2>6. SumsOver(F, UpTo(S, n + 1), h)
    BY <2>5, Zenon DEF SumsOver
  <2>. QED
    BY <2>6
<1>3. Nat \subseteq P
  <2>. HIDE DEF P
  <2>. QED
    BY <1>1, <1>2, SetInduction, Zenon
<1>4. Cardinality(S) \in Nat
  BY FS_CardinalityType
<1>5. UpTo(S, Cardinality(S)) = SUBSET S
  BY FS_Subset DEF UpTo
<1>. QED
  BY <1>3, <1>4, <1>5

\* What SumFunctionOnSet computes, for every finite set.
LEMMA SumIs ==
    ASSUME NEW F, NEW S, IsFiniteSet(S)
    PROVE  \E iter : SumsOver(F, SUBSET S, iter) /\ SumFunctionOnSet(F, S) = iter[S]
<1>. DEFINE iter == CHOOSE g : SumsOver(F, SUBSET S, g)
<1>1. SumsOver(F, SUBSET S, iter)
  BY SumsExist, Zenon
<1>2. SumFunctionOnSet(F, S) = iter[S]
  BY Zenon DEF SumFunctionOnSet, FoldFunctionOnSet, MapThenFoldSet, SumsOver, AnyOf
<1>. QED
  BY <1>1, <1>2, Zenon

\* The property of all subsets of S that holds of the empty one and of every
\* one that has it of what is left when an element is taken out.
LEMMA SubsetInduction ==
    ASSUME NEW S, IsFiniteSet(S), NEW Q, {} \in Q,
           \A T \in SUBSET S : T # {} /\ T \ {AnyOf(T)} \in Q => T \in Q
    PROVE  S \in Q
<1>. DEFINE P == {n \in Nat : UpTo(S, n) \subseteq Q}
<1>1. 0 \in P
  <2>1. ASSUME NEW T \in UpTo(S, 0), T # {} PROVE FALSE
    <3>1. T \in SUBSET S /\ Cardinality(T) <= 0
      BY DEF UpTo
    <3>2. Cardinality(T) \in Nat \ {0}
      BY <2>1, <3>1, OneLess
    <3>. QED
      BY <3>1, <3>2
  <2>. QED
    BY <2>1
<1>2. ASSUME NEW n \in Nat, n \in P PROVE n + 1 \in P
  <2>1. ASSUME NEW T \in UpTo(S, n + 1) PROVE T \in Q
    <3>1. CASE T = {}
      BY <3>1
    <3>2. CASE T # {}
      <4>1. T \ {AnyOf(T)} \in UpTo(S, n)
        BY <3>2, OneLess DEF UpTo
      <4>. QED
        BY <1>2, <3>2, <4>1 DEF UpTo
    <3>. QED
      BY <3>1, <3>2
  <2>. QED
    BY <2>1
<1>3. Nat \subseteq P
  <2>. HIDE DEF P
  <2>. QED
    BY <1>1, <1>2, SetInduction, Zenon
<1>4. Cardinality(S) \in Nat
  BY FS_CardinalityType
<1>5. S \in UpTo(S, Cardinality(S))
  BY <1>4 DEF UpTo
<1>. QED
  BY <1>3, <1>4, <1>5

\* When one term grows by d the sum does, if the term is one of its own.
LEMMA SumMoves ==
    ASSUME NEW S, IsFiniteSet(S), NEW F, NEW G, NEW c, NEW d \in Int,
           \A x \in S : F[x] \in Int /\ G[x] = F[x] + (IF x = c THEN d ELSE 0)
    PROVE  /\ SumFunctionOnSet(F, S) \in Int
           /\ SumFunctionOnSet(G, S) = SumFunctionOnSet(F, S) + (IF c \in S THEN d ELSE 0)
<1>1. PICK f : SumsOver(F, SUBSET S, f) /\ SumFunctionOnSet(F, S) = f[S]
  BY SumIs
<1>2. PICK g : SumsOver(G, SUBSET S, g) /\ SumFunctionOnSet(G, S) = g[S]
  BY SumIs
<1>. DEFINE Q == {T \in SUBSET S : f[T] \in Int /\ g[T] = f[T] + (IF c \in T THEN d ELSE 0)}
<1>3. \A T \in SUBSET S : /\ f[T] = IF T = {} THEN 0 ELSE F[AnyOf(T)] + f[T \ {AnyOf(T)}]
                          /\ g[T] = IF T = {} THEN 0 ELSE G[AnyOf(T)] + g[T \ {AnyOf(T)}]
  BY <1>1, <1>2, Zenon DEF SumsOver
<1>4. {} \in Q
  <2>1. {} \in SUBSET S
    OBVIOUS
  <2>2. f[{}] = 0 /\ g[{}] = 0
    BY <1>3, <2>1, Zenon
  <2>. QED
    BY <2>1, <2>2
<1>5. ASSUME NEW T \in SUBSET S, T # {}, T \ {AnyOf(T)} \in Q PROVE T \in Q
  <2>. DEFINE x == AnyOf(T)
              R == T \ {x}
  <2>1. x \in T /\ x \in S
    BY <1>5, OneLess
  <2>2. f[T] = F[x] + f[R] /\ g[T] = G[x] + g[R]
    BY <1>3, <1>5
  <2>3. f[R] \in Int /\ g[R] = f[R] + (IF c \in R THEN d ELSE 0)
    BY <1>5
  <2>4. F[x] \in Int /\ G[x] = F[x] + (IF x = c THEN d ELSE 0)
    BY <2>1
  <2>5. c \in T <=> c = x \/ c \in R
    BY <2>1
  <2>6. ~(c = x /\ c \in R)
    OBVIOUS
  <2>. HIDE DEF x, R
  <2>7. f[T] \in Int /\ g[T] = f[T] + (IF c \in T THEN d ELSE 0)
    <3>1. CASE c = x
      BY <2>2, <2>3, <2>4, <2>5, <2>6, <3>1
    <3>2. CASE c # x
      BY <2>2, <2>3, <2>4, <2>5, <3>2
    <3>. QED
      BY <3>1, <3>2
  <2>. QED
    BY <2>7
<1>. HIDE DEF Q
<1>6. S \in Q
  BY <1>4, <1>5, SubsetInduction, Zenon
<1>. QED
  BY <1>1, <1>2, <1>6 DEF Q

LEMMA SumOfNothing ==
    ASSUME NEW S, IsFiniteSet(S), NEW F, \A x \in S : F[x] = 0
    PROVE  SumFunctionOnSet(F, S) = 0
<1>1. PICK f : SumsOver(F, SUBSET S, f) /\ SumFunctionOnSet(F, S) = f[S]
  BY SumIs
<1>. DEFINE Q == {T \in SUBSET S : f[T] = 0}
<1>2. \A T \in SUBSET S : f[T] = IF T = {} THEN 0 ELSE F[AnyOf(T)] + f[T \ {AnyOf(T)}]
  BY <1>1, Zenon DEF SumsOver
<1>3. {} \in Q
  <2>1. {} \in SUBSET S
    OBVIOUS
  <2>2. f[{}] = 0
    BY <1>2, <2>1, Zenon
  <2>. QED
    BY <2>1, <2>2
<1>4. ASSUME NEW T \in SUBSET S, T # {}, T \ {AnyOf(T)} \in Q PROVE T \in Q
  <2>1. AnyOf(T) \in S /\ f[T \ {AnyOf(T)}] = 0
    BY <1>4, OneLess
  <2>2. f[T] = F[AnyOf(T)] + f[T \ {AnyOf(T)}]
    BY <1>2, <1>4
  <2>. QED
    BY <2>1, <2>2
<1>. HIDE DEF Q
<1>5. S \in Q
  BY <1>3, <1>4, SubsetInduction, Zenon
<1>. QED
  BY <1>1, <1>5 DEF Q
-------------------------------------------------------------------------------
(* The counters of /metrics. *)

\* A request that is stopped has a code that says so, and one broken off the
\* code of all exceptions.
CodeFits(s) ==
    /\ s.pc = "raised" => s.code \notin Fine
    /\ s.pc \in {"unhandled", "rescued"} => s.code = "internal_error"

CountersTyped ==
    /\ requestsTotal \in [Statuses -> Nat]
    /\ errorsTotal \in [Codes -> Nat]
    /\ answered \in [Codes -> Nat]

CountsInv ==
    /\ CountersTyped
    /\ \A p \in Slots : slot[p] # Idle => CodeFits(slot[p])
    /\ CountersBalance

CodesOf(s) == {c \in Codes : StatusOf[c] = s}

LEMMA CodesOfIsFinite ==
    ASSUME NEW s
    PROVE  IsFiniteSet(CodesOf(s))
<1>. DEFINE Few == {"ok"} \cup {"accepted"} \cup {"detail"} \cup {"validation_error"} \cup {"unauthorized"}
            Some == {"rate_limited"} \cup {"payload_too_large"} \cup {"unsupported_media_type"}
            More == {"not_found"} \cup {"inference_failed"} \cup {"internal_error"} \cup {"service_unavailable"}
<1>1. IsFiniteSet(Codes)
  <2>1. IsFiniteSet(Few) /\ IsFiniteSet(Some) /\ IsFiniteSet(More)
    BY FS_Singleton, FS_Union
  <2>2. Codes = Few \cup Some \cup More
    BY CodesAre
  <2>. HIDE DEF Few, Some, More
  <2>. QED
    BY <2>1, <2>2, FS_Union
<1>. QED
  BY <1>1, FS_Subset DEF CodesOf

\* A slot's request counts for one stage and code.
Here(s, stage, c) == IF s # Idle /\ s.pc = stage /\ s.code = c THEN 1 ELSE 0

\* At, of any state of the slots.
HowMany(slots, stage, c) ==
    Cardinality({p \in Slots : slots[p] # Idle /\ slots[p].pc = stage /\ slots[p].code = c})

LEMMA HowManyTyped ==
    ASSUME NEW slots, NEW stage, NEW c
    PROVE  HowMany(slots, stage, c) \in Nat
<1>1. IsFiniteSet({p \in Slots : slots[p] # Idle /\ slots[p].pc = stage /\ slots[p].code = c})
  BY ServiceAssumption, FS_Subset
<1>. QED
  BY <1>1, FS_CardinalityType DEF HowMany

\* g has new in the place of p, and is f elsewhere.
Puts(g, f, p, new) == \A q \in Slots : g[q] = IF q = p THEN new ELSE f[q]

LEMMA MovesOf ==
    ASSUME NEW f, NEW g, NEW p \in Slots, NEW new, Puts(g, f, p, new),
           NEW stage, NEW c
    PROVE  HowMany(g, stage, c) = HowMany(f, stage, c) + Here(new, stage, c) - Here(f[p], stage, c)
<1>. DEFINE A == {q \in Slots : f[q] # Idle /\ f[q].pc = stage /\ f[q].code = c}
            B == {q \in Slots : g[q] # Idle /\ g[q].pc = stage /\ g[q].code = c}
            R == A \ {p}
<1>2. IsFiniteSet(R)
  BY ServiceAssumption, FS_Subset
<1>3. A = IF Here(f[p], stage, c) = 1 THEN R \cup {p} ELSE R
  BY DEF Here
<1>4. B = IF Here(new, stage, c) = 1 THEN R \cup {p} ELSE R
  BY DEF Here, Puts
<1>5. p \notin R
  OBVIOUS
<1>6. HowMany(f, stage, c) = Cardinality(A) /\ HowMany(g, stage, c) = Cardinality(B)
  BY DEF HowMany
<1>7. Here(f[p], stage, c) \in {0, 1} /\ Here(new, stage, c) \in {0, 1}
  BY DEF Here
<1>. HIDE DEF A, B, R
<1>8. Cardinality(R \cup {p}) = Cardinality(R) + 1 /\ Cardinality(R) \in Nat
  BY <1>2, <1>5, FS_AddElement, FS_CardinalityType
<1>. QED
  BY <1>3, <1>4, <1>6, <1>7, <1>8

LEMMA MovesBy ==
    ASSUME NEW f, NEW g, NEW p \in Slots, NEW new, Puts(g, f, p, new), NEW stage, NEW c,
           NEW a, NEW b, Here(new, stage, c) = a, Here(f[p], stage, c) = b
    PROVE  HowMany(g, stage, c) = HowMany(f, stage, c) + a - b
BY MovesOf

LEMMA Stays ==
    ASSUME NEW f, NEW g, NEW p \in Slots, NEW new, Puts(g, f, p, new), NEW stage, NEW c,
           Here(new, stage, c) = 0, Here(f[p], stage, c) = 0
    PROVE  HowMany(g, stage, c) = HowMany(f, stage, c)
BY MovesOf, HowManyTyped

\* The total of a status moves with what it has counted under one code.
LEMMA TotalMoves ==
    ASSUME CountersTyped, CountersTyped', CountersBalance, NEW c \in Codes, NEW d \in Int,
           \A x \in Codes : Counted'[x] = Counted[x] + (IF x = c THEN d ELSE 0),
           \A s \in Statuses : requestsTotal'[s] = requestsTotal[s] + (IF s = StatusOf[c] THEN d ELSE 0)
    PROVE  \A s \in Statuses : requestsTotal'[s] = SumFunctionOnSet(Counted', CodesOf(s))
<1>. SUFFICES ASSUME NEW s \in Statuses PROVE requestsTotal'[s] = SumFunctionOnSet(Counted', CodesOf(s))
  OBVIOUS
<1>1. IsFiniteSet(CodesOf(s))
  BY CodesOfIsFinite
<1>2. requestsTotal[s] = SumFunctionOnSet(Counted, CodesOf(s))
  BY DEF CountersBalance, CodesOf
<1>3. \A x \in CodesOf(s) : x \in Codes /\ Counted[x] \in Int
  <2>1. \A x \in Codes : Counted[x] = answered[x] + HowMany(slot, "rescued", x)
    BY DEF Counted, At, HowMany
  <2>2. \A x \in Codes : HowMany(slot, "rescued", x) \in Nat /\ answered[x] \in Nat
    BY HowManyTyped, Zenon DEF CountersTyped
  <2>. QED
    BY <2>1, <2>2 DEF CodesOf
<1>4. c \in CodesOf(s) <=> s = StatusOf[c]
  BY DEF CodesOf
<1>. DEFINE G == Counted'
<1>5. \A x \in CodesOf(s) : Counted[x] \in Int /\ G[x] = Counted[x] + (IF x = c THEN d ELSE 0)
  BY <1>3
<1>. HIDE DEF G
<1>6. SumFunctionOnSet(G, CodesOf(s)) = SumFunctionOnSet(Counted, CodesOf(s)) + (IF c \in CodesOf(s) THEN d ELSE 0)
  BY <1>1, <1>5, SumMoves
<1>7. requestsTotal'[s] = requestsTotal[s] + (IF s = StatusOf[c] THEN d ELSE 0)
  OBVIOUS
<1>8. requestsTotal'[s] = SumFunctionOnSet(G, CodesOf(s))
  BY <1>2, <1>4, <1>6, <1>7
<1>. QED
  BY <1>8 DEF G

LEMMA CountedIs ==
    /\ Counted = [c \in Codes |-> answered[c] + HowMany(slot, "rescued", c)]
    /\ Counted' = [c \in Codes |-> answered'[c] + HowMany(slot', "rescued", c)]
BY DEF Counted, At, HowMany

LEMMA BalanceIs ==
    CountersBalance <=>
        /\ \A s \in Statuses : requestsTotal[s] = SumFunctionOnSet(Counted, CodesOf(s))
        /\ \A c \in Codes \ Fine : errorsTotal[c] = answered[c] + HowMany(slot, "replying", c)
        /\ \A c \in Fine : errorsTotal[c] = 0
BY DEF CountersBalance, CodesOf, At, HowMany

LEMMA BalanceWillBe ==
    CountersBalance' <=>
        /\ \A s \in Statuses : requestsTotal'[s] = SumFunctionOnSet(Counted', CodesOf(s))
        /\ \A c \in Codes \ Fine : errorsTotal'[c] = answered'[c] + HowMany(slot', "replying", c)
        /\ \A c \in Fine : errorsTotal'[c] = 0
BY DEF CountersBalance, CodesOf, At, HowMany

\* A request on its way to an answer that nothing counts: it ends up where it
\* can be counted later, with a code that fits.
Quiet(s) ==
    /\ s.pc # "rescued" /\ CodeFits(s)
    /\ s.pc = "replying" => s.code \in Fine

LEMMA QuietKeeps ==
    ASSUME RequestsInv, CountsInv, UNCHANGED counters, NEW p \in Slots, NEW new,
           slot' = [slot EXCEPT ![p] = new], Quiet(new),
           slot[p] = Idle \/ slot[p].pc \in {"entered", "reading"}
    PROVE  CountsInv'
<1>1. CountersTyped'
  BY DEF CountsInv, CountersTyped, counters
<1>2. Puts(slot', slot, p, new)
  BY DEF RequestsInv, SlotsOK, Puts
<1>3. \A q \in Slots : slot'[q] # Idle => CodeFits(slot'[q])
  BY <1>2 DEF CountsInv, Quiet, CodeFits, Puts
<1>4. ASSUME NEW c \in Codes PROVE HowMany(slot', "rescued", c) = HowMany(slot, "rescued", c)
  <2>1. Here(new, "rescued", c) = 0 /\ Here(slot[p], "rescued", c) = 0
    BY DEF Here, Quiet
  <2>. QED
    BY <1>2, <2>1, Stays
<1>5. ASSUME NEW c \in Codes \ Fine PROVE HowMany(slot', "replying", c) = HowMany(slot, "replying", c)
  <2>1. Here(new, "replying", c) = 0 /\ Here(slot[p], "replying", c) = 0
    BY DEF Here, Quiet
  <2>. QED
    BY <1>2, <2>1, Stays
<1>6. UNCHANGED <<requestsTotal, errorsTotal, answered>>
  BY DEF counters
<1>7. Counted' = Counted
  BY <1>4, <1>6, CountedIs
<1>8. CountersBalance'
  BY <1>5, <1>6, <1>7, BalanceIs, BalanceWillBe DEF CountsInv
<1>. QED
  BY <1>1, <1>3, <1>8 DEF CountsInv, CodeFits

\* What Becomes makes of a request of such a kind.
LEMMA BecomesQuiet ==
    ASSUME SlotsOK, NEW p \in Slots, slot[p] # Idle,
           NEW stage \in {"raised", "replying", "unhandled"}, NEW c \in Codes, Becomes(p, stage, c),
           stage = "raised" => c \notin Fine,
           stage = "replying" => c \in Fine,
           stage = "unhandled" => c = "internal_error"
    PROVE  \E new : slot' = [slot EXCEPT ![p] = new] /\ Quiet(new)
<1>1. PICK new \in RequestState : slot' = [slot EXCEPT ![p] = new] /\ new.pc = stage /\ new.code = c
  BY BecomesOf DEF Stages
<1>. QED
  BY <1>1 DEF Quiet, CodeFits

LEMMA InferQuiet ==
    ASSUME SlotsOK, NEW p \in Slots, slot[p] # Idle, slot[p].code = "ok", NEW images, Infer(p, images)
    PROVE  \E new : slot' = [slot EXCEPT ![p] = new] /\ Quiet(new)
<1>1. slot[p] \in RequestState
  BY DEF SlotsOK
<1>2. ASSUME NEW ran, slot' = [slot EXCEPT ![p].pc = "replying", ![p].ran = ran]
      PROVE  \E new : slot' = [slot EXCEPT ![p] = new] /\ Quiet(new)
  <2>. DEFINE new == [slot[p] EXCEPT !.pc = "replying", !.ran = ran]
  <2>1. slot' = [slot EXCEPT ![p] = new]
    BY <1>2
  <2>2. new.pc = "replying" /\ new.code = "ok"
    BY <1>1 DEF RequestState
  <2>. QED
    BY <2>1, <2>2 DEF Quiet, CodeFits, Fine
<1>3. ASSUME NEW ran, NEW stage, NEW c,
             slot' = [slot EXCEPT ![p].pc = stage, ![p].code = c, ![p].ran = ran],
             \/ stage = "raised" /\ c = "inference_failed"
             \/ stage = "unhandled" /\ c = "internal_error"
      PROVE  \E new : slot' = [slot EXCEPT ![p] = new] /\ Quiet(new)
  <2>. DEFINE new == [slot[p] EXCEPT !.pc = stage, !.code = c, !.ran = ran]
  <2>1. slot' = [slot EXCEPT ![p] = new]
    BY <1>3
  <2>2. new.pc = stage /\ new.code = c
    BY <1>1 DEF RequestState
  <2>. QED
    BY <1>3, <2>1, <2>2 DEF Quiet, CodeFits, Fine
<1>. QED
  BY <1>2, <1>3 DEF Infer

LEMMA ReadFileQuiet ==
    ASSUME RequestsInv, NEW p \in Slots, ReadFile(p)
    PROVE  \E new : slot' = [slot EXCEPT ![p] = new] /\ Quiet(new)
<1>. DEFINE u == Head(slot[p].files)
<1>0. slot[p].pc = "reading" /\ slot[p] # Idle
  BY DEF ReadFile, Idle
<1>1. slot[p] \in RequestState /\ SlotsOK /\ slot[p].code = "ok"
  BY <1>0 DEF RequestsInv, SlotsOK, TraceInv
<1>2. CASE DecodeImage(u) # "ok" /\ Raise(p, DecodeImage(u))
  <2>1. DecodeImage(u) \in {"validation_error", "payload_too_large", "unsupported_media_type"}
    BY <1>2, FailedHasCode DEF DecodeImage
  <2>. QED
    BY <1>0, <1>1, <1>2, <2>1, BecomesQuiet, CodesAre DEF Raise, Fine
<1>3. CASE slot' = [slot EXCEPT ![p].files = Tail(@)]
  <2>. DEFINE new == [slot[p] EXCEPT !.files = Tail(slot[p].files)]
  <2>1. slot' = [slot EXCEPT ![p] = new]
    BY <1>3
  <2>2. new.pc = "reading"
    BY <1>0, <1>1 DEF RequestState
  <2>. QED
    BY <2>1, <2>2 DEF Quiet, CodeFits
<1>4. CASE Infer(p, slot[p].req.files)
  BY <1>0, <1>1, <1>4, InferQuiet
<1>. QED
  BY <1>2, <1>3, <1>4 DEF ReadFile

LEMMA EnterQuiet ==
    ASSUME RequestsInv, NEW p \in Slots, Enter(p)
    PROVE  \E new : slot' = [slot EXCEPT ![p] = new] /\ Quiet(new)
<1>1. slot[p].pc = "entered"
  BY DEF Enter, AtTheGate
<1>2. slot[p] \in RequestState /\ slot[p] # Idle /\ SlotsOK
  BY <1>1, EnteredFacts DEF RequestsInv
<1>. USE CodesAre DEF Fine
<1>3. CASE Reply(p, "detail")
  BY <1>2, <1>3, BecomesQuiet DEF Reply
<1>4. CASE Accept(p)
  <2>1. CASE Raise(p, "validation_error")
    BY <1>2, <2>1, BecomesQuiet DEF Raise
  <2>2. CASE slot' = [slot EXCEPT ![p].pc = "reading"]
    <3>. DEFINE new == [slot[p] EXCEPT !.pc = "reading"]
    <3>1. slot' = [slot EXCEPT ![p] = new]
      BY <2>2
    <3>2. new.pc = "reading"
      BY <1>2 DEF RequestState
    <3>. QED
      BY <3>1, <3>2 DEF Quiet, CodeFits
  <2>. QED
    BY <1>4, <2>1, <2>2 DEF Accept
<1>5. CASE Submit(p)
  <2>1. CASE Raise(p, "validation_error")
    BY <1>2, <2>1, BecomesQuiet DEF Raise
  <2>2. ASSUME NEW stage, NEW c,
               slot' = [slot EXCEPT ![p].pc = stage, ![p].code = c, ![p].made = TRUE],
               \/ stage = "replying" /\ c = "accepted"
               \/ stage = "unhandled" /\ c = "internal_error"
        PROVE  \E new : slot' = [slot EXCEPT ![p] = new] /\ Quiet(new)
    <3>. DEFINE new == [slot[p] EXCEPT !.pc = stage, !.code = c, !.made = TRUE]
    <3>1. slot' = [slot EXCEPT ![p] = new]
      BY <2>2
    <3>2. new.pc = stage /\ new.code = c
      BY <1>2 DEF RequestState
    <3>. QED
      BY <2>2, <3>1, <3>2 DEF Quiet, CodeFits
  <2>. QED
    BY <1>5, <2>1, <2>2 DEF Submit
<1>6. CASE LookUp(p) \/ CancelJob(p)
  BY <1>2, <1>6, BecomesQuiet DEF LookUp, CancelJob, Reply, Raise
<1>. QED
  BY <1>3, <1>4, <1>5, <1>6 DEF Enter, Endpoint

\* All the steps that count nothing.
LEMMA UncountedKeeps ==
    ASSUME RequestsInv, CountsInv, NEW p \in Slots,
           Arrive(p) \/ Metrics(p) \/ Refuse(p) \/ Limit(p) \/ Enter(p) \/ ReadFile(p)
    PROVE  CountsInv'
<1>1. UNCHANGED counters
  BY DEF Arrive, Metrics, Refuse, Limit, Enter, ReadFile
<1>2. slot[p] = Idle \/ slot[p].pc \in {"entered", "reading"}
  BY DEF Arrive, Metrics, Refuse, Limit, Enter, ReadFile, AtTheGate
<1>3. \E new : slot' = [slot EXCEPT ![p] = new] /\ Quiet(new)
  <2>. USE CodesAre DEF Fine
  <2>1. CASE Arrive(p)
    <3>1. PICK r \in Requests : slot' = [slot EXCEPT ![p] = Request(r)]
      BY <2>1 DEF Arrive
    <3>2. Quiet(Request(r))
      BY DEF Quiet, CodeFits, Request
    <3>. QED
      BY <3>1, <3>2
  <2>2. CASE Metrics(p) \/ Refuse(p) \/ Limit(p)
    <3>1. slot[p].pc = "entered"
      BY <2>2 DEF Metrics, Refuse, Limit, AtTheGate
    <3>2. slot[p] # Idle /\ SlotsOK
      BY <3>1, EnteredFacts DEF RequestsInv
    <3>. QED
      BY <2>2, <3>2, BecomesQuiet DEF Metrics, Refuse, Limit, Reply, Raise
  <2>3. CASE Enter(p)
    BY <2>3, EnterQuiet
  <2>4. CASE ReadFile(p)
    BY <2>4, ReadFileQuiet
  <2>. QED
    BY <2>1, <2>2, <2>3, <2>4
<1>. QED
  BY <1>1, <1>2, <1>3, QuietKeeps
-------------------------------------------------------------------------------
\* An error's response is under way, and counted as an error.
LEMMA HandleCounts ==
    ASSUME RequestsInv, CountsInv, NEW p \in Slots, Handle(p)
    PROVE  CountsInv'
<1>. DEFINE e == slot[p].code
            new == [slot[p] EXCEPT !.pc = "replying"]
<1>1. slot[p].pc = "raised" /\ slot[p] # Idle
  BY DEF Handle, Idle
<1>2. slot[p] \in RequestState /\ SlotsOK
  BY <1>1 DEF RequestsInv, SlotsOK
<1>3. e \in Codes \ Fine
  BY <1>1, <1>2 DEF CountsInv, CodeFits, RequestState
<1>4. slot' = [slot EXCEPT ![p] = new]
  BY DEF Handle
<1>0. Puts(slot', slot, p, new)
  BY <1>2, <1>4 DEF SlotsOK, Puts
<1>5. new.pc = "replying" /\ new.code = e /\ new # Idle
  BY <1>2 DEF RequestState, Idle
<1>6. UNCHANGED <<requestsTotal, answered>> /\ errorsTotal' = [errorsTotal EXCEPT ![e] = @ + 1]
  BY DEF Handle
<1>. HIDE DEF e, new
<1>7. CountersTyped'
  BY <1>3, <1>6 DEF CountsInv, CountersTyped
<1>8. \A q \in Slots : slot'[q] # Idle => CodeFits(slot'[q])
  BY <1>0, <1>5 DEF CountsInv, CodeFits, Puts
<1>9. \A c : HowMany(slot', "rescued", c) = HowMany(slot, "rescued", c)
  <2>1. \A c : Here(new, "rescued", c) = 0 /\ Here(slot[p], "rescued", c) = 0
    BY <1>1, <1>5 DEF Here
  <2>. QED
    BY <1>0, <2>1, Stays
<1>10. ASSUME NEW c \in Codes
       PROVE  HowMany(slot', "replying", c) = HowMany(slot, "replying", c) + (IF c = e THEN 1 ELSE 0) - 0
  <2>1. Here(new, "replying", c) = (IF c = e THEN 1 ELSE 0) /\ Here(slot[p], "replying", c) = 0
    BY <1>1, <1>5 DEF Here
  <2>. QED
    BY <1>0, <2>1, MovesBy
<1>11. Counted' = Counted
  BY <1>6, <1>9, CountedIs
<1>12. ASSUME NEW c \in Codes \ Fine
       PROVE  errorsTotal'[c] = answered'[c] + HowMany(slot', "replying", c)
  <2>1. errorsTotal[c] = answered[c] + HowMany(slot, "replying", c)
    BY BalanceIs DEF CountsInv
  <2>2. errorsTotal[c] \in Nat /\ answered[c] \in Nat
    BY DEF CountsInv, CountersTyped
  <2>3. HowMany(slot, "replying", c) \in Nat
    BY HowManyTyped
  <2>4. errorsTotal'[c] = errorsTotal[c] + (IF c = e THEN 1 ELSE 0) /\ answered'[c] = answered[c]
    BY <1>3, <1>6, <2>2 DEF CountsInv, CountersTyped
  <2>. QED
    BY <1>10, <2>1, <2>2, <2>3, <2>4
<1>13. \A c \in Fine : errorsTotal'[c] = 0
  <2>1. \A c \in Fine : errorsTotal[c] = 0
    BY BalanceIs DEF CountsInv
  <2>. QED
    BY <1>3, <1>6, <2>1 DEF CountsInv, CountersTyped
<1>14. CountersBalance'
  BY <1>6, <1>11, <1>12, <1>13, BalanceIs, BalanceWillBe DEF CountsInv
<1>. QED
  BY <1>7, <1>8, <1>14 DEF CountsInv, CodeFits

\* A response is counted as it leaves.
LEMMA CountCounts ==
    ASSUME RequestsInv, CountsInv, NEW p \in Slots, Count(p)
    PROVE  CountsInv'
<1>. DEFINE e == slot[p].code
<1>1. slot[p].pc = "replying" /\ slot[p] # Idle
  BY DEF Count, Idle
<1>2. slot[p] \in RequestState /\ SlotsOK
  BY <1>1 DEF RequestsInv, SlotsOK
<1>3. e \in Codes /\ StatusOf[e] \in Statuses
  BY <1>2 DEF RequestState, Statuses
<1>4. slot' = [slot EXCEPT ![p] = Idle]
  BY DEF Count, Sent
<1>0. Puts(slot', slot, p, Idle)
  BY <1>2, <1>4 DEF SlotsOK, Puts
<1>5. /\ requestsTotal' = [requestsTotal EXCEPT ![StatusOf[e]] = @ + 1]
      /\ answered' = [answered EXCEPT ![e] = @ + 1]
      /\ UNCHANGED errorsTotal
  BY DEF Count, Sent
<1>. HIDE DEF e
<1>6. CountersTyped'
  BY <1>3, <1>5 DEF CountsInv, CountersTyped
<1>7. \A q \in Slots : slot'[q] # Idle => CodeFits(slot'[q])
  BY <1>0 DEF CountsInv, CodeFits, Puts
<1>8. \A c : HowMany(slot', "rescued", c) = HowMany(slot, "rescued", c)
  <2>1. \A c : Here(Idle, "rescued", c) = 0 /\ Here(slot[p], "rescued", c) = 0
    BY <1>1 DEF Here
  <2>. QED
    BY <1>0, <2>1, Stays
<1>9. ASSUME NEW c \in Codes
      PROVE  HowMany(slot', "replying", c) = HowMany(slot, "replying", c) + 0 - (IF c = e THEN 1 ELSE 0)
  <2>1. Here(Idle, "replying", c) = 0 /\ Here(slot[p], "replying", c) = (IF c = e THEN 1 ELSE 0)
    BY <1>1 DEF Here, e
  <2>. QED
    BY <1>0, <2>1, MovesBy
<1>10. \A c \in Codes : answered[c] \in Nat /\ answered'[c] = answered[c] + (IF c = e THEN 1 ELSE 0)
  BY <1>3, <1>5 DEF CountsInv, CountersTyped
<1>11. \A c \in Codes : Counted'[c] = Counted[c] + (IF c = e THEN 1 ELSE 0)
  <2>. SUFFICES ASSUME NEW c \in Codes PROVE Counted'[c] = Counted[c] + (IF c = e THEN 1 ELSE 0)
    OBVIOUS
  <2>1. /\ Counted[c] = answered[c] + HowMany(slot, "rescued", c)
        /\ Counted'[c] = answered'[c] + HowMany(slot, "rescued", c)
    BY <1>8, CountedIs
  <2>2. HowMany(slot, "rescued", c) \in Nat
    BY HowManyTyped
  <2>. QED
    BY <1>10, <2>1, <2>2
<1>12. \A s \in Statuses : requestsTotal'[s] = requestsTotal[s] + (IF s = StatusOf[e] THEN 1 ELSE 0)
  BY <1>3, <1>5 DEF CountsInv, CountersTyped
<1>13. \A s \in Statuses : requestsTotal'[s] = SumFunctionOnSet(Counted', CodesOf(s))
  BY <1>3, <1>6, <1>11, <1>12, TotalMoves DEF CountsInv
<1>14. ASSUME NEW c \in Codes \ Fine
       PROVE  errorsTotal'[c] = answered'[c] + HowMany(slot', "replying", c)
  <2>1. errorsTotal'[c] = answered[c] + HowMany(slot, "replying", c)
    BY <1>5, BalanceIs DEF CountsInv
  <2>2. HowMany(slot, "replying", c) \in Nat
    BY HowManyTyped
  <2>. QED
    BY <1>9, <1>10, <2>1, <2>2
<1>15. CountersBalance'
  BY <1>5, <1>13, <1>14, BalanceIs, BalanceWillBe DEF CountsInv
<1>. QED
  BY <1>6, <1>7, <1>15 DEF CountsInv, CodeFits

\* An exception is counted on its way out, as the failure it will be.
LEMMA CountExceptionCounts ==
    ASSUME RequestsInv, CountsInv, NEW p \in Slots, CountException(p)
    PROVE  CountsInv'
<1>. DEFINE new == [slot[p] EXCEPT !.pc = "rescued"]
            e == "internal_error"
<1>1. slot[p].pc = "unhandled" /\ slot[p] # Idle
  BY DEF CountException, Idle
<1>2. slot[p] \in RequestState /\ SlotsOK
  BY <1>1 DEF RequestsInv, SlotsOK
<1>3. slot[p].code = e /\ e \in Codes /\ StatusOf[e] = 500 /\ 500 \in Statuses
  <2>1. slot[p].code = e /\ e \in Codes
    BY <1>1, CodesAre DEF CountsInv, CodeFits
  <2>2. StatusOf[e] = 500
    BY DEF StatusOf
  <2>. QED
    BY <2>1, <2>2 DEF Statuses
<1>4. slot' = [slot EXCEPT ![p] = new]
  BY DEF CountException
<1>0. Puts(slot', slot, p, new)
  BY <1>2, <1>4 DEF SlotsOK, Puts
<1>5. new.pc = "rescued" /\ new.code = e /\ new # Idle
  BY <1>2, <1>3 DEF RequestState, Idle
<1>6. UNCHANGED <<errorsTotal, answered>> /\ requestsTotal' = [requestsTotal EXCEPT ![500] = @ + 1]
  BY DEF CountException
<1>. HIDE DEF new, e
<1>7. CountersTyped'
  BY <1>3, <1>6 DEF CountsInv, CountersTyped
<1>8. \A q \in Slots : slot'[q] # Idle => CodeFits(slot'[q])
  BY <1>0, <1>5 DEF CountsInv, CodeFits, Puts, e
<1>9. \A c : HowMany(slot', "replying", c) = HowMany(slot, "replying", c)
  <2>1. \A c : Here(new, "replying", c) = 0 /\ Here(slot[p], "replying", c) = 0
    BY <1>1, <1>5 DEF Here
  <2>. QED
    BY <1>0, <2>1, Stays
<1>10. ASSUME NEW c \in Codes PROVE Counted'[c] = Counted[c] + (IF c = e THEN 1 ELSE 0)
  <2>1. Here(new, "rescued", c) = (IF c = e THEN 1 ELSE 0) /\ Here(slot[p], "rescued", c) = 0
    BY <1>1, <1>5 DEF Here
  <2>2. HowMany(slot', "rescued", c) = HowMany(slot, "rescued", c) + (IF c = e THEN 1 ELSE 0) - 0
    BY <1>0, <2>1, MovesBy
  <2>3. HowMany(slot, "rescued", c) \in Nat
    BY HowManyTyped
  <2>4. /\ Counted[c] = answered[c] + HowMany(slot, "rescued", c)
        /\ Counted'[c] = answered[c] + HowMany(slot', "rescued", c)
    BY <1>6, CountedIs
  <2>5. answered[c] \in Nat
    BY DEF CountsInv, CountersTyped
  <2>. QED
    BY <2>2, <2>3, <2>4, <2>5
<1>11. \A s \in Statuses : requestsTotal'[s] = requestsTotal[s] + (IF s = StatusOf[e] THEN 1 ELSE 0)
  BY <1>3, <1>6 DEF CountsInv, CountersTyped
<1>12. \A s \in Statuses : requestsTotal'[s] = SumFunctionOnSet(Counted', CodesOf(s))
  BY <1>3, <1>7, <1>10, <1>11, TotalMoves DEF CountsInv
<1>13. CountersBalance'
  BY <1>6, <1>9, <1>12, BalanceIs, BalanceWillBe DEF CountsInv
<1>. QED
  BY <1>7, <1>8, <1>13 DEF CountsInv, CodeFits

\* The response made for it outside of the middleware is counted as an error,
\* and as a request no second time.
LEMMA RescueCounts ==
    ASSUME RequestsInv, CountsInv, NEW p \in Slots, Rescue(p)
    PROVE  CountsInv'
<1>. DEFINE e == "internal_error"
<1>1. slot[p].pc = "rescued" /\ slot[p] # Idle
  BY DEF Rescue, Idle
<1>2. slot[p] \in RequestState /\ SlotsOK
  BY <1>1 DEF RequestsInv, SlotsOK
<1>3. slot[p].code = e /\ e \in Codes \ Fine
  BY <1>1, CodesAre DEF CountsInv, CodeFits, Fine
<1>4. slot' = [slot EXCEPT ![p] = Idle]
  BY DEF Rescue, Sent
<1>0. Puts(slot', slot, p, Idle)
  BY <1>2, <1>4 DEF SlotsOK, Puts
<1>5. /\ UNCHANGED requestsTotal
      /\ answered' = [answered EXCEPT ![e] = @ + 1]
      /\ errorsTotal' = [errorsTotal EXCEPT ![e] = @ + 1]
  BY <1>3 DEF Rescue, Sent
<1>. HIDE DEF e
<1>6. CountersTyped'
  BY <1>3, <1>5 DEF CountsInv, CountersTyped
<1>7. \A q \in Slots : slot'[q] # Idle => CodeFits(slot'[q])
  BY <1>0 DEF CountsInv, CodeFits, Puts
<1>8. \A c : HowMany(slot', "replying", c) = HowMany(slot, "replying", c)
  <2>1. \A c : Here(Idle, "replying", c) = 0 /\ Here(slot[p], "replying", c) = 0
    BY <1>1 DEF Here
  <2>. QED
    BY <1>0, <2>1, Stays
<1>9. \A c \in Codes : /\ answered[c] \in Nat /\ errorsTotal[c] \in Nat
                       /\ answered'[c] = answered[c] + (IF c = e THEN 1 ELSE 0)
                       /\ errorsTotal'[c] = errorsTotal[c] + (IF c = e THEN 1 ELSE 0)
  BY <1>3, <1>5 DEF CountsInv, CountersTyped
<1>10. ASSUME NEW c \in Codes PROVE answered'[c] + HowMany(slot', "rescued", c) = answered[c] + HowMany(slot, "rescued", c)
  <2>1. Here(Idle, "rescued", c) = 0 /\ Here(slot[p], "rescued", c) = (IF c = e THEN 1 ELSE 0)
    BY <1>1, <1>3 DEF Here
  <2>2. HowMany(slot', "rescued", c) = HowMany(slot, "rescued", c) + 0 - (IF c = e THEN 1 ELSE 0)
    BY <1>0, <2>1, MovesBy
  <2>3. HowMany(slot, "rescued", c) \in Nat
    BY HowManyTyped
  <2>. QED
    BY <1>9, <2>2, <2>3
<1>11. Counted' = Counted
  BY <1>10, CountedIs
<1>12. ASSUME NEW c \in Codes \ Fine
       PROVE  errorsTotal'[c] = answered'[c] + HowMany(slot', "replying", c)
  <2>1. errorsTotal[c] = answered[c] + HowMany(slot, "replying", c)
    BY BalanceIs DEF CountsInv
  <2>2. HowMany(slot, "replying", c) \in Nat
    BY HowManyTyped
  <2>3. HowMany(slot', "replying", c) = HowMany(slot, "replying", c)
    BY <1>8
  <2>. QED
    BY <1>9, <2>1, <2>2, <2>3
<1>13. \A c \in Fine : errorsTotal'[c] = 0
  <2>1. \A c \in Fine : errorsTotal[c] = 0
    BY BalanceIs DEF CountsInv
  <2>. QED
    BY <1>3, <1>5, <2>1 DEF CountsInv, CountersTyped
<1>14. CountersBalance'
  BY <1>5, <1>11, <1>12, <1>13, BalanceIs, BalanceWillBe DEF CountsInv
<1>. QED
  BY <1>6, <1>7, <1>14 DEF CountsInv, CodeFits
-------------------------------------------------------------------------------
\* A process that has just started has counted nothing and has nothing to count.
LEMMA FreshCounts ==
    ASSUME NEW slots, NEW total, NEW errors, NEW answers,
           slots = [p \in Slots |-> Idle], total = [s \in Statuses |-> 0],
           errors = [c \in Codes |-> 0], answers = [c \in Codes |-> 0]
    PROVE  /\ \A stage, c : HowMany(slots, stage, c) = 0
           /\ \A s \in Statuses :
                total[s] = SumFunctionOnSet([c \in Codes |-> answers[c] + HowMany(slots, "rescued", c)], CodesOf(s))
<1>1. ASSUME NEW stage, NEW c PROVE HowMany(slots, stage, c) = 0
  <2>1. {p \in Slots : slots[p] # Idle /\ slots[p].pc = stage /\ slots[p].code = c} = {}
    OBVIOUS
  <2>. QED
    BY <2>1, FS_EmptySet DEF HowMany
<1>2. ASSUME NEW s \in Statuses
      PROVE  total[s] = SumFunctionOnSet([c \in Codes |-> answers[c] + HowMany(slots, "rescued", c)], CodesOf(s))
  <2>. DEFINE F == [c \in Codes |-> answers[c] + HowMany(slots, "rescued", c)]
  <2>1. \A c \in CodesOf(s) : F[c] = 0
    BY <1>1 DEF CodesOf
  <2>. HIDE DEF F
  <2>2. SumFunctionOnSet(F, CodesOf(s)) = 0
    BY <2>1, CodesOfIsFinite, SumOfNothing
  <2>. QED
    BY <2>2 DEF F
<1>. QED
  BY <1>1, <1>2

LEMMA FreshTyped ==
    ASSUME NEW total, NEW errors, NEW answers,
           total = [s \in Statuses |-> 0], errors = [c \in Codes |-> 0], answers = [c \in Codes |-> 0]
    PROVE  total \in [Statuses -> Nat] /\ errors \in [Codes -> Nat] /\ answers \in [Codes -> Nat]
OBVIOUS

LEMMA CountsInit ==
    Init => CountsInv
<1>. SUFFICES ASSUME Init PROVE CountsInv
  OBVIOUS
<1>1. /\ slot = [p \in Slots |-> Idle] /\ requestsTotal = [s \in Statuses |-> 0]
      /\ errorsTotal = [c \in Codes |-> 0] /\ answered = [c \in Codes |-> 0]
  BY DEF Init, Fresh
<1>2. CountersTyped
  BY <1>1 DEF CountersTyped
<1>3. \A p \in Slots : slot[p] = Idle
  BY <1>1
<1>4. /\ \A stage, c : HowMany(slot, stage, c) = 0
      /\ \A s \in Statuses : requestsTotal[s] = SumFunctionOnSet(Counted, CodesOf(s))
  BY <1>1, FreshCounts, CountedIs
<1>5. Fine \subseteq Codes
  BY CodesAre DEF Fine
<1>6. CountersBalance
  BY <1>1, <1>4, <1>5, BalanceIs
<1>. QED
  BY <1>2, <1>3, <1>6 DEF CountsInv

LEMMA DownCounts ==
    ASSUME Down
    PROVE  CountsInv'
<1>1. /\ slot' = [p \in Slots |-> Idle] /\ requestsTotal' = [s \in Statuses |-> 0]
      /\ errorsTotal' = [c \in Codes |-> 0] /\ answered' = [c \in Codes |-> 0]
  BY DEF Down, Fresh
<1>2. CountersTyped'
  BY <1>1 DEF CountersTyped
<1>3. \A p \in Slots : slot'[p] = Idle
  BY <1>1
<1>4. /\ \A stage, c : HowMany(slot', stage, c) = 0
      /\ \A s \in Statuses : requestsTotal'[s] = SumFunctionOnSet(Counted', CodesOf(s))
  BY <1>1, FreshCounts, CountedIs
<1>5. Fine \subseteq Codes
  BY CodesAre DEF Fine
<1>6. CountersBalance'
  BY <1>1, <1>4, <1>5, BalanceWillBe
<1>. QED
  BY <1>2, <1>3, <1>6 DEF CountsInv

LEMMA SameCounts ==
    ASSUME CountsInv, UNCHANGED <<slot, counters>>
    PROVE  CountsInv'
<1>1. UNCHANGED <<slot, requestsTotal, errorsTotal, answered>>
  BY DEF counters
<1>2. CountersBalance'
  BY <1>1 DEF CountsInv, CountersBalance, Counted, At
<1>. QED
  BY <1>1, <1>2 DEF CountsInv, CountersTyped, CodeFits

LEMMA CountsNext ==
    RequestsInv /\ CountsInv /\ [Next]_vars => CountsInv'
<1>. SUFFICES ASSUME RequestsInv, CountsInv, [Next]_vars PROVE CountsInv'
  OBVIOUS
<1>1. CASE UNCHANGED vars
  BY <1>1, SameCounts DEF vars
<1>2. CASE Start \/ DbFails \/ DbRecovers \/ Tick
  BY <1>2, SameCounts DEF Start, DbFails, DbRecovers, Tick
<1>3. CASE Down
  BY <1>3, DownCounts
<1>4. ASSUME NEW n \in DOMAIN jobs, JobEnds(n) PROVE CountsInv'
  BY <1>4, SameCounts DEF JobEnds
<1>5. ASSUME NEW k \in DbKeys, CreateKey(k) \/ Deactivate(k) PROVE CountsInv'
  BY <1>5, SameCounts DEF CreateKey, Deactivate
<1>6. ASSUME NEW p \in Slots, Arrive(p) \/ Serve(p) PROVE CountsInv'
  BY <1>6, UncountedKeeps, HandleCounts, CountCounts, CountExceptionCounts, RescueCounts DEF Serve
<1>7. ASSUME NEW s \in Sockets, NEW k \in Keys, Connect(s, k) PROVE CountsInv'
  BY <1>7, SameCounts DEF Connect
<1>8. ASSUME NEW s \in Sockets, NEW f \in Frames, Message(s, f) PROVE CountsInv'
  BY <1>8, SameCounts DEF Message
<1>9. ASSUME NEW s \in Sockets, Disconnect(s) PROVE CountsInv'
  BY <1>9, SameCounts DEF Disconnect
<1>. QED
  BY <1>1, <1>2, <1>3, <1>4, <1>5, <1>6, <1>7, <1>8, <1>9 DEF Next

\* /metrics tells the truth (CountersBalance of Service).
THEOREM MetricsTellTheTruth == Spec => []CountersBalance
<1>1. Init => RequestsInv /\ CountsInv
  BY RequestsInit, CountsInit
<1>2. RequestsInv /\ CountsInv /\ [Next]_vars => RequestsInv' /\ CountsInv'
  BY RequestsNext, CountsNext
<1>3. CountsInv => CountersBalance
  BY DEF CountsInv
<1>. QED
  BY <1>1, <1>2, <1>3, PTL DEF Spec
-------------------------------------------------------------------------------
\* What belongs to no request: the jobs, the sockets and the database.
WorldTyped ==
    /\ jobs \in Seq({"active", "ended"})
    /\ open \subseteq Sockets
    /\ db \in {"absent", "open", "failing"}

\* A request may add a job, and touches nothing else of these.
LEMMA SlotStepAddsJobs ==
    ASSUME WorldTyped, NEW p \in Slots, Arrive(p) \/ Serve(p)
    PROVE  WorldTyped'
<1>. USE DEF keyVars
<1>1. UNCHANGED <<open, db>>
  BY DEF Arrive, Serve, Metrics, Refuse, Limit, Enter, ReadFile, Handle, Count, CountException, Rescue
<1>2. UNCHANGED jobs \/ jobs' = Append(jobs, "active")
  <2>1. CASE Enter(p)
    BY <2>1, Zenon DEF Enter, Endpoint, Accept, Submit, LookUp, CancelJob
  <2>2. CASE ~Enter(p)
    BY <2>2 DEF Arrive, Serve, Metrics, Refuse, Limit, ReadFile, Handle, Count, CountException, Rescue
  <2>. QED
    BY <2>1, <2>2
<1>3. jobs \in Seq({"active", "ended"}) => Append(jobs, "active") \in Seq({"active", "ended"})
  BY AppendProperties
<1>. QED
  BY <1>1, <1>2, <1>3 DEF WorldTyped

\* A job that ends is a job.
LEMMA EndedIsJob ==
    ASSUME WorldTyped, NEW n \in DOMAIN jobs, JobEnds(n)
    PROVE  WorldTyped'
<1>1. jobs \in Seq({"active", "ended"}) /\ DOMAIN jobs = 1..Len(jobs) /\ Len(jobs) \in Nat
  BY LenProperties DEF WorldTyped
<1>2. jobs' = [jobs EXCEPT ![n] = "ended"] /\ UNCHANGED <<open, db>>
  BY DEF JobEnds, keyVars
<1>3. jobs \in [1..Len(jobs) -> {"active", "ended"}]
  BY <1>1, ElementOfSeq, SeqDef
<1>4. jobs' \in [1..Len(jobs) -> {"active", "ended"}]
  BY <1>1, <1>2, <1>3
<1>5. jobs' \in Seq({"active", "ended"})
  BY <1>1, <1>4, SeqDef
<1>. QED
  BY <1>2, <1>5 DEF WorldTyped

LEMMA WorldNext == WorldTyped /\ [Next]_vars => WorldTyped'
<1>. SUFFICES ASSUME WorldTyped, [Next]_vars PROVE WorldTyped'
  OBVIOUS
<1>. USE DEF keyVars
<1>1. CASE Tick \/ UNCHANGED vars
  BY <1>1 DEF WorldTyped, Tick, vars
<1>2. CASE Start \/ DbFails \/ DbRecovers
  BY <1>2 DEF WorldTyped, Start, DbFails, DbRecovers
<1>3. CASE Down
  <2>1. jobs' = << >> /\ open' = {} /\ UNCHANGED db
    BY <1>3 DEF Down, Fresh
  <2>2. << >> \in Seq({"active", "ended"})
    BY EmptySeq
  <2>. QED
    BY <2>1, <2>2 DEF WorldTyped
<1>4. ASSUME NEW n \in DOMAIN jobs, JobEnds(n) PROVE WorldTyped'
  BY <1>4, EndedIsJob
<1>5. ASSUME NEW k \in DbKeys, CreateKey(k) \/ Deactivate(k) PROVE WorldTyped'
  BY <1>5 DEF WorldTyped, CreateKey, Deactivate
<1>6. ASSUME NEW p \in Slots, Arrive(p) \/ Serve(p) PROVE WorldTyped'
  BY <1>6, SlotStepAddsJobs
<1>7. ASSUME NEW s \in Sockets, NEW k \in Keys, Connect(s, k) PROVE WorldTyped'
  BY <1>7 DEF WorldTyped, Connect
<1>8. ASSUME NEW s \in Sockets, NEW f \in Frames, Message(s, f) PROVE WorldTyped'
  BY <1>8 DEF WorldTyped, Message
<1>9. ASSUME NEW s \in Sockets, Disconnect(s) PROVE WorldTyped'
  BY <1>9 DEF WorldTyped, Disconnect
<1>. QED
  BY <1>1, <1>2, <1>3, <1>4, <1>5, <1>6, <1>7, <1>8, <1>9 DEF Next

\* The types of the service hold: what the invariants of requests, of the gate
\* and of the counters say of types, and the rest.
THEOREM TypesHold == Spec => []TypeOK
<1>1. Init => RequestsInv /\ GateInv /\ CountsInv /\ WorldTyped
  <2>. SUFFICES ASSUME Init PROVE WorldTyped
    BY RequestsInit, GateInit, CountsInit
  <2>1. << >> \in Seq({"active", "ended"})
    BY EmptySeq
  <2>. QED
    BY <2>1 DEF Init, Fresh, WorldTyped
<1>2. RequestsInv /\ GateInv /\ CountsInv /\ WorldTyped /\ [Next]_vars
        => RequestsInv' /\ GateInv' /\ CountsInv' /\ WorldTyped'
  BY RequestsNext, GateNext, CountsNext, WorldNext
<1>3. RequestsInv /\ GateInv /\ CountsInv /\ WorldTyped => TypeOK
  <2>. SUFFICES ASSUME RequestsInv, GateInv, CountsInv, WorldTyped PROVE TypeOK
    OBVIOUS
  <2>1. settings \in Settings \cup {None}
    BY DEF GateInv, StartedRight
  <2>2. revoked \subseteq issued /\ active \subseteq issued /\ issued \subseteq DbKeys
    BY DEF GateInv, RowsAreKeys
  <2>3. tokens \in [Identities -> 0..Rate] /\ drawn \in [Keys \cup Hosts -> Nat]
    BY DEF GateInv, BucketsMissWhatIsDrawn
  <2>4. slot \in [Slots -> {Idle} \cup RequestState]
    BY DEF RequestsInv, SlotsOK
  <2>. QED
    BY <2>1, <2>2, <2>3, <2>4 DEF TypeOK, CountsInv, CountersTyped, WorldTyped
<1>. QED
  BY <1>1, <1>2, <1>3, PTL DEF Spec
===============================================================================
