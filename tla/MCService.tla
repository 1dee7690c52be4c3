------------------------------- MODULE MCService -------------------------------
\* Values for the constants of Service.
EXTENDS Service

MCSettings ==
    {[production |-> TRUE, requireAuth |-> TRUE, wildcard |-> FALSE, metrics |-> TRUE],
     [production |-> TRUE, requireAuth |-> FALSE, wildcard |-> FALSE, metrics |-> TRUE],
     [production |-> FALSE, requireAuth |-> FALSE, wildcard |-> TRUE, metrics |-> FALSE]}

Good == [bytes |-> 1, declared |-> "allowed", magic |-> TRUE, decodes |-> TRUE, side |-> 1]
Untyped == [Good EXCEPT !.declared = None]
Torn == [Good EXCEPT !.decodes = FALSE]
Big == [Good EXCEPT !.bytes = 2]
Wide == [Good EXCEPT !.side = 2]
Text == [Good EXCEPT !.declared = "other", !.magic = FALSE, !.decodes = FALSE]

Form(key, route, task, backend, files) ==
    [key |-> key, host |-> "h1", route |-> route, complete |-> TRUE, task |-> task,
     backend |-> backend, files |-> files, source |-> "demo", job |-> 1]

MCRequests ==
    {Form("k1", "infer", "pose", "hf", <<Untyped>>), Form("x1", "job", None, None, << >>),
     Form(None, "infer", None, "yolo", <<Big>>), Form("e1", "batch", "", None, <<Good, Untyped>>),
     Form("k1", "batch", "detection", "onnx", <<Good, Torn>>),
     Form(None, "batch", "detection", None, <<Good, Good, Good>>),
     Form("k1", "submit", "pose", None, << >>), Form("e1", "job", None, None, << >>),
     Form(None, "cancel", None, None, << >>), Form(None, "metrics", None, None, << >>),
     [Form("k1", "submit", "pose", None, << >>) EXCEPT !.source = "missing"],
     [Form("k1", "infer", None, None, <<Good>>) EXCEPT !.complete = FALSE]}

Frame(kind, task, base64, upload, index) ==
    [kind |-> kind, task |-> task, backend |-> None, base64 |-> base64, upload |-> upload, index |-> index]

MCFrames ==
    {Frame(k, None, TRUE, Untyped, "number") : k \in {"garbled", "list", "ping", "unknown", "frame"}}
        \cup {Frame("frame", "driving", TRUE, Untyped, "number"), Frame("frame", None, FALSE, Untyped, "number"),
              Frame("frame", None, TRUE, Wide, "number"), Frame("frame", None, TRUE, Untyped, "word")}

\* Bound: a stream shares nothing with a request but the keys, so streams are
\* explored while no request is in progress.
Apart == open = {} \/ \A p \in Slots : slot[p] = Idle
===============================================================================
