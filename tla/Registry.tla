------------------------------- MODULE Registry -------------------------------
(***************************************************************************)
(* Which backend serves which task (src/visionforge/models/registry.py):   *)
(* resolve, its defaults and aliases, and what GET /models says about it.  *)
(* A ValueError is NoBackend.                                              *)
(***************************************************************************)
CONSTANTS
    DefaultDetector,    \* VF_DEFAULT_DETECTOR, any name: nothing validates it at startup
    None                \* Python's None

YoloTasks == {"detection", "segmentation", "pose", "tracking"}
HfTasks == {"detection", "classification"}
OnnxTasks == {"detection"}
CenterNetTasks == {"detection"}
ValidTasks == YoloTasks \cup HfTasks
ValidBackends == {"centernet", "centernet-onnx", "yolo", "baseline", "hf", "onnx"}

ASSUME RegistryAssumption == None \notin ValidTasks \cup ValidBackends \cup {DefaultDetector, ""}

NoBackend == "ValueError"

DefaultBackend(task) ==
    CASE task = "classification" -> "hf"
      [] task = "detection" -> DefaultDetector
      [] OTHER -> "yolo"

Alias(backend) == IF backend = "baseline" THEN "yolo" ELSE backend

Supports(backend) ==
    CASE backend = "yolo" -> YoloTasks
      [] backend = "hf" -> HfTasks
      [] backend = "onnx" -> OnnxTasks
      [] backend \in {"centernet", "centernet-onnx"} -> CenterNetTasks
      [] OTHER -> {}

\* Python's "backend or default": an empty name is no name.
Resolve(task, backend) ==
    LET named == IF backend \in {None, ""} THEN DefaultBackend(task) ELSE backend
    IN IF task \in Supports(Alias(named)) THEN Alias(named) ELSE NoBackend

\* The entries of available(), without the flag that calls centernet the default.
Available ==
    {<<"detection", b>> : b \in {"centernet", "centernet-onnx", "baseline", "hf", "onnx"}}
        \cup {<<t, "yolo">> : t \in YoloTasks}
        \cup {<<"classification", "hf">>}

\* The class _build makes for a resolved backend.
Build(task, backend) ==
    CASE backend = "centernet" -> "CenterNetBackend"
      [] backend = "centernet-onnx" -> "CenterNetOnnxBackend"
      [] backend = "yolo" -> "YoloBackend"
      [] backend = "onnx" -> "OnnxDetectionBackend"
      [] OTHER -> IF task = "classification" THEN "HFClassificationBackend" ELSE "HFDetectionBackend"
===============================================================================
