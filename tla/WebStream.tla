------------------------------- MODULE WebStream -------------------------------
(***************************************************************************)
(* One browser page (src/visionforge/api/web/app.js) that streams its      *)
(* webcam to the ws_stream handler (src/visionforge/api/server.py) and     *)
(* draws what comes back.                                                  *)
(*                                                                         *)
(* The page's script is one thread: an action is a callback, up to its     *)
(* next await.  A click on Start is the n'th call of startWebcam, and n    *)
(* also names its camera stream, its socket and its animation loop.  The   *)
(* handler is a coroutine per socket; inference blocks the event loop, so  *)
(* a frame is taken, inferred and answered in one step.                    *)
(***************************************************************************)
EXTENDS Naturals, Sequences

CONSTANT MaxStarts      \* bound: how often Start is clicked

ASSUME StartsAssumption == MaxStarts \in Nat

VARIABLES
    start,      \* how far each startWebcam has come
    camera,     \* the camera streams whose tracks run
    stream, ws, \* the script's globals: the n of the object, 0 for null
    ready,      \* readyState of each socket
    streaming,
    sendBusy,
    online,     \* what the connection label says
    startOff, stopOff,  \* btnWebcam.disabled, btnStop.disabled
    loops,      \* the animation callbacks requested and not yet run
    rafId,      \* the last one requested
    handler,    \* ws_stream of each socket
    frames,     \* frames on their way to it
    replies,    \* its messages on their way back
    lost,       \* history: has a socket gone down with a frame or its reply under way
    careless    \* history: has Start been clicked during a start

pageVars == <<streaming, sendBusy, online, startOff, stopOff, loops, rafId>>
deviceVars == <<camera, stream>>
serverVars == <<handler, frames, replies>>
vars == <<start, deviceVars, ws, ready, pageVars, serverVars, lost, careless>>

Starts == 1..MaxStarts

Init ==
    /\ start = [n \in Starts |-> "none"]
    /\ camera = {} /\ stream = 0 /\ ws = 0
    /\ ready = [n \in Starts |-> "none"]
    /\ streaming = FALSE /\ sendBusy = FALSE /\ online = FALSE
    /\ startOff = FALSE /\ stopOff = TRUE
    /\ loops = {} /\ rafId = 0
    /\ handler = [n \in Starts |-> "none"]
    /\ frames = [n \in Starts |-> 0]
    /\ replies = [n \in Starts |-> <<>>]
    /\ lost = FALSE /\ careless = FALSE
-------------------------------------------------------------------------------
InFlight(n) == frames[n] > 0 \/ replies[n] # <<>>

Pending(n) == start[n] \in {"media", "play", "connect"}

\* btnWebcam: startWebcam up to getUserMedia.
ClickStart(n) ==
    /\ ~startOff
    /\ start[n] = "none"
    /\ \A m \in 1..(n - 1) : start[m] # "none"
    /\ start' = [start EXCEPT ![n] = "media"]
    /\ careless' = (careless \/ \E m \in Starts : Pending(m))
    /\ UNCHANGED <<deviceVars, ws, ready, pageVars, serverVars, lost>>

\* getUserMedia, play or the socket fails: the alert.  Whatever has been
\* opened so far stays open, and the buttons are as they were.
GiveUp(n) == start' = [start EXCEPT ![n] = "failed"]

\* The user refuses the camera, or play() rejects.
StartFails(n) ==
    /\ start[n] \in {"media", "play"}
    /\ GiveUp(n)
    /\ UNCHANGED <<deviceVars, ws, ready, pageVars, serverVars, lost, careless>>

GotMedia(n) ==
    /\ start[n] = "media"
    /\ start' = [start EXCEPT ![n] = "play"]
    /\ stream' = n
    /\ camera' = camera \cup {n}
    /\ UNCHANGED <<ws, ready, pageVars, serverVars, lost, careless>>

\* play() resolves and openSocket makes the socket.
OpenSocket(n) ==
    /\ start[n] = "play"
    /\ start' = [start EXCEPT ![n] = "connect"]
    /\ ws' = n
    /\ ready' = [ready EXCEPT ![n] = "connecting"]
    /\ UNCHANGED <<deviceVars, pageVars, serverVars, lost, careless>>

\* streamLoop of the n'th start, on sockets in the states `open`: sends a
\* frame if none is out, and asks to be called again.
StreamLoop(n, open) ==
    /\ IF ws # 0 /\ open[ws] = "open" /\ ~sendBusy
       THEN sendBusy' = TRUE /\ frames' = [frames EXCEPT ![ws] = @ + 1]
       ELSE UNCHANGED <<sendBusy, frames>>
    /\ loops' = loops \cup {n}
    /\ rafId' = n

\* The handler accepts, onopen runs, and with it the rest of startWebcam.
Opened(n) ==
    /\ ready[n] = "connecting"
    /\ ready' = [ready EXCEPT ![n] = "open"]
    /\ handler' = [handler EXCEPT ![n] = "serving"]
    /\ start' = [start EXCEPT ![n] = "done"]
    /\ online' = TRUE /\ streaming' = TRUE
    /\ startOff' = TRUE /\ stopOff' = FALSE
    /\ StreamLoop(n, ready')
    /\ UNCHANGED <<deviceVars, ws, replies, lost, careless>>

\* The handler refuses the socket, nobody answers, or Stop closed it first:
\* onerror rejects, and onclose.
ConnectFails(n) ==
    /\ start[n] = "connect"
    /\ ready[n] \in {"connecting", "closing"}
    /\ ready' = [ready EXCEPT ![n] = "closed"]
    /\ GiveUp(n)
    /\ online' = FALSE
    /\ UNCHANGED <<deviceVars, ws, streaming, sendBusy, startOff, stopOff, loops, rafId,
                   serverVars, lost, careless>>

\* The animation callback: the loop ends when streaming does.
Frame(n) ==
    /\ n \in loops
    /\ IF streaming
       THEN StreamLoop(n, ready)
       ELSE loops' = loops \ {n} /\ UNCHANGED <<sendBusy, frames, rafId>>
    /\ UNCHANGED <<start, deviceVars, ws, ready, streaming, online, startOff, stopOff,
                   handler, replies, lost, careless>>

\* Mutant: only a result lets the next frame go.
OnMessageResultOnly(n) ==
    /\ ready[n] = "open"
    /\ replies[n] # <<>>
    /\ sendBusy' = (sendBusy /\ Head(replies[n]) # "result")
    /\ replies' = [replies EXCEPT ![n] = Tail(@)]
    /\ UNCHANGED <<start, deviceVars, ws, ready, streaming, online, startOff, stopOff,
                   loops, rafId, handler, frames, lost, careless>>

\* onmessage of an open socket, whether or not it is still `ws`.
OnMessage(n) ==
    /\ ready[n] = "open"
    /\ replies[n] # <<>>
    /\ sendBusy' = FALSE
    /\ replies' = [replies EXCEPT ![n] = Tail(@)]
    /\ UNCHANGED <<start, deviceVars, ws, ready, streaming, online, startOff, stopOff,
                   loops, rafId, handler, frames, lost, careless>>

\* onclose, when everything the handler sent has been delivered.  A frame
\* sent since the handler went is lost.
OnClose(n) ==
    /\ \/ ready[n] = "open" /\ handler[n] = "gone" /\ replies[n] = <<>>
       \/ ready[n] = "closing" /\ start[n] # "connect"
    /\ ready' = [ready EXCEPT ![n] = "closed"]
    /\ replies' = [replies EXCEPT ![n] = <<>>]
    /\ frames' = [frames EXCEPT ![n] = IF handler[n] = "gone" THEN 0 ELSE @]
    /\ lost' = (lost \/ InFlight(n))
    /\ online' = FALSE
    /\ UNCHANGED <<start, deviceVars, ws, streaming, sendBusy, startOff, stopOff, loops, rafId,
                   handler, careless>>

\* What stopWebcam does to the camera and the socket.
CloseAll ==
    /\ camera' = camera \ {stream}
    /\ stream' = 0
    /\ ws' = 0
    /\ ready' = [n \in Starts |-> IF n = ws /\ ready[n] \in {"connecting", "open"}
                                  THEN "closing" ELSE ready[n]]
    /\ lost' = (lost \/ (ws # 0 /\ InFlight(ws)))

\* Mutants: sendBusy is reset as well; the socket is forgotten, not closed.
StopWebcamResets ==
    /\ ~stopOff
    /\ streaming' = FALSE /\ online' = FALSE /\ sendBusy' = FALSE
    /\ startOff' = FALSE /\ stopOff' = TRUE
    /\ loops' = loops \ {rafId}
    /\ CloseAll
    /\ UNCHANGED <<start, rafId, serverVars, careless>>

StopWebcamForgets ==
    /\ ~stopOff
    /\ streaming' = FALSE /\ online' = FALSE
    /\ startOff' = FALSE /\ stopOff' = TRUE
    /\ loops' = loops \ {rafId}
    /\ camera' = camera \ {stream} /\ stream' = 0 /\ ws' = 0
    /\ UNCHANGED <<start, ready, sendBusy, rafId, serverVars, lost, careless>>

\* btnStop.  A message that comes after it finds a socket that is not open
\* any more.
StopWebcam ==
    /\ ~stopOff
    /\ streaming' = FALSE /\ online' = FALSE
    /\ startOff' = FALSE /\ stopOff' = TRUE
    /\ loops' = loops \ {rafId}
    /\ CloseAll
    /\ UNCHANGED <<start, sendBusy, rafId, serverVars, careless>>
-------------------------------------------------------------------------------
\* One turn of the handler's loop: the frame is bad, its inference raises, or
\* there is a result; in every case one message goes back.  (To a socket that
\* the page has closed it does not get through: Disconnected.)
Answer(n) ==
    /\ handler[n] = "serving"
    /\ ready[n] = "open"
    /\ frames[n] > 0
    /\ frames' = [frames EXCEPT ![n] = @ - 1]
    /\ \E reply \in {"result", "error"} : replies' = [replies EXCEPT ![n] = Append(@, reply)]
    /\ UNCHANGED <<start, deviceVars, ws, ready, pageVars, handler, lost, careless>>

\* Anything else raises and the handler closes the socket, or the
\* connection breaks: the frame under way is not answered.
Break(n) ==
    /\ handler[n] = "serving"
    /\ ready[n] = "open"
    /\ handler' = [handler EXCEPT ![n] = "gone"]
    /\ frames' = [frames EXCEPT ![n] = 0]
    /\ replies' = [replies EXCEPT ![n] = <<>>]
    /\ lost' = (lost \/ InFlight(n))
    /\ UNCHANGED <<start, deviceVars, ws, ready, pageVars, careless>>

\* WebSocketDisconnect: the page has closed the socket.
Disconnected(n) ==
    /\ handler[n] = "serving"
    /\ ready[n] \in {"closing", "closed"}
    /\ handler' = [handler EXCEPT ![n] = "gone"]
    /\ frames' = [frames EXCEPT ![n] = 0]
    /\ UNCHANGED <<start, deviceVars, ws, ready, pageVars, replies, lost, careless>>

Connecting(n) == Opened(n) \/ ConnectFails(n)
Closing(n) == OnClose(n) \/ Disconnected(n)

Next ==
    \/ \E n \in Starts :
        \/ ClickStart(n) \/ StartFails(n) \/ GotMedia(n) \/ OpenSocket(n)
        \/ Connecting(n) \/ Frame(n) \/ OnMessage(n) \/ Answer(n) \/ Break(n) \/ Closing(n)
    \/ StopWebcam

Spec == Init /\ [][Next]_vars

\* The page is visible, so its callbacks run; sockets open or fail, messages
\* arrive, and the handler's turns end.  Nobody has to click or to allow
\* anything, and connections need not break.
FairSpec ==
    /\ Spec
    /\ \A n \in Starts :
        /\ WF_vars(Connecting(n)) /\ WF_vars(Frame(n)) /\ WF_vars(OnMessage(n))
        /\ WF_vars(Answer(n)) /\ WF_vars(Closing(n))
-------------------------------------------------------------------------------
TypeOK ==
    /\ start \in [Starts -> {"none", "media", "play", "connect", "done", "failed"}]
    /\ camera \subseteq Starts
    /\ stream \in 0..MaxStarts /\ ws \in 0..MaxStarts
    /\ ready \in [Starts -> {"none", "connecting", "open", "closing", "closed"}]
    /\ {streaming, sendBusy, online, startOff, stopOff, lost, careless} \subseteq BOOLEAN
    /\ loops \subseteq Starts /\ rafId \in 0..MaxStarts
    /\ handler \in [Starts -> {"none", "serving", "gone"}]
    /\ frames \in [Starts -> Nat]
    /\ replies \in [Starts -> Seq({"result", "error"})]

\* The service never has two frames of one page, through whichever sockets:
\* sendBusy is up as long as a frame or its answer is under way anywhere.
OneFrameOut ==
    /\ \A n \in Starts :
        /\ InFlight(n) => sendBusy
        /\ frames[n] + Len(replies[n]) <= 1
    /\ \A m, n \in Starts : InFlight(m) /\ InFlight(n) => m = n

\* As long as nobody clicked Start during a start, whatever a finished start has
\* opened is what Stop will close, and Stop is enabled; the label says
\* "connected" only of an open socket.  Starts may fail at any await.  All that
\* may be left running behind the buttons is the camera of a start that failed
\* after it was granted.
NothingLeaks ==
    ~careless =>
        /\ \A n \in camera : n = stream \/ start[n] = "failed"
        /\ \A n \in Starts : ready[n] = "open" => n = ws
        /\ \A n \in Starts : start[n] = "done" /\ (n \in camera \/ ready[n] = "open") => ~stopOff
        /\ online => ws # 0 /\ ready[ws] = "open"

\* Is the page in a position to stream?
Live == streaming /\ ws # 0 /\ ready[ws] = "open"

\* A page that stays live keeps sending frames, whatever the answers are,
\* provided that no socket ever went down with a frame under way.  (After
\* that, sendBusy stays up for good, over any Stop and Start.)
StreamsUnlessLost ==
    <>[](Live /\ ~lost) => []<>sendBusy /\ []<>~sendBusy
===============================================================================
