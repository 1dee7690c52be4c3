---------------------------- MODULE WebStreamProofs ----------------------------
(***************************************************************************)
(* Theorems about WebStream for any number of clicks on Start.             *)
(***************************************************************************)
EXTENDS WebStream, SequenceTheorems, TLAPS

Reply == {"result", "error"}

\* Two numbers that add up to one at most.
LEMMA AtMostOne ==
    ASSUME NEW a \in Nat, NEW b \in Nat, a + b <= 1
    PROVE  b # 0 => a = 0 /\ b = 1
OBVIOUS

\* One call of streamLoop keeps the types of what it writes.
LEMMA LoopTyped ==
    ASSUME TypeOK, NEW n \in Starts, NEW open, StreamLoop(n, open)
    PROVE  /\ sendBusy' \in BOOLEAN
           /\ frames' \in [Starts -> Nat]
           /\ loops' \subseteq Starts /\ rafId' \in 0..MaxStarts
<1>1. n \in 0..MaxStarts
  BY StartsAssumption DEF Starts
<1>2. ws # 0 => ws \in Starts
  BY StartsAssumption DEF TypeOK, Starts
<1>3. frames' \in [Starts -> Nat]
  <2>1. CASE frames' = frames
    BY <2>1 DEF TypeOK
  <2>2. CASE frames' # frames
    <3>1. ws \in Starts /\ frames' = [frames EXCEPT ![ws] = @ + 1]
      BY <1>2, <2>2 DEF StreamLoop
    <3>. QED
      BY <3>1 DEF TypeOK
  <2>. QED
    BY <2>1, <2>2
<1>4. sendBusy' \in BOOLEAN
  BY DEF TypeOK, StreamLoop
<1>. QED
  BY <1>1, <1>3, <1>4 DEF TypeOK, StreamLoop

\* Every step keeps the types.
LEMMA TypedNext ==
    ASSUME TypeOK, [Next]_vars
    PROVE  TypeOK'
<1>. USE StartsAssumption DEF TypeOK, pageVars, deviceVars, serverVars
<1>starts. \A n \in Starts : n \in 0..MaxStarts
  BY DEF Starts
<1>1. ASSUME NEW n \in Starts, ClickStart(n) PROVE TypeOK'
  BY <1>1 DEF ClickStart
<1>2. ASSUME NEW n \in Starts, StartFails(n) PROVE TypeOK'
  BY <1>2 DEF StartFails, GiveUp
<1>3. ASSUME NEW n \in Starts, GotMedia(n) PROVE TypeOK'
  BY <1>3, <1>starts DEF GotMedia
<1>4. ASSUME NEW n \in Starts, OpenSocket(n) PROVE TypeOK'
  BY <1>4, <1>starts DEF OpenSocket
<1>5. ASSUME NEW n \in Starts, Opened(n) PROVE TypeOK'
  <2>1. StreamLoop(n, ready')
    BY <1>5 DEF Opened
  <2>2. /\ sendBusy' \in BOOLEAN
        /\ frames' \in [Starts -> Nat]
        /\ loops' \subseteq Starts /\ rafId' \in 0..MaxStarts
    BY <2>1, LoopTyped
  <2>. QED
    BY <1>5, <2>2 DEF Opened
<1>6. ASSUME NEW n \in Starts, ConnectFails(n) PROVE TypeOK'
  BY <1>6 DEF ConnectFails, GiveUp
<1>7. ASSUME NEW n \in Starts, Frame(n) PROVE TypeOK'
  <2>1. CASE streaming
    <3>1. /\ sendBusy' \in BOOLEAN
          /\ frames' \in [Starts -> Nat]
          /\ loops' \subseteq Starts /\ rafId' \in 0..MaxStarts
      BY <1>7, <2>1, LoopTyped DEF Frame
    <3>. QED
      BY <1>7, <3>1 DEF Frame
  <2>2. CASE ~streaming
    BY <1>7, <2>2 DEF Frame
  <2>. QED
    BY <2>1, <2>2
<1>8. ASSUME NEW n \in Starts, OnMessage(n) PROVE TypeOK'
  <2>1. Tail(replies[n]) \in Seq(Reply)
    BY <1>8 DEF OnMessage, Reply
  <2>. QED
    BY <1>8, <2>1 DEF OnMessage, Reply
<1>9. ASSUME NEW n \in Starts, OnClose(n) PROVE TypeOK'
  <2>1. replies' \in [Starts -> Seq(Reply)]
    BY <1>9 DEF OnClose, Reply
  <2>2. frames' \in [Starts -> Nat]
    BY <1>9 DEF OnClose
  <2>3. lost' \in BOOLEAN
    BY <1>9 DEF OnClose, InFlight
  <2>. QED
    BY <1>9, <2>1, <2>2, <2>3 DEF OnClose, Reply
<1>10. CASE StopWebcam
  <2>1. lost' \in BOOLEAN
    BY <1>10 DEF StopWebcam, CloseAll, InFlight
  <2>2. ready' \in [Starts -> {"none", "connecting", "open", "closing", "closed"}]
    BY <1>10 DEF StopWebcam, CloseAll
  <2>3. stream' \in 0..MaxStarts /\ ws' \in 0..MaxStarts
    BY <1>10 DEF StopWebcam, CloseAll
  <2>4. camera' \subseteq Starts /\ loops' \subseteq Starts
    BY <1>10 DEF StopWebcam, CloseAll
  <2>5. {streaming', sendBusy', online', startOff', stopOff', lost', careless'} \subseteq BOOLEAN
    BY <1>10, <2>1 DEF StopWebcam
  <2>6. UNCHANGED <<start, rafId, handler, frames, replies>>
    BY <1>10 DEF StopWebcam
  <2>. QED
    BY <2>2, <2>3, <2>4, <2>5, <2>6
<1>11. ASSUME NEW n \in Starts, Answer(n) PROVE TypeOK'
  <2>1. frames[n] - 1 \in Nat
    BY <1>11 DEF Answer
  <2>2. PICK reply \in Reply : replies' = [replies EXCEPT ![n] = Append(@, reply)]
    BY <1>11 DEF Answer, Reply
  <2>3. replies' \in [Starts -> Seq(Reply)]
    BY <2>2 DEF Reply
  <2>. QED
    BY <1>11, <2>1, <2>3 DEF Answer, Reply
<1>12. ASSUME NEW n \in Starts, Break(n) PROVE TypeOK'
  <2>1. lost' \in BOOLEAN
    BY <1>12 DEF Break, InFlight
  <2>. QED
    BY <1>12, <2>1 DEF Break
<1>13. ASSUME NEW n \in Starts, Disconnected(n) PROVE TypeOK'
  BY <1>13 DEF Disconnected
<1>14. CASE UNCHANGED vars
  BY <1>14 DEF vars
<1>. QED
  BY <1>1, <1>2, <1>3, <1>4, <1>5, <1>6, <1>7, <1>8, <1>9, <1>10, <1>11, <1>12, <1>13, <1>14
     DEF Next, Connecting, Closing

\* Type correctness of the page, its sockets and the handlers.
THEOREM TypeCorrect == Spec => []TypeOK
<1>1. Init => TypeOK
  <2>. SUFFICES ASSUME Init PROVE TypeOK
    OBVIOUS
  <2>1. stream \in 0..MaxStarts /\ ws \in 0..MaxStarts /\ rafId \in 0..MaxStarts
    BY StartsAssumption DEF Init
  <2>2. replies \in [Starts -> Seq({"result", "error"})]
    BY DEF Init
  <2>3. start \in [Starts -> {"none", "media", "play", "connect", "done", "failed"}]
    BY DEF Init
  <2>4. ready \in [Starts -> {"none", "connecting", "open", "closing", "closed"}]
    BY DEF Init
  <2>5. handler \in [Starts -> {"none", "serving", "gone"}] /\ frames \in [Starts -> Nat]
    BY DEF Init
  <2>6. {streaming, sendBusy, online, startOff, stopOff, lost, careless} \subseteq BOOLEAN
    BY DEF Init
  <2>7. camera \subseteq Starts /\ loops \subseteq Starts
    BY DEF Init
  <2>. QED
    BY <2>1, <2>2, <2>3, <2>4, <2>5, <2>6, <2>7 DEF TypeOK
<1>2. TypeOK /\ [Next]_vars => TypeOK'
  BY TypedNext
<1>. QED
  BY <1>1, <1>2, PTL DEF Spec
-------------------------------------------------------------------------------
\* One call of streamLoop sends at most the one frame that may be out.
LEMMA LoopSendsOne ==
    ASSUME TypeOK, OneFrameOut, NEW n \in Starts, NEW open, StreamLoop(n, open),
           UNCHANGED replies
    PROVE  OneFrameOut'
<1>types. /\ frames \in [Starts -> Nat]
          /\ replies \in [Starts -> Seq(Reply)]
          /\ ws # 0 => ws \in Starts
  BY StartsAssumption DEF TypeOK, Starts, Reply
<1>1. CASE UNCHANGED <<sendBusy, frames>>
  BY <1>1 DEF OneFrameOut, InFlight
<1>2. CASE ~UNCHANGED <<sendBusy, frames>>
  <2>1. ~sendBusy /\ sendBusy' /\ ws \in Starts /\ frames' = [frames EXCEPT ![ws] = @ + 1]
    BY <1>2, <1>types DEF StreamLoop
  <2>2. \A m \in Starts : ~InFlight(m)
    BY <2>1 DEF OneFrameOut
  <2>3. \A m \in Starts : frames[m] = 0 /\ replies[m] = <<>> /\ Len(replies[m]) = 0
    BY <2>2, <1>types DEF InFlight
  <2>4. \A m \in Starts : replies'[m] = <<>> /\ frames'[m] = IF m = ws THEN 1 ELSE 0
    BY <2>1, <2>3, <1>types
  <2>5. \A m \in Starts : InFlight(m)' => m = ws
    BY <2>4 DEF InFlight
  <2>6. \A m \in Starts : frames'[m] + Len(replies'[m]) <= 1
    BY <2>4
  <2>. QED
    BY <2>1, <2>5, <2>6 DEF OneFrameOut
<1>. QED
  BY <1>1, <1>2

\* A step that takes frames and replies away, and leaves sendBusy alone,
\* keeps the rest in order.
LEMMA FewerIsFine ==
    ASSUME TypeOK, OneFrameOut, UNCHANGED sendBusy,
           frames' \in [Starts -> Nat], replies' \in [Starts -> Seq(Reply)],
           \A n \in Starts : /\ frames'[n] = frames[n] \/ frames'[n] = 0
                             /\ replies'[n] = replies[n] \/ replies'[n] = <<>>
    PROVE  OneFrameOut'
<1>1. \A n \in Starts : frames[n] \in Nat /\ Len(replies[n]) \in Nat
  BY DEF TypeOK
<1>2. \A n \in Starts : InFlight(n)' => InFlight(n)
  BY DEF InFlight
<1>3. \A n \in Starts : frames'[n] + Len(replies'[n]) <= 1
  BY <1>1 DEF OneFrameOut
<1>. QED
  BY <1>2, <1>3 DEF OneFrameOut

\* One step keeps one frame out at most.
LEMMA OneFrameNext ==
    ASSUME TypeOK, OneFrameOut, [Next]_vars
    PROVE  OneFrameOut'
<1>. USE DEF pageVars, deviceVars, serverVars
<1>types. /\ frames \in [Starts -> Nat]
          /\ replies \in [Starts -> Seq(Reply)]
  BY DEF TypeOK, Reply
<1>num. \A m \in Starts : /\ frames[m] \in Nat /\ Len(replies[m]) \in Nat
                           /\ frames[m] + Len(replies[m]) <= 1
  BY <1>types DEF OneFrameOut
<1>typed. /\ frames' \in [Starts -> Nat]
          /\ replies' \in [Starts -> Seq(Reply)]
  BY TypedNext DEF TypeOK, Reply
<1>same. ASSUME UNCHANGED <<sendBusy, frames, replies>> PROVE OneFrameOut'
  BY <1>same DEF OneFrameOut, InFlight
<1>1. ASSUME NEW n \in Starts, ClickStart(n) \/ StartFails(n) \/ GotMedia(n) \/ OpenSocket(n)
                                \/ ConnectFails(n)
      PROVE  OneFrameOut'
  BY <1>1, <1>same DEF ClickStart, StartFails, GotMedia, OpenSocket, ConnectFails
<1>2. ASSUME NEW n \in Starts, Opened(n) PROVE OneFrameOut'
  BY <1>2, LoopSendsOne DEF Opened
<1>3. ASSUME NEW n \in Starts, Frame(n) PROVE OneFrameOut'
  <2>1. CASE streaming
    BY <1>3, <2>1, LoopSendsOne DEF Frame
  <2>2. CASE ~streaming
    BY <1>3, <2>2, <1>same DEF Frame
  <2>. QED
    BY <2>1, <2>2
<1>4. ASSUME NEW n \in Starts, OnMessage(n) PROVE OneFrameOut'
  <2>0. replies[n] \in Seq(Reply) /\ replies[n] # <<>>
    BY <1>4, <1>types DEF OnMessage
  <2>1. InFlight(n) /\ replies[n] # <<>>
    BY <2>0 DEF InFlight
  <2>len. Len(replies[n]) \in Nat \ {0}
    BY <2>0, EmptySeq
  <2>2. frames[n] = 0 /\ Len(replies[n]) = 1
    <3>1. /\ frames[n] \in Nat /\ Len(replies[n]) \in Nat /\ Len(replies[n]) # 0
          /\ frames[n] + Len(replies[n]) <= 1
      BY <2>len, <1>num
    <3>. QED
      BY <3>1, AtMostOne
  <2>3. Tail(replies[n]) = <<>>
    <3>1. replies[n] \in Seq(Reply) /\ replies[n] # <<>>
      BY <2>1, <1>types
    <3>2. Tail(replies[n]) \in Seq(Reply) /\ Len(Tail(replies[n])) = 0
      BY <3>1, <2>2, HeadTailProperties
    <3>. QED
      BY <3>2, EmptySeq
  <2>4. \A m \in Starts : m # n => ~InFlight(m)
    BY <2>1 DEF OneFrameOut
  <2>5. \A m \in Starts : frames'[m] = 0 /\ replies'[m] = <<>>
    BY <1>4, <1>types, <2>2, <2>3, <2>4 DEF OnMessage, InFlight
  <2>. QED
    BY <2>5 DEF OneFrameOut, InFlight
<1>5. ASSUME NEW n \in Starts, OnClose(n) \/ Break(n) \/ Disconnected(n) PROVE OneFrameOut'
  <2>1. UNCHANGED sendBusy
    BY <1>5 DEF OnClose, Break, Disconnected
  <2>2. \A m \in Starts : /\ frames'[m] = frames[m] \/ frames'[m] = 0
                          /\ replies'[m] = replies[m] \/ replies'[m] = <<>>
    BY <1>5, <1>types DEF OnClose, Break, Disconnected
  <2>. QED
    BY <1>typed, <2>1, <2>2, FewerIsFine
<1>6. CASE StopWebcam
  BY <1>6, <1>same DEF StopWebcam
<1>7. ASSUME NEW n \in Starts, Answer(n) PROVE OneFrameOut'
  <2>1. InFlight(n) /\ frames[n] > 0
    BY <1>7 DEF Answer, InFlight
  <2>2. frames[n] = 1 /\ Len(replies[n]) = 0 /\ sendBusy
    BY <2>1, <1>num DEF OneFrameOut
  <2>3. PICK reply \in Reply : replies' = [replies EXCEPT ![n] = Append(@, reply)]
    BY <1>7 DEF Answer, Reply
  <2>4. frames'[n] = 0 /\ Len(replies'[n]) = 1
    BY <1>7, <1>types, <2>2, <2>3 DEF Answer
  <2>5. \A m \in Starts : m # n => ~InFlight(m) /\ frames'[m] = frames[m] /\ replies'[m] = replies[m]
    BY <1>7, <1>types, <2>1, <2>3 DEF OneFrameOut, Answer
  <2>6. sendBusy'
    BY <1>7, <2>2 DEF Answer
  <2>7. \A m \in Starts : m # n => ~InFlight(m)'
    BY <2>5 DEF InFlight
  <2>8. \A m \in Starts : frames'[m] + Len(replies'[m]) <= 1
    <3>. SUFFICES ASSUME NEW m \in Starts PROVE frames'[m] + Len(replies'[m]) <= 1
      OBVIOUS
    <3>1. CASE m = n
      BY <3>1, <2>4
    <3>2. CASE m # n
      <4>1. frames'[m] = frames[m] /\ replies'[m] = replies[m]
        BY <3>2, <2>5
      <4>. QED
        BY <4>1, <1>num
    <3>. QED
      BY <3>1, <3>2
  <2>. QED
    BY <2>6, <2>7, <2>8 DEF OneFrameOut
<1>8. CASE UNCHANGED vars
  BY <1>8, <1>same DEF vars
<1>. QED
  BY <1>1, <1>2, <1>3, <1>4, <1>5, <1>6, <1>7, <1>8 DEF Next, Connecting, Closing

\* The service never has two frames of one page at a time, through however
\* many sockets, and sendBusy is up as long as one is out.
THEOREM OneFrame == Spec => []OneFrameOut
<1>1. Init => OneFrameOut
  BY DEF Init, OneFrameOut, InFlight
<1>2. TypeOK /\ OneFrameOut /\ [Next]_vars => OneFrameOut'
  BY OneFrameNext
<1>. QED
  BY <1>1, <1>2, TypeCorrect, PTL DEF Spec
-------------------------------------------------------------------------------
\* In careful use one start is under way at most, and only while Stop is off.
\* Until it is connected no camera runs but its own and those of failed starts.
Tidy ==
    /\ \A n \in camera : n = stream \/ start[n] = "failed"
    /\ \A n \in Starts : ready[n] = "open" => n = ws
    /\ online => ws # 0 /\ ready[ws] = "open"

OneStart ==
    /\ startOff <=> ~stopOff
    /\ \A m, n \in Starts : Pending(m) /\ Pending(n) => m = n
    /\ \A n \in Starts : Pending(n) => ~startOff
    /\ \A n \in Starts : ready[n] = "connecting" => n = ws /\ start[n] = "connect"

NothingBehind ==
    ~startOff => /\ ~online /\ \A n \in Starts : ready[n] # "open"
                 /\ \A n \in camera : start[n] \in {"play", "connect", "failed"}

Careful == Tidy /\ OneStart /\ NothingBehind

CarefulInv == ~careless => Careful

\* A step that only closes sockets, or touches none of this, is careful.
LEMMA CarefulClosing ==
    ASSUME TypeOK, Careful, UNCHANGED <<start, camera, stream, ws, startOff, stopOff>>,
           \A n \in Starts : ready'[n] = ready[n] \/ ready'[n] = "closed",
           ~online' \/ (online' = online /\ ready' = ready)
    PROVE  Careful'
<1>1. Tidy'
  BY DEF Careful, Tidy
<1>2. OneStart'
  BY DEF Careful, OneStart, Pending
<1>3. NothingBehind'
  BY DEF Careful, NothingBehind, Pending
<1>. QED
  BY <1>1, <1>2, <1>3 DEF Careful

LEMMA CarefulNext ==
    ASSUME TypeOK, CarefulInv, [Next]_vars
    PROVE  CarefulInv'
<1>. USE DEF pageVars, deviceVars, serverVars
<1>0. \A n \in Starts : n # 0
  BY DEF Starts
<1>. SUFFICES ASSUME ~careless' PROVE Careful'
  BY DEF CarefulInv
<1>1. ~careless
  BY DEF Next, vars, ClickStart, StartFails, GiveUp, GotMedia, OpenSocket, Connecting, Opened, ConnectFails,
         Frame, OnMessage, Answer, Break, Closing, OnClose, Disconnected, StopWebcam
<1>2. Careful
  BY <1>1 DEF CarefulInv
<1>3. ASSUME NEW n \in Starts, ClickStart(n) PROVE Careful'
  <2>1. \A m \in Starts : ~Pending(m)
    BY <1>3 DEF ClickStart
  <2>2. ~startOff /\ start' = [start EXCEPT ![n] = "media"]
        /\ UNCHANGED <<camera, stream, ws, ready, online, startOff, stopOff>>
    BY <1>3 DEF ClickStart
  <2>3. \A m \in Starts : m # n => start'[m] = start[m] /\ ~Pending(m)'
    BY <2>1, <2>2 DEF TypeOK, Pending
  <2>4. \A m \in Starts : ready[m] # "connecting"
    BY <1>2, <2>1 DEF Careful, OneStart, Pending
  <2>5. \A m \in camera : m # n
    BY <1>2, <1>3, <2>2 DEF Careful, NothingBehind, ClickStart
  <2>6. Tidy'
    BY <1>2, <2>2, <2>3, <2>5 DEF Careful, Tidy, TypeOK
  <2>7. OneStart'
    BY <1>2, <2>2, <2>3, <2>4 DEF Careful, OneStart
  <2>8. NothingBehind'
    BY <1>2, <2>2, <2>3, <2>5 DEF Careful, NothingBehind, TypeOK
  <2>. QED
    BY <2>6, <2>7, <2>8 DEF Careful
<1>4. ASSUME NEW n \in Starts, StartFails(n) \/ ConnectFails(n) PROVE Careful'
  <2>1. /\ Pending(n) /\ start' = [start EXCEPT ![n] = "failed"]
        /\ UNCHANGED <<camera, stream, ws, startOff, stopOff>>
    BY <1>4 DEF StartFails, ConnectFails, GiveUp, Pending
  <2>2. /\ \A m \in Starts : ready'[m] # ready[m] => m = n /\ ready'[m] = "closed"
        /\ ~online' \/ UNCHANGED <<online, ready>>
    BY <1>4 DEF StartFails, ConnectFails, TypeOK
  <2>3. ready[n] = "connecting" => ready'[n] = "closed"
    BY <1>2, <1>4 DEF Careful, OneStart, StartFails, ConnectFails, TypeOK
  <2>4. start'[n] = "failed" /\ \A m \in Starts : m # n => start'[m] = start[m]
    BY <2>1 DEF TypeOK
  <2>5. ~Pending(n)' /\ \A m \in Starts : Pending(m)' => Pending(m)
    BY <2>4 DEF Pending
  <2>6. Tidy'
    BY <1>2, <2>1, <2>2, <2>4 DEF Careful, Tidy, TypeOK
  <2>7. OneStart'
    BY <1>2, <2>1, <2>2, <2>3, <2>4, <2>5 DEF Careful, OneStart
  <2>8. NothingBehind'
    BY <1>2, <2>1, <2>2, <2>4 DEF Careful, NothingBehind, TypeOK
  <2>. QED
    BY <2>6, <2>7, <2>8 DEF Careful
<1>5. ASSUME NEW n \in Starts, GotMedia(n) PROVE Careful'
  <2>1. start[n] = "media" /\ Pending(n) /\ start' = [start EXCEPT ![n] = "play"]
        /\ stream' = n /\ camera' = camera \cup {n}
        /\ UNCHANGED <<ws, ready, online, startOff, stopOff>>
    BY <1>5 DEF GotMedia, Pending
  <2>2. ~startOff
    BY <1>2, <2>1 DEF Careful, OneStart
  <2>3. \A m \in Starts : Pending(m)' <=> Pending(m)
    BY <2>1 DEF TypeOK, Pending
  <2>4. start'[n] = "play" /\ \A m \in Starts : m # n => start'[m] = start[m]
    BY <2>1 DEF TypeOK
  <2>5. \A m \in camera : start[m] = "failed" /\ m # n
    BY <1>2, <2>1, <2>2 DEF Careful, OneStart, NothingBehind, Pending, TypeOK
  <2>6. Tidy'
    BY <1>2, <2>1, <2>4, <2>5 DEF Careful, Tidy, TypeOK
  <2>7. OneStart'
    BY <1>2, <2>1, <2>3, <2>4 DEF Careful, OneStart
  <2>8. NothingBehind'
    BY <1>2, <2>1, <2>2, <2>4, <2>5 DEF Careful, NothingBehind, TypeOK
  <2>. QED
    BY <2>6, <2>7, <2>8 DEF Careful
<1>6. ASSUME NEW n \in Starts, OpenSocket(n) PROVE Careful'
  <2>1. Pending(n) /\ start[n] = "play" /\ start' = [start EXCEPT ![n] = "connect"]
        /\ ws' = n /\ ready' = [ready EXCEPT ![n] = "connecting"]
        /\ UNCHANGED <<camera, stream, online, startOff, stopOff>>
    BY <1>6 DEF OpenSocket, Pending
  <2>2. ~startOff /\ ~online /\ \A m \in Starts : ready[m] # "open"
    BY <1>2, <2>1 DEF Careful, NothingBehind, OneStart
  <2>3. \A m \in Starts : Pending(m)' <=> Pending(m)
    BY <2>1 DEF TypeOK, Pending
  <2>4. \A m \in Starts : ready'[m] = "connecting" => m = n
    BY <1>2, <2>1 DEF Careful, OneStart, TypeOK, Pending
  <2>5. start'[n] = "connect" /\ \A m \in Starts : m # n => start'[m] = start[m]
    BY <2>1 DEF TypeOK
  <2>6. \A m \in Starts : ready'[m] # "open"
    BY <2>1, <2>2 DEF TypeOK
  <2>7. Tidy'
    BY <1>2, <2>1, <2>2, <2>5, <2>6 DEF Careful, Tidy, TypeOK
  <2>8. OneStart'
    BY <1>2, <2>1, <2>3, <2>4, <2>5 DEF Careful, OneStart
  <2>9. NothingBehind'
    BY <1>2, <2>1, <2>2, <2>5, <2>6 DEF Careful, NothingBehind, TypeOK
  <2>. QED
    BY <2>7, <2>8, <2>9 DEF Careful
<1>7. ASSUME NEW n \in Starts, Opened(n) PROVE Careful'
  <2>1. ready[n] = "connecting" /\ ready' = [ready EXCEPT ![n] = "open"]
        /\ start' = [start EXCEPT ![n] = "done"]
        /\ online' /\ startOff' /\ ~stopOff' /\ UNCHANGED <<camera, stream, ws>>
    BY <1>7 DEF Opened
  <2>2. n = ws /\ Pending(n) /\ ~startOff
    BY <1>2, <2>1 DEF Careful, OneStart, Pending
  <2>start. start[n] = "connect" /\ \A m \in Starts : m # n => start'[m] = start[m]
    BY <1>2, <2>1 DEF Careful, OneStart, TypeOK
  <2>3. \A m \in Starts : ready[m] # "open"
    BY <1>2, <2>2 DEF Careful, NothingBehind
  <2>4. \A m \in Starts : ~Pending(m)'
    BY <1>2, <2>1, <2>2 DEF Careful, OneStart, TypeOK, Pending
  <2>5. \A m \in Starts : ready'[m] # "connecting"
    BY <1>2, <2>1, <2>2 DEF Careful, OneStart, TypeOK
  <2>6. ready'[n] = "open" /\ \A m \in Starts : ready'[m] = "open" => m = n
    BY <2>1, <2>3 DEF TypeOK
  <2>7. Tidy'
    BY <1>0, <1>2, <2>1, <2>start, <2>2, <2>6 DEF Careful, Tidy, TypeOK
  <2>8. OneStart'
    BY <2>1, <2>4, <2>5 DEF OneStart
  <2>9. NothingBehind'
    BY <2>1 DEF NothingBehind
  <2>. QED
    BY <2>7, <2>8, <2>9 DEF Careful
<1>8. ASSUME NEW n \in Starts,
             Frame(n) \/ OnMessage(n) \/ Answer(n) \/ Break(n) \/ OnClose(n) \/ Disconnected(n)
      PROVE  Careful'
  <2>1. UNCHANGED <<start, camera, stream, ws, startOff, stopOff>>
    BY <1>8 DEF Frame, OnMessage, Answer, Break, OnClose, Disconnected
  <2>2. (online' = online /\ ready' = ready) \/ (~online' /\ ready' = [ready EXCEPT ![n] = "closed"])
    BY <1>8 DEF Frame, OnMessage, Answer, Break, OnClose, Disconnected
  <2>3. \A m \in Starts : ready'[m] = ready[m] \/ ready'[m] = "closed"
    BY <2>2 DEF TypeOK
  <2>. QED
    BY <1>2, <2>1, <2>2, <2>3, CarefulClosing
<1>9. CASE StopWebcam
  <2>1. /\ ~stopOff /\ ~online' /\ ~startOff' /\ stopOff' /\ start' = start
        /\ camera' = camera \ {stream}
        /\ ready' = [n \in Starts |-> IF n = ws /\ ready[n] \in {"connecting", "open"}
                                      THEN "closing" ELSE ready[n]]
    BY <1>9 DEF StopWebcam, CloseAll
  <2>2. \A n \in Starts : ~Pending(n)
    BY <1>2, <2>1 DEF Careful, OneStart
  <2>3. \A n \in camera' : start'[n] = "failed"
    BY <1>2, <2>1 DEF Careful, Tidy
  <2>4. \A n \in Starts : ready'[n] # "open" /\ ready'[n] # "connecting"
    BY <1>2, <2>1, <2>2 DEF Careful, Tidy, OneStart, Pending
  <2>5. \A n \in Starts : ~Pending(n)'
    BY <2>1, <2>2 DEF Pending
  <2>6. Tidy'
    BY <2>1, <2>3, <2>4 DEF Tidy
  <2>7. OneStart'
    BY <2>1, <2>4, <2>5 DEF OneStart
  <2>8. NothingBehind'
    BY <2>1, <2>3, <2>4 DEF NothingBehind
  <2>. QED
    BY <2>6, <2>7, <2>8 DEF Careful
<1>10. CASE UNCHANGED vars
  <2>1. UNCHANGED <<start, camera, stream, ws, startOff, stopOff, ready, online>>
    BY <1>10 DEF vars
  <2>. QED
    BY <1>2, <2>1, CarefulClosing
<1>. QED
  BY <1>3, <1>4, <1>5, <1>6, <1>7, <1>8, <1>9, <1>10 DEF Next, Connecting, Closing

\* As long as no start is clicked during another, the page leaves no camera
\* running and no socket open that its Stop button, enabled, would not close, but
\* for the cameras of starts that failed (NothingLeaks of WebStream).
THEOREM CarefulUseIsTidy == Spec => []NothingLeaks
<1>1. Init => CarefulInv
  BY DEF Init, CarefulInv, Careful, Tidy, OneStart, NothingBehind, Pending
<1>2. TypeOK /\ CarefulInv /\ [Next]_vars => CarefulInv'
  BY CarefulNext
<1>3. CarefulInv => NothingLeaks
  BY DEF CarefulInv, Careful, Tidy, OneStart, NothingBehind, NothingLeaks
<1>. QED
  BY <1>1, <1>2, <1>3, TypeCorrect, PTL DEF Spec
===============================================================================
