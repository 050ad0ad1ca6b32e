---------------------------- MODULE StreamProofs ----------------------------
(***************************************************************************)
(* More theorems about Channel: what a pane displays is never on its way   *)
(* back, and what a sidecar waits for comes back, because the port keeps a *)
(* sidecar's hello, rings and frames in order and a sidecar draws only in  *)
(* surfaces that are its own.                                              *)
(***************************************************************************)
EXTENDS ChannelProofs

\* No two sidecars draw the same pane.
OneSidecar == \A p \in Panes, s, r \in Sidecars : <<p, s>> \in Hosts /\ <<p, r>> \in Hosts => s = r

-----------------------------------------------------------------------------
(* The stream of messages *)

\* What the receive thread has yet to consume, the message in hand first.
AtWork == at[Receiver] \in {"lock", "held"}
Stream == (IF AtWork THEN <<taken>> ELSE <<>>) \o (IF open.registered THEN inbox ELSE <<>>)

LEMMA Sequences ==
  ASSUME NEW S, NEW m \in S, NEW q \in Seq(S)
  PROVE  /\ <<m>> \o q \in Seq(S) /\ <<>> \o q = q /\ q \o <<>> = q
         /\ <<m>> \o q # <<>> /\ (<<m>> \o q)[1] = m /\ Tail(<<m>> \o q) = q
         /\ \A e \in S : Append(<<m>> \o q, e) = <<m>> \o Append(q, e)
         /\ q # <<>> => <<Head(q)>> \o Tail(q) = q
  <1>1. /\ <<m>> \o q \in Seq(S) /\ <<>> \o q = q /\ q \o <<>> = q
        /\ <<m>> \o q # <<>> /\ (<<m>> \o q)[1] = m
    OBVIOUS
  <1>2. Tail(<<m>> \o q) = q
    OBVIOUS
  <1>3. \A e \in S : Append(<<m>> \o q, e) = <<m>> \o Append(q, e)
    OBVIOUS
  <1>4. q # <<>> => <<Head(q)>> \o Tail(q) = q
    OBVIOUS
  <1>. QED BY <1>1, <1>2, <1>3, <1>4

LEMMA Elements ==
  ASSUME NEW S, NEW q \in Seq(S)
  PROVE  /\ Len(q) \in Nat /\ DOMAIN q = 1 .. Len(q)
         /\ \A k \in DOMAIN q : q[k] \in S
         /\ \A e \in S : /\ Append(q, e) \in Seq(S) /\ Len(Append(q, e)) = Len(q) + 1
                         /\ Append(q, e)[Len(q) + 1] = e
                         /\ \A k \in 1 .. Len(q) : Append(q, e)[k] = q[k]
         /\ q # <<>> => /\ Tail(q) \in Seq(S) /\ Len(Tail(q)) = Len(q) - 1 /\ Len(q) > 0
                        /\ \A k \in 1 .. Len(q) - 1 : Tail(q)[k] = q[k + 1]
  OBVIOUS

LEMMA StreamTyped ==
  ASSUME Typing, Threading
  PROVE  Stream \in Seq(Messages) /\ (AtWork => taken \in Messages)
  <1>1. inbox \in Seq(Messages) /\ (AtWork => taken \in Messages)
    BY DEF Typing, SidecarsTyped, Threading, AtWork
  <1>2. <<>> \in Seq(Messages)
    OBVIOUS
  <1>3. CASE AtWork
    BY <1>1, <1>2, <1>3, Sequences DEF Stream
  <1>4. CASE ~AtWork
    <2>1. Stream = IF open.registered THEN inbox ELSE <<>>
      BY <1>1, <1>4 DEF Stream
    <2>. QED BY <1>1, <1>2, <1>4, <2>1
  <1>. QED BY <1>3, <1>4

\* A message that is sent is put at the end, if anyone will take it.
LEMMA StreamAppend ==
  ASSUME Typing, Threading, NEW m \in Messages, inbox' = Append(inbox, m), UNCHANGED <<at, taken, open>>
  PROVE  Stream' = IF open.registered THEN Append(Stream, m) ELSE Stream
  <1>1. inbox \in Seq(Messages) /\ (AtWork => taken \in Messages)
    BY StreamTyped DEF Typing, SidecarsTyped
  <1>2. Stream' = (IF AtWork THEN <<taken>> ELSE <<>>) \o (IF open.registered THEN Append(inbox, m) ELSE <<>>)
    BY DEF Stream, AtWork
  <1>3. CASE open.registered /\ AtWork
    BY <1>1, <1>2, <1>3, Sequences DEF Stream
  <1>4. CASE open.registered /\ ~AtWork
    <2>1. Append(inbox, m) \in Seq(Messages)
      BY <1>1
    <2>. QED BY <1>1, <1>2, <1>4, <2>1 DEF Stream
  <1>5. CASE ~open.registered
    BY <1>2, <1>5 DEF Stream
  <1>. QED BY <1>3, <1>4, <1>5

\* What is consumed is the first message.
LEMMA StreamTail ==
  ASSUME Typing, Threading, Consume
  PROVE  /\ Stream # <<>> /\ Stream[1] = taken /\ Stream' = Tail(Stream)
         /\ UNCHANGED <<open, inbox>> /\ at[Receiver] = "held" /\ taken \in Messages
  <1>1. /\ at[Receiver] = "held" /\ UNCHANGED <<open, inbox>>
        /\ at' = [at EXCEPT ![Receiver] = "idle"] \/ at' = [at EXCEPT ![Receiver] = "sends"]
    BY DEF Consume, ConsumeHello, ConsumeGap, ConsumeRing, ConsumeBrokenRing, RefuseRing, ConsumeFrame,
           RefuseFrame, ConsumeEnded, Consuming, Settle, Unlock, Beside, sidecarVars, channelVars
  <1>2. AtWork /\ ~AtWork' /\ taken \in Messages /\ inbox \in Seq(Messages)
    BY <1>1, ThreadsApart, StreamTyped DEF AtWork, Typing, ThreadsTyped, SidecarsTyped
  <1> DEFINE rest == IF open.registered THEN inbox ELSE <<>>
  <1>3. rest \in Seq(Messages)
    BY <1>2
  <1>4. Stream = <<taken>> \o rest /\ Stream' = <<>> \o rest
    BY <1>1, <1>2 DEF Stream
  <1> HIDE DEF rest
  <1>5. /\ <<taken>> \o rest # <<>> /\ (<<taken>> \o rest)[1] = taken
        /\ Tail(<<taken>> \o rest) = rest /\ <<>> \o rest = rest
    BY <1>2, <1>3, Sequences
  <1>. QED BY <1>1, <1>2, <1>4, <1>5

\* A message taken off the port is in hand, whoever looks.
LEMMA StreamReceived ==
  ASSUME Typing, Threading, Receive PROVE Stream' = Stream /\ UNCHANGED open
  <1>1. /\ at[Receiver] = "idle" /\ inbox # <<>> /\ inbox' = Tail(inbox) /\ UNCHANGED open
        /\ \/ /\ open.registered /\ taken' = Head(inbox)
              /\ at' = [at EXCEPT ![Receiver] = "lock"]
           \/ ~open.registered /\ UNCHANGED <<taken, at>>
    BY DEF Receive, channelVars
  <1>2. inbox \in Seq(Messages) /\ ~AtWork
    BY <1>1 DEF Typing, SidecarsTyped, AtWork
  <1>3. CASE ~open.registered
    BY <1>1, <1>2, <1>3 DEF Stream, AtWork
  <1>4. CASE open.registered
    <2>1. AtWork' /\ taken' = Head(inbox)
      BY <1>1, <1>4, ThreadsApart DEF AtWork, Typing, ThreadsTyped
    <2>2. Stream' = <<Head(inbox)>> \o Tail(inbox)
      BY <1>1, <1>4, <2>1 DEF Stream
    <2>3. Stream = <<>> \o inbox
      BY <1>2, <1>4 DEF Stream
    <2>4. Head(inbox) \in Messages /\ Tail(inbox) \in Seq(Messages)
      BY <1>1, <1>2
    <2>5. <<Head(inbox)>> \o Tail(inbox) = inbox /\ <<>> \o inbox = inbox
      BY <1>1, <1>2, <2>4, Sequences
    <2>. QED BY <1>1, <2>2, <2>3, <2>5
  <1>. QED BY <1>3, <1>4

-----------------------------------------------------------------------------
(* Panes and callers *)

\* A pane that was never bound has no ring, a sidecar draws only panes it may
\* come to draw, and a caller that closes has taken the channel off the registry.
Bound ==
  /\ \A p \in Panes : pane[p].sidecar = Nobody => pane[p].ring = 0
  /\ \A s \in Sidecars, p \in Panes : current[s][p] # 0 => <<p, s>> \in Hosts
  /\ \A t \in Callers :
       /\ at[t] # "idle" /\ job[t].op = "close" => ~open.registered
       /\ at[t] \in {"lock", "held"} /\ job[t].op = "bind" => job[t].sidecar \in Sidecars

\* A step that leaves the messages under way alone, unless it begins to close the
\* channel, when they are all lost but the one in hand.
Still ==
  /\ UNCHANGED <<rings, current, away, sends, returned>>
  /\ \/ Stream' = Stream /\ open'.registered = open.registered
     \/ /\ ~open'.registered
        /\ Len(Stream') <= Len(Stream) /\ \A k \in 1 .. Len(Stream') : Stream'[k] = Stream[k]
  /\ \A p \in Panes : \/ pane'[p].ring = pane[p].ring /\ pane'[p].displayed = pane[p].displayed
                      \/ pane'[p].ring = 0

\* A caller other than the one that moves is where it was.
LEMMA BoundCaller ==
  ASSUME Bound, Typing, NEW t \in Threads, NEW to, at' = [at EXCEPT ![t] = to],
         open'.registered => open.registered, UNCHANGED current,
         \A p \in Panes : pane'[p].sidecar = Nobody => pane'[p].ring = 0,
         \A c \in Callers : c # t => job'[c] = job[c],
         t \in Callers => \/ to = "idle"
                          \/ job'[t].op = "close" => job[t].op = "close" /\ at[t] # "idle"
                          \/ ~open'.registered,
         t \in Callers => \/ to \notin {"lock", "held"}
                          \/ job'[t] = job[t] /\ at[t] \in {"lock", "held"}
                          \/ job'[t].op = "bind" => job'[t].sidecar \in Sidecars
  PROVE  Bound'
  <1>1. \A u \in Threads : at'[u] = IF u = t THEN to ELSE at[u]
    BY DEF Typing, ThreadsTyped
  <1>2. \A c \in Callers :
          /\ at'[c] # "idle" /\ job'[c].op = "close" => ~open'.registered
          /\ at'[c] \in {"lock", "held"} /\ job'[c].op = "bind" => job'[c].sidecar \in Sidecars
    BY <1>1, ThreadsApart DEF Bound
  <1>. QED BY <1>2 DEF Bound

LEMMA BeginStill ==
  ASSUME Typing, Threading, Bound, NEW t \in Callers, BeginCall(t) PROVE Still /\ Bound'
  <1>1. /\ at[t] = "idle" /\ UNCHANGED <<pane, rings, current, away, sends, returned, inbox, taken>>
        /\ \A c \in Callers : c # t => job'[c] = job[c]
        /\ \A u \in Threads : u # t => at'[u] = at[u]
    BY BeginTyping
  <1>2. at' = [at EXCEPT ![t] = "lock"]
    BY DEF BeginCall, BeginBind, BeginBindView, BeginUnbindView, BeginSnapshot, BeginClose, Begin
  <1>3. UNCHANGED open \/ open' = [open EXCEPT !.registered = FALSE]
    BY DEF BeginCall, BeginBind, BeginBindView, BeginUnbindView, BeginSnapshot, BeginClose
  <1>4. job'[t].op = "close" => open' = [open EXCEPT !.registered = FALSE]
    <2>1. CASE BeginClose(t)
      BY <2>1 DEF BeginClose
    <2>2. CASE ~BeginClose(t)
      <3>1. \E op, p, s, v : op # "close" /\ Begin(t, op, p, s, v)
        BY <2>2 DEF BeginCall, BeginBind, BeginBindView, BeginUnbindView, BeginSnapshot
      <3>2. job'[t].op # "close"
        BY <3>1 DEF Begin, Typing, ThreadsTyped
      <3>. QED BY <3>2
    <2>. QED BY <2>1, <2>2
  <1>5. job'[t].op = "bind" => job'[t].sidecar \in Sidecars
    <2>1. CASE \E p \in Panes, s \in Sidecars : BeginBind(t, p, s)
      BY <2>1 DEF BeginBind, Begin, Typing, ThreadsTyped
    <2>2. CASE ~\E p \in Panes, s \in Sidecars : BeginBind(t, p, s)
      <3>1. \E op, p, s, v : op # "bind" /\ Begin(t, op, p, s, v)
        BY <2>2 DEF BeginCall, BeginBindView, BeginUnbindView, BeginSnapshot, BeginClose
      <3>2. job'[t].op # "bind"
        BY <3>1 DEF Begin, Typing, ThreadsTyped
      <3>. QED BY <3>2
    <2>. QED BY <2>1, <2>2
  <1>6. Receiver \in Threads /\ t # Receiver /\ t \in Threads
    BY ThreadsApart
  <1>7. AtWork' = AtWork /\ inbox \in Seq(Messages) /\ (AtWork => taken \in Messages)
    BY <1>1, <1>6, StreamTyped DEF AtWork, Typing, SidecarsTyped
  <1>8. CASE UNCHANGED open
    <2>1. Stream' = Stream
      BY <1>1, <1>7, <1>8 DEF Stream
    <2>2. job'[t].op # "close" \/ ~open'.registered
      BY <1>4, <1>8 DEF Typing, ChannelTyped
    <2>3. Bound'
      BY <1>1, <1>2, <1>5, <1>6, <1>8, <2>2, BoundCaller DEF Bound
    <2>. QED BY <1>1, <1>8, <2>1, <2>3 DEF Still
  <1>9. CASE open' = [open EXCEPT !.registered = FALSE]
    <2>1. ~open'.registered
      BY <1>9 DEF Typing, ChannelTyped
    <2>2. Len(Stream') <= Len(Stream) /\ \A k \in 1 .. Len(Stream') : Stream'[k] = Stream[k]
      <3>1. CASE ~AtWork
        <4>1. Stream' = <<>> \o <<>>
          BY <1>7, <2>1, <3>1 DEF Stream
        <4>2. Len(Stream') = 0 /\ Len(Stream) \in Nat
          BY <4>1, StreamTyped
        <4>. QED BY <4>2
      <3>2. CASE AtWork
        <4> DEFINE rest == IF open.registered THEN inbox ELSE <<>>
        <4>1. rest \in Seq(Messages) /\ taken \in Messages
          BY <1>7, <3>2
        <4>2. Stream = <<taken>> \o rest /\ Stream' = <<taken>> \o <<>>
          BY <1>1, <1>7, <2>1, <3>2 DEF Stream
        <4> HIDE DEF rest
        <4>3. /\ Stream'[1] = taken /\ Stream[1] = taken /\ Len(Stream') = 1 /\ Len(Stream) >= 1
          BY <4>1, <4>2
        <4>. QED BY <4>3
      <3>. QED BY <3>1, <3>2
    <2>3. Bound'
      BY <1>1, <1>2, <1>5, <1>6, <2>1, BoundCaller DEF Bound
    <2>. QED BY <1>1, <2>1, <2>2, <2>3 DEF Still
  <1>. QED BY <1>3, <1>8, <1>9
LEMMA CallStill ==
  ASSUME Typing, Threading, Bound, NEW t \in Callers, Call(t) PROVE Still /\ Bound'
  <1>1. Receiver \in Threads /\ t # Receiver /\ t \in Threads
    BY ThreadsApart
  <1>2. /\ UNCHANGED <<rings, current, away, sends, returned, taken>>
        /\ open'.registered = open.registered
        /\ inbox' = inbox \/ Close(t)
        /\ at' = [at EXCEPT ![t] = "idle"] \/ at' = [at EXCEPT ![t] = "show"] \/ at' = [at EXCEPT ![t] = "read"]
    BY DEF Call, Bind, BindView, UnbindView, Snapshot, ReadPixels, Close, Return, Unlock, Beside, sidecarVars,
           channelVars, Typing, ChannelTyped
  <1>3. /\ pane \in [Panes -> PaneRings] /\ job \in [Callers -> Jobs]
        /\ at[t] \in {"held", "read"}
    BY DEF Typing, ChannelTyped, ThreadsTyped, Call, Bind, BindView, UnbindView, Snapshot, ReadPixels, Close
  <1>4. AtWork' = AtWork /\ (AtWork => taken \in Messages)
    BY <1>1, <1>2, StreamTyped DEF AtWork, Typing, ThreadsTyped
  <1>5. Stream' = Stream
    <2>1. CASE inbox' = inbox
      BY <1>2, <1>4, <2>1 DEF Stream
    <2>2. CASE Close(t)
      <3>1. ~open.registered
        BY <2>2 DEF Close, Bound
      <3>. QED BY <1>2, <1>4, <3>1 DEF Stream
    <2>. QED BY <1>2, <2>1, <2>2
  <1>6. \A p \in Panes : /\ \/ pane'[p].ring = pane[p].ring /\ pane'[p].displayed = pane[p].displayed
                            \/ pane'[p].ring = 0
                         /\ pane'[p].sidecar = Nobody => pane'[p].ring = 0
    <2>1. CASE Close(t)
      <3>1. pane' = [p \in Panes |-> [pane[p] EXCEPT !.ring = 0, !.displayed = None]]
        BY <2>1 DEF Close
      <3>2. \A p \in Panes : pane'[p].ring = 0
        BY <3>1 DEF Typing, ChannelTyped, PaneRings
      <3>. QED BY <3>2
    <2>2. CASE Bind(t)
      <3>1. /\ pane' = [pane EXCEPT ![job[t].pane].sidecar = job[t].sidecar]
            /\ job[t].sidecar \in Sidecars
        BY <2>2 DEF Bind, Bound
      <3>2. \A p \in Panes : /\ pane'[p].ring = pane[p].ring /\ pane'[p].displayed = pane[p].displayed
                             /\ pane'[p].sidecar = pane[p].sidecar \/ pane'[p].sidecar = job[t].sidecar
        <4>1. \A p \in Panes : /\ pane[p] \in PaneRings
                               /\ \/ pane'[p] = pane[p]
                                  \/ pane'[p] = [pane[p] EXCEPT !.sidecar = job[t].sidecar]
          BY <3>1 DEF Typing, ChannelTyped
        <4>. QED BY <4>1 DEF PaneRings
      <3>. QED BY <3>1, <3>2, NobodyAssumption DEF Bound
    <2>3. CASE ~Close(t) /\ ~Bind(t)
      <3>1. pane' = pane \/ \E v : pane' = [pane EXCEPT ![job[t].pane].view = v]
        BY <2>3 DEF Call, BindView, UnbindView, Snapshot, ReadPixels, channelVars
      <3>2. \A p \in Panes : /\ pane'[p].ring = pane[p].ring /\ pane'[p].displayed = pane[p].displayed
                             /\ pane'[p].sidecar = pane[p].sidecar
        <4>1. pane \in [Panes -> PaneRings]
          BY DEF Typing, ChannelTyped
        <4>2. CASE pane' = pane
          BY <4>2
        <4>3. ASSUME NEW v, pane' = [pane EXCEPT ![job[t].pane].view = v], NEW p \in Panes
              PROVE  /\ pane'[p].ring = pane[p].ring /\ pane'[p].displayed = pane[p].displayed
                     /\ pane'[p].sidecar = pane[p].sidecar
          <5>1. pane[p] \in PaneRings /\ (pane'[p] = pane[p] \/ pane'[p] = [pane[p] EXCEPT !.view = v])
            BY <4>1, <4>3
          <5>. QED BY <5>1 DEF PaneRings
        <4>. QED BY <3>1, <4>2, <4>3
      <3>. QED BY <3>2 DEF Bound
    <2>. QED BY <2>1, <2>2, <2>3
  <1>7. /\ \A c \in Callers : c # t => job'[c] = job[c]
        /\ job'[t].op = "close" => job[t].op = "close"
    <2>1. job' = job \/ job' = [job EXCEPT ![t] = NoJob] \/ \E x : job' = [job EXCEPT ![t].surface = x]
      BY DEF Call, Bind, BindView, UnbindView, Snapshot, ReadPixels, Close, Return
    <2>. QED BY <1>3, <2>1 DEF NoJob, Jobs
  <1>8. Bound'
    <2>1. PICK to \in {"idle", "show", "read"} : at' = [at EXCEPT ![t] = to]
      BY <1>2
    <2>. QED BY <1>1, <1>2, <1>3, <1>6, <1>7, <2>1, BoundCaller
  <1>. QED BY <1>2, <1>5, <1>6, <1>8 DEF Still

LEMMA ThreadStill ==
  ASSUME Typing, Threading, Bound, NEW t \in Threads, Lock(t) \/ Show(t) PROVE Still /\ Bound'
  <1>1. UNCHANGED <<pane, open, rings, current, away, sends, returned, inbox>>
    BY DEF Lock, Show, channelVars, sidecarVars
  <1>2. CASE Lock(t)
    <2>1. /\ at' = [at EXCEPT ![t] = "held"] /\ at[t] = "lock" /\ UNCHANGED <<taken, job>>
      BY <1>2 DEF Lock
    <2>2. AtWork' = AtWork
      BY <2>1, ThreadsApart DEF AtWork, Typing, ThreadsTyped
    <2>3. Stream' = Stream
      BY <1>1, <2>1, <2>2 DEF Stream
    <2>4. Bound'
      BY <1>1, <2>1, BoundCaller DEF Bound
    <2>. QED BY <1>1, <2>3, <2>4 DEF Still
  <1>3. CASE Show(t)
    <2>1. /\ at' = [at EXCEPT ![t] = "idle"] /\ at[t] = "show"
          /\ \A c \in Callers : c # t => job'[c] = job[c]
          /\ t # Receiver => taken' = taken
      BY <1>3 DEF Show
    <2>2. AtWork' = AtWork /\ (AtWork => t # Receiver)
      BY <2>1, ThreadsApart DEF AtWork, Typing, ThreadsTyped
    <2>3. Stream' = Stream
      BY <1>1, <2>1, <2>2 DEF Stream
    <2>4. Bound'
      BY <1>1, <2>1, BoundCaller DEF Bound
    <2>. QED BY <1>1, <2>3, <2>4 DEF Still
  <1>. QED BY <1>2, <1>3

LEMMA ReceiverStill ==
  ASSUME Typing, Threading, Bound, Receive \/ Sent PROVE Still /\ Bound'
  <1>1. UNCHANGED <<pane, open, rings, current, away, sends, returned, job>>
    BY DEF Receive, Sent, channelVars, sidecarVars
  <1>2. Stream' = Stream
    <2>1. CASE Receive
      BY <2>1, StreamReceived
    <2>2. CASE Sent
      <3>1. at[Receiver] = "sends" /\ at' = [at EXCEPT ![Receiver] = "show"] /\ UNCHANGED <<taken, inbox>>
        BY <2>2 DEF Sent, sidecarVars
      <3>2. AtWork' = AtWork
        BY <3>1, ThreadsApart DEF AtWork, Typing, ThreadsTyped
      <3>. QED BY <1>1, <3>1, <3>2 DEF Stream
    <2>. QED BY <2>1, <2>2
  <1>3. Bound'
    <2>1. \/ at' = at
          \/ at' = [at EXCEPT ![Receiver] = "lock"] \/ at' = [at EXCEPT ![Receiver] = "show"]
      BY DEF Receive, Sent
    <2>2. CASE at' = at
      BY <1>1, <2>2 DEF Bound
    <2>3. CASE at' = [at EXCEPT ![Receiver] = "lock"] \/ at' = [at EXCEPT ![Receiver] = "show"]
      BY <1>1, <2>3, BoundCaller, ThreadsApart DEF Bound
    <2>. QED BY <2>1, <2>2, <2>3
  <1>. QED BY <1>1, <1>2, <1>3 DEF Still

\* What is sent back moves from the application to a sidecar, or is lost.
LEMMA SendReleasedKeeps ==
  ASSUME Typing, Threading, Bound, SendReleased
  PROVE  /\ UNCHANGED <<rings, current, away, pane, open>> /\ Stream' = Stream /\ Bound'
         /\ sends # <<>> /\ sends' = Tail(sends)
         /\ \/ returned' = returned
            \/ /\ Head(sends).to \in Sidecars
               /\ returned' = [returned EXCEPT ![Head(sends).to] = Append(@, Head(sends).surface)]
  <1>1. /\ UNCHANGED <<rings, current, away, pane, open, at, taken, inbox, job>>
        /\ sends # <<>> /\ sends' = Tail(sends)
        /\ \/ returned' = returned
           \/ returned' = [returned EXCEPT ![Head(sends).to] = Append(@, Head(sends).surface)]
    BY DEF SendReleased, channelVars
  <1>2. Head(sends).to \in Sidecars
    <2>1. Head(sends) \in Sends
      BY <1>1 DEF Typing, ThreadsTyped
    <2>. QED BY <2>1 DEF Sends
  <1>3. Stream' = Stream /\ Bound'
    BY <1>1 DEF Stream, AtWork, Bound
  <1>. QED BY <1>1, <1>2, <1>3

-----------------------------------------------------------------------------
(* Order: the frames and the end of a ring come after it and before the next *)

RingOf(message, p) == message.kind = "ring" /\ message.pane = p

\* Whoever consumes the messages of q before the one at k, and starts with the
\* pane holding ring r, ends with ring n or with none.
Finds(q, r, p, n, k) ==
  \/ \E j \in 1 .. k - 1 : /\ RingOf(q[j], p) /\ q[j].ring = n
                           /\ \A i \in j + 1 .. k - 1 : ~RingOf(q[i], p)
  \/ r \in {0, n} /\ \A i \in 1 .. k - 1 : ~RingOf(q[i], p)

\* The messages q, the rings panes hold, the rings sidecars draw in, and whether
\* what they send is still listened to.
InOrder(q, held, drawn, heard) ==
  /\ \A k \in DOMAIN q : q[k].kind \in {"frame", "ended"} => Finds(q, held[q[k].pane], q[k].pane, q[k].ring, k)
  /\ heard => \A s \in Sidecars, p \in Panes : drawn[s][p] # 0 =>
       Finds(q, held[p], p, drawn[s][p], Len(q) + 1)
  /\ \A s \in Sidecars, p \in Panes : drawn[s][p] # 0 /\ held[p] = drawn[s][p] =>
       \A k \in DOMAIN q : ~RingOf(q[k], p)
  /\ \A j, k \in DOMAIN q : q[j].kind = "ring" /\ q[k].kind = "ring" /\ q[j].ring = q[k].ring => j = k
  /\ \A k \in DOMAIN q : q[k].kind = "ring" => \A p \in Panes : held[p] # q[k].ring

LEMMA FindsSame ==
  ASSUME NEW q, NEW s, NEW r, NEW h \in {0, r}, NEW p, NEW n, NEW k \in Nat,
         \A i \in 1 .. k - 1 : s[i] = q[i], Finds(q, r, p, n, k)
  PROVE  Finds(s, h, p, n, k)
  <1>1. CASE \E j \in 1 .. k - 1 : /\ RingOf(q[j], p) /\ q[j].ring = n
                                   /\ \A i \in j + 1 .. k - 1 : ~RingOf(q[i], p)
    <2>1. PICK j \in 1 .. k - 1 : /\ RingOf(q[j], p) /\ q[j].ring = n
                                  /\ \A i \in j + 1 .. k - 1 : ~RingOf(q[i], p)
      BY <1>1
    <2>2. \A i \in j + 1 .. k - 1 : s[i] = q[i]
      OBVIOUS
    <2>. QED BY <2>1, <2>2 DEF Finds
  <1>2. CASE r \in {0, n} /\ \A i \in 1 .. k - 1 : ~RingOf(q[i], p)
    BY <1>2 DEF Finds
  <1>. QED BY <1>1, <1>2 DEF Finds

\* The first message consumed, the others find what they found.
LEMMA FindsTail ==
  ASSUME NEW q \in Seq(Messages), q # <<>>, NEW r, NEW h, NEW p, NEW n, NEW k \in 2 .. Len(q) + 1,
         IF RingOf(q[1], p) THEN h \in {0, q[1].ring} ELSE h \in {0, r},
         Finds(q, r, p, n, k)
  PROVE  Finds(Tail(q), h, p, n, k - 1)
  <1>1. /\ Len(q) \in Nat /\ k \in Nat
        /\ \A i \in 1 .. k - 2 : Tail(q)[i] = q[i + 1] /\ i + 1 \in 2 .. k - 1
    BY Elements
  <1>2. ASSUME NEW j \in 1 .. k - 1, RingOf(q[j], p), q[j].ring = n,
               \A i \in j + 1 .. k - 1 : ~RingOf(q[i], p)
        PROVE  Finds(Tail(q), h, p, n, k - 1)
    <2>1. CASE j = 1
      <3>1. \A i \in 1 .. k - 2 : ~RingOf(Tail(q)[i], p)
        BY <1>1, <1>2, <2>1
      <3>. QED BY <1>2, <2>1, <3>1 DEF Finds
    <2>2. CASE j # 1
      <3>1. j - 1 \in 1 .. k - 2 /\ Tail(q)[j - 1] = q[j]
        BY <1>1, <2>2
      <3>2. \A i \in j .. k - 2 : ~RingOf(Tail(q)[i], p)
        <4>1. \A i \in j .. k - 2 : i \in 1 .. k - 2 /\ i + 1 \in j + 1 .. k - 1
          OBVIOUS
        <4>. QED BY <1>1, <1>2, <4>1
      <3>3. (k - 1) - 1 = k - 2 /\ (j - 1) + 1 = j
        OBVIOUS
      <3>. QED BY <1>2, <3>1, <3>2, <3>3 DEF Finds
    <2>. QED BY <2>1, <2>2
  <1>3. CASE r \in {0, n} /\ \A i \in 1 .. k - 1 : ~RingOf(q[i], p)
    <2>1. ~RingOf(q[1], p) /\ h \in {0, n}
      BY <1>3
    <2>2. \A i \in 1 .. k - 2 : ~RingOf(Tail(q)[i], p)
      BY <1>1, <1>3
    <2>3. (k - 1) - 1 = k - 2
      OBVIOUS
    <2>. QED BY <2>1, <2>2, <2>3 DEF Finds
  <1>. QED BY <1>2, <1>3 DEF Finds

\* No ring but those held before, and no message but the first of those there were.
Fewer(h, held) == \A p \in Panes : h[p] \in {0, held[p]}
Begins(s, q) == Len(s) <= Len(q) /\ \A k \in 1 .. Len(s) : s[k] = q[k]

LEMMA OrderFewer ==
  ASSUME NEW q \in Seq(Messages), NEW s \in Seq(Messages), Begins(s, q), NEW held, NEW h, Fewer(h, held),
         NEW c \in [Sidecars -> [Panes -> 0 .. MaxRings]], NEW b \in BOOLEAN, NEW d \in BOOLEAN,
         d => b /\ Len(s) = Len(q), InOrder(q, held, c, b)
  PROVE  InOrder(s, h, c, d)
  <1>1. /\ Len(q) \in Nat /\ DOMAIN q = 1 .. Len(q) /\ Len(s) \in Nat /\ DOMAIN s = 1 .. Len(s)
        /\ DOMAIN s \subseteq DOMAIN q
        /\ \A k \in DOMAIN s : s[k] = q[k] /\ k \in Nat /\ \A i \in 1 .. k - 1 : s[i] = q[i]
        /\ \A k \in DOMAIN s : s[k] \in Messages
    BY Elements DEF Begins
  <1>0. \A p \in Panes : h[p] \in {0, held[p]}
    BY DEF Fewer
  <1>2. ASSUME NEW k \in DOMAIN s, s[k].kind \in {"frame", "ended"}
        PROVE  Finds(s, h[s[k].pane], s[k].pane, s[k].ring, k)
    <2>1. s[k].pane \in Panes /\ h[s[k].pane] \in {0, held[s[k].pane]}
      BY <1>1, <1>2, <1>0, MessageFields
    <2>2. Finds(q, held[s[k].pane], s[k].pane, s[k].ring, k)
      BY <1>1, <1>2 DEF InOrder
    <2>3. k \in Nat /\ \A i \in 1 .. k - 1 : s[i] = q[i]
      BY <1>1
    <2>. QED BY <2>1, <2>2, <2>3, FindsSame
  <1>3. ASSUME d, NEW v \in Sidecars, NEW p \in Panes, c[v][p] # 0
        PROVE  Finds(s, h[p], p, c[v][p], Len(s) + 1)
    <2>1. Finds(q, held[p], p, c[v][p], Len(s) + 1)
      BY <1>3 DEF InOrder
    <2>2. Len(s) + 1 \in Nat /\ \A i \in 1 .. (Len(s) + 1) - 1 : i \in 1 .. Len(s)
      <3>1. Len(s) \in Nat
        BY <1>1
      <3>. QED BY <3>1
    <2>3. \A i \in 1 .. (Len(s) + 1) - 1 : s[i] = q[i]
      BY <1>1, <2>2
    <2>4. h[p] \in {0, held[p]}
      BY <1>0
    <2>. QED BY <2>1, <2>2, <2>3, <2>4, FindsSame
  <1>4. ASSUME NEW v \in Sidecars, NEW p \in Panes, c[v][p] # 0, h[p] = c[v][p], NEW k \in DOMAIN s
        PROVE  ~RingOf(s[k], p)
    <2>1. held[p] = c[v][p] /\ k \in DOMAIN q /\ s[k] = q[k]
      BY <1>1, <1>4, <1>0
    <2>. QED BY <1>4, <2>1 DEF InOrder
  <1>5. /\ \A j, k \in DOMAIN s : s[j].kind = "ring" /\ s[k].kind = "ring" /\ s[j].ring = s[k].ring => j = k
        /\ \A k \in DOMAIN s : s[k].kind = "ring" => \A p \in Panes : h[p] # s[k].ring
    <2>1. \A k \in DOMAIN s : s[k].kind = "ring" => s[k].ring # 0
      <3>1. \A k \in DOMAIN s : s[k].kind = "ring" => s[k].ring \in Rings
        BY <1>1, MessageFields
      <3>. QED BY <3>1 DEF Rings
    <2>2. \A k \in DOMAIN s : k \in DOMAIN q /\ s[k] = q[k]
      BY <1>1
    <2>3. /\ \A j, k \in DOMAIN q : q[j].kind = "ring" /\ q[k].kind = "ring" /\ q[j].ring = q[k].ring => j = k
          /\ \A k \in DOMAIN q : q[k].kind = "ring" => \A p \in Panes : held[p] # q[k].ring
      BY DEF InOrder
    <2>4. \A j, k \in DOMAIN s : s[j].kind = "ring" /\ s[k].kind = "ring" /\ s[j].ring = s[k].ring => j = k
      BY <2>2, <2>3
    <2>5. ASSUME NEW k \in DOMAIN s, s[k].kind = "ring", NEW p \in Panes PROVE h[p] # s[k].ring
      BY <1>0, <2>1, <2>2, <2>3, <2>5
    <2>. QED BY <2>4, <2>5
  <1>. QED BY <1>2, <1>3, <1>4, <1>5 DEF InOrder

\* A sidecar sends of the ring it draws in, or a new ring.
LEMMA OrderAppend ==
  ASSUME NEW q \in Seq(Messages), NEW m \in Messages, NEW held \in [Panes -> 0 .. MaxRings],
         NEW c \in [Sidecars -> [Panes -> 0 .. MaxRings]], NEW d \in [Sidecars -> [Panes -> 0 .. MaxRings]],
         InOrder(q, held, c, TRUE),
         m.kind \in {"frame", "ended"} => \E s \in Sidecars : c[s][m.pane] = m.ring,
         m.kind = "ring" => /\ \A k \in DOMAIN q : q[k].kind = "ring" => q[k].ring # m.ring
                            /\ \A p \in Panes : held[p] # m.ring
                            /\ \A s \in Sidecars : d[s][m.pane] \in {0, m.ring},
         \A s \in Sidecars, p \in Panes : \/ d[s][p] \in {0, c[s][p]} 
                                          \/ RingOf(m, p) /\ d[s][p] = m.ring
  PROVE  InOrder(Append(q, m), held, d, TRUE)
  <1> DEFINE z == Append(q, m)
             n == Len(q)
  <1>1. /\ z \in Seq(Messages) /\ n \in Nat /\ DOMAIN q = 1 .. n /\ Len(z) = n + 1 /\ DOMAIN z = 1 .. n + 1
        /\ z[n + 1] = m /\ \A k \in 1 .. n : z[k] = q[k] /\ q[k] \in Messages
        /\ \A k \in 1 .. n + 1 : z[k] \in Messages
    BY Elements
  <1>2. \A k \in 1 .. n + 1 : k \in Nat /\ \A i \in 1 .. k - 1 : z[i] = q[i]
    BY <1>1
  <1> HIDE DEF z, n
  <1>3. m.kind = "ring" => m.ring \in Rings /\ m.ring # 0
    BY MessageFields DEF Rings
  <1>4. ASSUME NEW k \in 1 .. n + 1, z[k].kind \in {"frame", "ended"}
        PROVE  Finds(z, held[z[k].pane], z[k].pane, z[k].ring, k)
    <2>1. z[k].pane \in Panes /\ z[k].ring \in Rings
      BY <1>1, <1>4, MessageFields
    <2>2. Finds(q, held[z[k].pane], z[k].pane, z[k].ring, k)
      <3>1. CASE k \in 1 .. n
        BY <1>1, <1>4, <3>1 DEF InOrder
      <3>2. CASE k = n + 1
        <4>1. PICK s \in Sidecars : c[s][m.pane] = m.ring
          BY <1>1, <1>4, <3>2
        <4>2. m.ring # 0 /\ m.pane \in Panes
          BY <1>1, <2>1, <3>2 DEF Rings
        <4>3. Finds(q, held[m.pane], m.pane, m.ring, Len(q) + 1)
          BY <4>1, <4>2 DEF InOrder
        <4>. QED BY <1>1, <3>2, <4>3 DEF n
      <3>. QED BY <1>1, <3>1, <3>2
    <2>. QED BY <1>2, <2>2, FindsSame
  <1>5. ASSUME NEW s \in Sidecars, NEW p \in Panes, d[s][p] # 0
        PROVE  Finds(z, held[p], p, d[s][p], n + 2)
    <2>1. CASE RingOf(m, p)
      <3>1. d[s][p] = m.ring
        BY <1>5, <2>1 DEF RingOf
      <3>2. n + 1 \in 1 .. (n + 2) - 1 /\ \A i \in n + 1 + 1 .. (n + 2) - 1 : FALSE
        BY <1>1
      <3>. QED BY <1>1, <2>1, <3>1, <3>2 DEF Finds
    <2>2. CASE ~RingOf(m, p)
      <3>1. d[s][p] = c[s][p]
        BY <1>5, <2>2
      <3>2. Finds(q, held[p], p, d[s][p], n + 1)
        BY <1>5, <3>1 DEF InOrder, n
      <3>3. CASE \E j \in 1 .. n : /\ RingOf(q[j], p) /\ q[j].ring = d[s][p]
                                   /\ \A i \in j + 1 .. n : ~RingOf(q[i], p)
        <4>1. PICK j \in 1 .. n : /\ RingOf(q[j], p) /\ q[j].ring = d[s][p]
                                  /\ \A i \in j + 1 .. n : ~RingOf(q[i], p)
          BY <3>3
        <4>2. j \in 1 .. (n + 2) - 1 /\ z[j] = q[j]
          BY <1>1
        <4>3. \A i \in j + 1 .. (n + 2) - 1 : ~RingOf(z[i], p)
          <5>1. \A i \in j + 1 .. (n + 2) - 1 : i = n + 1 \/ (i \in j + 1 .. n /\ i \in 1 .. n)
            BY <1>1
          <5>. QED BY <1>1, <2>2, <4>1, <5>1
        <4>. QED BY <4>1, <4>2, <4>3 DEF Finds
      <3>4. CASE held[p] \in {0, d[s][p]} /\ \A i \in 1 .. n : ~RingOf(q[i], p)
        <4>1. \A i \in 1 .. (n + 2) - 1 : i = n + 1 \/ i \in 1 .. n
          BY <1>1
        <4>2. \A i \in 1 .. (n + 2) - 1 : ~RingOf(z[i], p)
          BY <1>1, <2>2, <3>4, <4>1
        <4>. QED BY <3>4, <4>2 DEF Finds
      <3>5. (n + 1) - 1 = n
        BY <1>1
      <3>. QED BY <3>2, <3>3, <3>4, <3>5 DEF Finds
    <2>. QED BY <2>1, <2>2
  <1>6. ASSUME NEW s \in Sidecars, NEW p \in Panes, d[s][p] # 0, held[p] = d[s][p], NEW k \in 1 .. n + 1
        PROVE  ~RingOf(z[k], p)
    <2>1. ~(RingOf(m, p) /\ d[s][p] = m.ring)
      BY <1>6 DEF RingOf
    <2>2. d[s][p] = c[s][p] /\ ~RingOf(m, p)
      BY <1>6, <2>1 DEF RingOf
    <2>3. CASE k \in 1 .. n
      BY <1>1, <1>6, <2>2, <2>3 DEF InOrder
    <2>4. CASE k = n + 1
      BY <1>1, <2>2, <2>4
    <2>. QED BY <1>1, <2>3, <2>4
  <1>7. \A k \in 1 .. n + 1 : k \in 1 .. n \/ k = n + 1
    BY <1>1
  <1>8. /\ \A j, k \in 1 .. n : q[j].kind = "ring" /\ q[k].kind = "ring" /\ q[j].ring = q[k].ring => j = k
        /\ \A k \in 1 .. n : q[k].kind = "ring" => \A p \in Panes : held[p] # q[k].ring
    BY <1>1 DEF InOrder
  <1>9. /\ \A j, k \in 1 .. n + 1 : z[j].kind = "ring" /\ z[k].kind = "ring" /\ z[j].ring = z[k].ring => j = k
        /\ \A k \in 1 .. n + 1 : z[k].kind = "ring" => \A p \in Panes : held[p] # z[k].ring
    <2>1. m.kind = "ring" => /\ \A k \in 1 .. n : q[k].kind = "ring" => q[k].ring # m.ring
                             /\ \A p \in Panes : held[p] # m.ring
      BY <1>1
    <2>2. ASSUME NEW j \in 1 .. n + 1, NEW k \in 1 .. n + 1,
                 z[j].kind = "ring", z[k].kind = "ring", z[j].ring = z[k].ring
          PROVE  j = k
      <3>1. CASE j \in 1 .. n /\ k \in 1 .. n
        BY <1>1, <1>8, <2>2, <3>1
      <3>2. CASE j = n + 1 /\ k \in 1 .. n
        BY <1>1, <2>1, <2>2, <3>2
      <3>3. CASE j \in 1 .. n /\ k = n + 1
        BY <1>1, <2>1, <2>2, <3>3
      <3>. QED BY <1>7, <3>1, <3>2, <3>3
    <2>3. ASSUME NEW k \in 1 .. n + 1, z[k].kind = "ring", NEW p \in Panes PROVE held[p] # z[k].ring
      BY <1>1, <1>7, <1>8, <2>1, <2>3
    <2>. QED BY <2>2, <2>3
  <1>10. InOrder(z, held, d, TRUE)
    <2>1. Len(z) + 1 = n + 2
      BY <1>1
    <2>. QED BY <1>1, <1>4, <1>5, <1>6, <1>9, <2>1 DEF InOrder
  <1>. QED BY <1>10 DEF z

LEMMA OrderTail ==
  ASSUME NEW q \in Seq(Messages), q # <<>>, NEW held \in [Panes -> 0 .. MaxRings],
         NEW h \in [Panes -> 0 .. MaxRings],
         \A p \in Panes : IF RingOf(q[1], p) THEN h[p] \in {0, q[1].ring} ELSE h[p] \in {0, held[p]},
         NEW c \in [Sidecars -> [Panes -> 0 .. MaxRings]], NEW b \in BOOLEAN,
         b \/ Len(q) = 1, InOrder(q, held, c, b)
  PROVE  InOrder(Tail(q), h, c, b)
  <1> DEFINE z == Tail(q)
             n == Len(q)
  <1>1. /\ z \in Seq(Messages) /\ n \in Nat /\ n > 0 /\ DOMAIN q = 1 .. n
        /\ Len(z) = n - 1 /\ DOMAIN z = 1 .. n - 1 /\ 1 \in 1 .. n
        /\ \A k \in 1 .. n - 1 : z[k] = q[k + 1] /\ z[k] \in Messages
        /\ \A k \in 1 .. n : q[k] \in Messages
    BY Elements
  <1>2. \A k \in 1 .. n - 1 : k + 1 \in 2 .. n + 1 /\ k + 1 \in 1 .. n /\ k \in Nat /\ (k + 1) - 1 = k
    BY <1>1
  <1>3. ASSUME NEW p, NEW r, NEW k \in 2 .. n + 1, p \in Panes, Finds(q, held[p], p, r, k)
        PROVE  Finds(z, h[p], p, r, k - 1)
    BY <1>3, FindsTail
  <1>4. ASSUME NEW k \in 1 .. n - 1, z[k].kind \in {"frame", "ended"}
        PROVE  Finds(z, h[z[k].pane], z[k].pane, z[k].ring, k)
    <2>1. z[k].pane \in Panes /\ z[k] = q[k + 1] /\ k + 1 \in 1 .. n
      BY <1>1, <1>2, <1>4, MessageFields
    <2>2. Finds(q, held[z[k].pane], z[k].pane, z[k].ring, k + 1)
      BY <1>1, <1>4, <2>1 DEF InOrder
    <2>3. Finds(z, h[z[k].pane], z[k].pane, z[k].ring, (k + 1) - 1)
      BY <1>2, <1>3, <2>1, <2>2
    <2>. QED BY <1>2, <2>3
  <1>5. ASSUME b, NEW s \in Sidecars, NEW p \in Panes, c[s][p] # 0
        PROVE  Finds(z, h[p], p, c[s][p], Len(z) + 1)
    <2>1. Finds(q, held[p], p, c[s][p], n + 1)
      BY <1>5 DEF InOrder
    <2>2. n + 1 \in 2 .. n + 1 /\ (n + 1) - 1 = Len(z) + 1
      BY <1>1
    <2>3. Finds(z, h[p], p, c[s][p], (n + 1) - 1)
      BY <1>3, <2>1, <2>2
    <2>. QED BY <2>2, <2>3
  <1>6. /\ \A j, k \in 1 .. n : q[j].kind = "ring" /\ q[k].kind = "ring" /\ q[j].ring = q[k].ring => j = k
        /\ \A k \in 1 .. n : q[k].kind = "ring" => \A p \in Panes : held[p] # q[k].ring
    BY <1>1 DEF InOrder
  <1>7. ASSUME NEW s \in Sidecars, NEW p \in Panes, c[s][p] # 0, h[p] = c[s][p], NEW k \in 1 .. n - 1
        PROVE  ~RingOf(z[k], p)
    <2>1. z[k] = q[k + 1] /\ k + 1 \in 1 .. n /\ k + 1 # 1 /\ k + 1 \in 2 .. n
      BY <1>1, <1>2
    <2>2. CASE ~RingOf(q[1], p)
      <3>1. held[p] = c[s][p]
        BY <1>7, <2>2
      <3>. QED BY <1>1, <1>7, <2>1, <3>1 DEF InOrder
    <2>3. CASE RingOf(q[1], p)
      <3>1. q[1].ring = c[s][p] /\ q[1].kind = "ring"
        BY <1>7, <2>3 DEF RingOf
      <3>2. b
        <4>1. n # 1
          BY <1>1, <1>7
        <4>. QED BY <4>1
      <3>3. Finds(q, held[p], p, c[s][p], n + 1)
        BY <1>7, <3>2 DEF InOrder
      <3>4. (n + 1) - 1 = n
        BY <1>1
      <3>5. \E j \in 1 .. n : /\ RingOf(q[j], p) /\ q[j].ring = c[s][p]
                              /\ \A i \in j + 1 .. n : ~RingOf(q[i], p)
        BY <1>1, <2>3, <3>3, <3>4 DEF Finds
      <3>6. PICK j \in 1 .. n : /\ RingOf(q[j], p) /\ q[j].ring = c[s][p]
                                /\ \A i \in j + 1 .. n : ~RingOf(q[i], p)
        BY <3>5
      <3>7. j = 1
        BY <1>1, <1>6, <3>1, <3>6 DEF RingOf
      <3>. QED BY <2>1, <3>6, <3>7
    <2>. QED BY <2>2, <2>3
  <1>8. /\ \A j, k \in 1 .. n - 1 : z[j].kind = "ring" /\ z[k].kind = "ring" /\ z[j].ring = z[k].ring => j = k
        /\ \A k \in 1 .. n - 1 : z[k].kind = "ring" => \A p \in Panes : h[p] # z[k].ring
    <2>1. ASSUME NEW j \in 1 .. n - 1, NEW k \in 1 .. n - 1,
                 z[j].kind = "ring", z[k].kind = "ring", z[j].ring = z[k].ring
          PROVE  j = k
      <3>1. j + 1 = k + 1
        BY <1>1, <1>2, <1>6, <2>1
      <3>. QED BY <3>1
    <2>2. ASSUME NEW k \in 1 .. n - 1, z[k].kind = "ring", NEW p \in Panes PROVE h[p] # z[k].ring
      <3>1. z[k] = q[k + 1] /\ k + 1 \in 1 .. n /\ k + 1 # 1
        BY <1>1, <1>2
      <3>2. z[k].ring \in Rings /\ z[k].ring # 0
        BY <1>1, <2>2, MessageFields DEF Rings
      <3>3. CASE ~RingOf(q[1], p)
        BY <1>6, <2>2, <3>1, <3>2, <3>3
      <3>4. CASE RingOf(q[1], p)
        <4>1. q[1].ring # z[k].ring
          BY <1>1, <1>6, <2>2, <3>1, <3>4 DEF RingOf
        <4>. QED BY <3>2, <3>4, <4>1
      <3>. QED BY <3>3, <3>4
    <2>. QED BY <2>1, <2>2
  <1> HIDE DEF z, n
  <1>9. InOrder(z, h, c, b)
    BY <1>1, <1>4, <1>5, <1>7, <1>8 DEF InOrder
  <1>. QED BY <1>9 DEF z

-----------------------------------------------------------------------------
(* The port keeps the order *)

Held == [p \in Panes |-> pane[p].ring]
Ordered == InOrder(Stream, Held, current, open.registered)

LEMMA HeldTyped ==
  ASSUME Typing
  PROVE  /\ Held \in [Panes -> 0 .. MaxRings] /\ \A p \in Panes : Held[p] = pane[p].ring
         /\ current \in [Sidecars -> [Panes -> 0 .. MaxRings]] /\ open.registered \in BOOLEAN
  <1>1. \A p \in Panes : pane[p] \in PaneRings
    BY DEF Typing, ChannelTyped
  <1>2. \A p \in Panes : pane[p].ring \in 0 .. MaxRings
    BY <1>1 DEF PaneRings
  <1>3. current \in [Sidecars -> [Panes -> 0 .. MaxRings]] /\ open.registered \in BOOLEAN
    BY DEF Typing, ChannelTyped, SidecarsTyped
  <1>. QED BY <1>2, <1>3 DEF Held

\* What is in the stream is about rings that were sent.
LEMMA StreamKnown ==
  ASSUME Typing, Threading, RingsKnown PROVE \A k \in DOMAIN Stream : Knows(Stream[k])
  <1>1. inbox \in Seq(Messages) /\ (AtWork => taken \in Messages /\ Knows(taken))
    BY StreamTyped, MessageFields DEF Typing, SidecarsTyped, RingsKnown
  <1> DEFINE rest == IF open.registered THEN inbox ELSE <<>>
  <1>2. rest \in Seq(Messages) /\ \A k \in DOMAIN rest : Knows(rest[k])
    BY <1>1 DEF RingsKnown
  <1>3. Stream = (IF AtWork THEN <<taken>> ELSE <<>>) \o rest
    BY DEF Stream
  <1> HIDE DEF rest
  <1>4. CASE ~AtWork
    <2>1. Stream = rest
      BY <1>2, <1>3, <1>4
    <2>. QED BY <1>2, <2>1
  <1>5. CASE AtWork
    <2>1. Stream = <<taken>> \o rest
      BY <1>3, <1>5
    <2>2. \A k \in DOMAIN Stream : Stream[k] = taken \/ \E i \in DOMAIN rest : Stream[k] = rest[i]
      BY <1>1, <1>2, <1>5, <2>1
    <2>. QED BY <1>1, <1>2, <1>5, <2>2
  <1>. QED BY <1>4, <1>5

\* The message a sidecar sends.
Adds(s, m) ==
  /\ inbox' = Append(inbox, m)
  /\ m.kind \in {"frame", "ended"} => current[s][m.pane] = m.ring
  /\ IF m.kind = "ring"
     THEN /\ <<m.pane, s>> \in Hosts /\ m.ring = Len(rings) + 1
          /\ current' = [current EXCEPT ![s][m.pane] = m.ring]
     ELSE \A r \in Sidecars, p \in Panes : current'[r][p] \in {0, current[r][p]}

LEMMA SidecarAdds ==
  ASSUME Typing, RingsKnown, NEW s \in Sidecars, Sidecar(s)
  PROVE  /\ UNCHANGED <<pane, open, at, job, taken, sends>>
         /\ TakeReleased(s) \/ \E m \in Messages : Adds(s, m)
  <1>1. UNCHANGED <<pane, open, at, job, taken, sends>>
    BY DEF Sidecar, SendHello, TakeReleased, SendRing, SendGap, SendEnded, SendFrame, Send,
           channelVars, threadVars
  <1>2. current \in [Sidecars -> [Panes -> 0 .. MaxRings]] /\ Len(rings) \in Nat
    BY DEF Typing, SidecarsTyped
  <1>3. CASE SendHello(s)
    <2> DEFINE m == [kind |-> "hello", sidecar |-> s, life |-> life[s] + 1]
    <2>1. m \in Messages
      BY <1>3, BoundsAssumption DEF SendHello, Typing, SidecarsTyped, Messages, Lives
    <2>2. inbox' = Append(inbox, m) /\ current' = [current EXCEPT ![s] = [p \in Panes |-> 0]]
      BY <1>3 DEF SendHello
    <2>3. \A r \in Sidecars, p \in Panes : current'[r][p] \in {0, current[r][p]}
      BY <1>2, <2>2
    <2>4. Adds(s, m)
      BY <2>2, <2>3 DEF Adds
    <2>. QED BY <1>1, <2>1, <2>4
  <1>4. ASSUME NEW p \in Panes, SendRing(s, p) PROVE \E m \in Messages : Adds(s, m)
    <2> DEFINE m == [kind |-> "ring", pane |-> p, ring |-> Len(rings) + 1]
    <2>1. m \in Messages
      BY <1>2, <1>4, BoundsAssumption DEF SendRing, Rings, Messages
    <2>2. Adds(s, m)
      BY <1>4 DEF SendRing, Send, Adds
    <2>. QED BY <2>1, <2>2
  <1>5. ASSUME NEW p \in Panes,
               SendGap(s, p) \/ SendEnded(s, p) \/ \E i \in Slots : SendFrame(s, p, i)
        PROVE  \E m \in Messages : Adds(s, m)
    <2> DEFINE n == current[s][p]
    <2>1. n \in Rings
      <3>1. n # 0
        BY <1>5 DEF SendGap, SendEnded, SendFrame
      <3>2. n \in 0 .. MaxRings
        BY <1>2
      <3>. QED BY <3>1, <3>2, BoundsAssumption DEF Rings
    <2>2. current' = current \/ current' = [current EXCEPT ![s][p] = 0]
      BY <1>5 DEF SendGap, SendEnded, SendFrame
    <2>3. \A r \in Sidecars, q \in Panes : current'[r][q] \in {0, current[r][q]}
      BY <1>2, <2>2
    <2>4. CASE SendGap(s, p)
      <3>1. [kind |-> "gap", pane |-> p, ring |-> n] \in Messages
        BY <2>1 DEF Messages
      <3>. QED BY <2>3, <2>4, <3>1 DEF SendGap, Send, Adds
    <2>5. CASE SendEnded(s, p)
      <3>1. [kind |-> "ended", pane |-> p, ring |-> n] \in Messages
        BY <2>1 DEF Messages
      <3>. QED BY <2>3, <2>5, <3>1 DEF SendEnded, Send, Adds
    <2>6. CASE \E i \in Slots : SendFrame(s, p, i)
      <3>1. PICK i \in Slots : SendFrame(s, p, i)
        BY <2>6
      <3>2. [kind |-> "frame", pane |-> p, ring |-> n, slot |-> i] \in Messages
        BY <2>1 DEF Messages
      <3>. QED BY <2>3, <3>1, <3>2 DEF SendFrame, Send, Adds
    <2>. QED BY <1>5, <2>4, <2>5, <2>6
  <1>. QED BY <1>1, <1>3, <1>4, <1>5 DEF Sidecar

LEMMA SidecarOrder ==
  ASSUME OneSidecar, Typing, Threading, RingsKnown, Bound, Ordered, NEW s \in Sidecars, Sidecar(s)
  PROVE  Ordered' /\ Bound'
  <1>1. /\ UNCHANGED <<pane, open, at, job, taken>> /\ Held' = Held
        /\ TakeReleased(s) \/ \E m \in Messages : Adds(s, m)
    BY SidecarAdds DEF Held
  <1>2. CASE TakeReleased(s)
    <2>1. UNCHANGED <<inbox, current>>
      BY <1>2 DEF TakeReleased
    <2>2. Stream' = Stream /\ Bound'
      BY <1>1, <2>1 DEF Stream, AtWork, Bound
    <2>. QED BY <1>1, <2>1, <2>2 DEF Ordered
  <1>3. ASSUME NEW m \in Messages, Adds(s, m) PROVE Ordered' /\ Bound'
    <2>1. /\ current \in [Sidecars -> [Panes -> 0 .. MaxRings]]
          /\ current' \in [Sidecars -> [Panes -> 0 .. MaxRings]]
          /\ Held \in [Panes -> 0 .. MaxRings] /\ Stream \in Seq(Messages)
          /\ \A p \in Panes : Held[p] = pane[p].ring
      BY HeldTyped, SidecarTyping, StreamTyped DEF Typing, SidecarsTyped
    <2>2. /\ m.kind = "ring" => m.pane \in Panes /\ m.ring \in Rings /\ m.ring # 0
      BY MessageFields DEF Rings
    <2>3. \A r \in Sidecars, p \in Panes : \/ current'[r][p] \in {0, current[r][p]}
                                           \/ RingOf(m, p) /\ current'[r][p] = m.ring /\ r = s
      BY <1>3, <2>1, <2>2 DEF Adds, RingOf
    <2>4. \A r \in Sidecars, p \in Panes : current'[r][p] # 0 => <<p, r>> \in Hosts
      BY <1>3, <2>3 DEF Bound, Adds, RingOf
    <2>5. Bound'
      BY <1>1, <2>4 DEF Bound
    <2>6. m.kind = "ring" => \A r \in Sidecars : current'[r][m.pane] \in {0, m.ring}
      <3>1. ASSUME m.kind = "ring", NEW r \in Sidecars, current'[r][m.pane] # 0
            PROVE  current'[r][m.pane] = m.ring
        <4>1. r = s
          BY <1>3, <2>2, <2>4, <3>1 DEF OneSidecar, Adds
        <4>. QED BY <1>3, <2>1, <2>2, <3>1, <4>1 DEF Adds
      <3>. QED BY <3>1
    <2>7. m.kind = "ring" => /\ \A k \in DOMAIN Stream : Stream[k].kind = "ring" => Stream[k].ring # m.ring
                             /\ \A p \in Panes : Held[p] # m.ring
      <3>1. rings \in Seq([pane : Panes, sidecar : Sidecars])
        BY DEF Typing, SidecarsTyped
      <3>2. Len(rings) + 1 \notin DOMAIN rings
        BY <3>1
      <3>3. \A k \in DOMAIN Stream : Stream[k].kind = "ring" => Stream[k].ring \in DOMAIN rings
        BY StreamKnown DEF Knows, Announced
      <3>4. \A p \in Panes : Held[p] # 0 => Held[p] \in DOMAIN rings
        BY <2>1 DEF RingsKnown, Announced
      <3>. QED BY <1>3, <2>2, <3>2, <3>3, <3>4 DEF Adds
    <2>8. CASE ~open.registered
      <3>1. Stream' = Stream
        BY <1>1, <1>3, <2>8, StreamAppend DEF Adds
      <3>2. InOrder(Stream, Held, current', FALSE)
        <4>1. \A r \in Sidecars, p \in Panes :
                current'[r][p] # 0 /\ Held[p] = current'[r][p] => current'[r][p] = current[r][p]
          BY <2>1, <2>3, <2>7 DEF RingOf
        <4>. QED BY <2>8, <4>1 DEF Ordered, InOrder
      <3>3. open'.registered = FALSE
        BY <1>1, <2>8, HeldTyped
      <3>. QED BY <1>1, <2>5, <3>1, <3>2, <3>3 DEF Ordered
    <2>9. CASE open.registered
      <3>1. Stream' = Append(Stream, m)
        BY <1>1, <1>3, <2>9, StreamAppend DEF Adds
      <3>2. InOrder(Stream, Held, current, TRUE)
        BY <2>9, HeldTyped DEF Ordered
      <3>3. m.kind \in {"frame", "ended"} => \E r \in Sidecars : current[r][m.pane] = m.ring
        BY <1>3 DEF Adds
      <3>4. \A r \in Sidecars, p \in Panes : \/ current'[r][p] \in {0, current[r][p]}
                                             \/ RingOf(m, p) /\ current'[r][p] = m.ring
        BY <2>3
      <3>5. InOrder(Append(Stream, m), Held, current', TRUE)
        BY <2>1, <2>6, <2>7, <3>2, <3>3, <3>4, OrderAppend
      <3>. QED BY <1>1, <2>5, <2>9, <3>1, <3>5, HeldTyped DEF Ordered
    <2>. QED BY <2>8, <2>9
  <1>. QED BY <1>1, <1>2, <1>3

\* What the receive thread consumes says which ring its pane holds.
LEMMA ConsumeHolds ==
  ASSUME Typing, Threading, Bound, Consume
  PROVE  /\ UNCHANGED <<rings, current, away, returned>> /\ sends = <<>>
         /\ \A p \in Panes : IF RingOf(taken, p) THEN pane'[p].ring \in {0, taken.ring}
                             ELSE pane'[p].ring \in {0, pane[p].ring}
         /\ Bound'
  <1>1. /\ at[Receiver] = "held" /\ taken \in Messages /\ UNCHANGED <<open, inbox>>
        /\ pane \in [Panes -> PaneRings] /\ UNCHANGED <<rings, current, away, returned, job>>
        /\ at' = [at EXCEPT ![Receiver] = "idle"] \/ at' = [at EXCEPT ![Receiver] = "sends"]
    <2>1. /\ UNCHANGED <<rings, current, away, returned, job>>
          /\ at' = [at EXCEPT ![Receiver] = "idle"] \/ at' = [at EXCEPT ![Receiver] = "sends"]
      BY DEF Consume, ConsumeHello, ConsumeGap, ConsumeRing, ConsumeBrokenRing, RefuseRing, ConsumeFrame,
             RefuseFrame, ConsumeEnded, Settle, Unlock, Beside, sidecarVars
    <2>. QED BY <2>1, StreamTail DEF Typing, ChannelTyped
  <1>2. sends = <<>>
    BY <1>1 DEF Threading
  <1>3. \A p \in Panes : /\ IF RingOf(taken, p) THEN pane'[p].ring \in {0, taken.ring}
                            ELSE pane'[p].ring \in {0, pane[p].ring}
                         /\ pane'[p].sidecar = Nobody => pane'[p].ring = 0
    <2> DEFINE p == taken.pane
    <2>1. ASSUME NEW n \in {0, taken.ring}, ReleaseRing(p, n), n = 0 \/ RingOf(taken, p),
                 n = 0 \/ pane[p].sidecar # Nobody
          PROVE  \A q \in Panes : /\ IF RingOf(taken, q) THEN pane'[q].ring \in {0, taken.ring}
                                     ELSE pane'[q].ring \in {0, pane[q].ring}
                                  /\ pane'[q].sidecar = Nobody => pane'[q].ring = 0
      <3>1. pane' = [pane EXCEPT ![p].ring = n, ![p].displayed = None]
        BY <2>1 DEF ReleaseRing
      <3>2. \A q \in Panes : /\ pane[q] \in PaneRings
                             /\ \/ pane'[q] = pane[q] /\ q # p
                                \/ q = p /\ pane'[q] = [[pane[q] EXCEPT !.ring = n] EXCEPT !.displayed = None]
        BY <1>1, <3>1
      <3>3. \A q \in Panes : /\ pane'[q].sidecar = pane[q].sidecar
                             /\ \/ pane'[q].ring = pane[q].ring /\ q # p
                                \/ q = p /\ pane'[q].ring = n
        BY <3>2 DEF PaneRings
      <3>4. \A q \in Panes : RingOf(taken, q) => q = p
        BY DEF RingOf
      <3>. QED BY <2>1, <3>3, <3>4 DEF Bound
    <2>2. CASE ConsumeRing
      <3>1. ReleaseRing(p, taken.ring) /\ taken.kind = "ring" /\ pane[p].sidecar # Nobody
        BY <2>2 DEF ConsumeRing, Consuming
      <3>2. RingOf(taken, p)
        BY <3>1 DEF RingOf
      <3>. QED BY <2>1, <3>1, <3>2
    <2>3. CASE ConsumeBrokenRing
      <3>1. ReleaseRing(p, 0)
        BY <2>3 DEF ConsumeBrokenRing
      <3>. QED BY <2>1, <3>1
    <2>4. CASE ConsumeEnded
      <3>1. ReleaseRing(p, 0)
        BY <2>4 DEF ConsumeEnded
      <3>. QED BY <2>1, <3>1
    <2>5. CASE RefuseRing
      <3>1. pane' = pane /\ pane[p].sidecar = Nobody
        BY <2>5 DEF RefuseRing, channelVars
      <3>2. \A q \in Panes : RingOf(taken, q) => q = p
        BY DEF RingOf
      <3>. QED BY <3>1, <3>2 DEF Bound
    <2>6. CASE ConsumeFrame
      <3>1. pane' = [pane EXCEPT ![p].displayed = taken.slot] /\ taken.kind # "ring"
        BY <2>6 DEF ConsumeFrame, Consuming
      <3>2. \A q \in Panes : /\ pane[q] \in PaneRings
                             /\ \/ pane'[q] = pane[q]
                                \/ pane'[q] = [pane[q] EXCEPT !.displayed = taken.slot]
        BY <1>1, <3>1
      <3>3. \A q \in Panes : pane'[q].sidecar = pane[q].sidecar /\ pane'[q].ring = pane[q].ring
        BY <3>2 DEF PaneRings
      <3>. QED BY <3>1, <3>3 DEF Bound, RingOf
    <2>7. CASE ConsumeHello \/ ConsumeGap \/ RefuseFrame
      <3>1. pane' = pane /\ taken.kind # "ring"
        BY <2>7 DEF ConsumeHello, ConsumeGap, RefuseFrame, Consuming, channelVars
      <3>. QED BY <3>1 DEF Bound, RingOf
    <2>. QED BY <2>2, <2>3, <2>4, <2>5, <2>6, <2>7 DEF Consume
  <1>4. Bound'
    <2>1. \A c \in Callers : at'[c] = at[c]
      BY <1>1, ThreadsApart DEF Typing, ThreadsTyped
    <2>. QED BY <1>1, <1>3, <2>1 DEF Bound
  <1>. QED BY <1>1, <1>2, <1>3, <1>4

LEMMA StreamShort ==
  ASSUME Typing, Threading PROVE open.registered \/ Len(Stream) <= 1
  <1>1. CASE ~open.registered /\ AtWork
    <2>1. Stream = <<taken>> \o <<>> /\ taken \in Messages
      BY <1>1, StreamTyped DEF Stream
    <2>. QED BY <2>1
  <1>2. CASE ~open.registered /\ ~AtWork
    <2>1. Stream = <<>> \o <<>>
      BY <1>2 DEF Stream
    <2>. QED BY <2>1
  <1>. QED BY <1>1, <1>2

LEMMA InHand ==
  ASSUME NEW m \in Messages, NEW q \in Seq(Messages), NEW b \in BOOLEAN
  PROVE  <<m>> \o (IF b THEN q ELSE <<>>) \in Seq(Messages)
  OBVIOUS

LEMMA StreamTypedNext ==
  ASSUME Typing', Threading' PROVE Stream' \in Seq(Messages)
  <1>1. /\ inbox' \in Seq(Messages) /\ (AtWork' => taken' \in Messages)
        /\ open'.registered \in BOOLEAN
    BY DEF Typing, ChannelTyped, SidecarsTyped, Threading, AtWork
  <1>2. CASE AtWork'
    BY <1>1, <1>2, InHand DEF Stream
  <1>3. CASE ~AtWork'
    <2>1. Stream' = <<>> \o (IF open'.registered THEN inbox' ELSE <<>>)
      BY <1>3 DEF Stream
    <2>. QED BY <1>1, <2>1
  <1>. QED BY <1>1, <1>2, <1>3

LEMMA StillOrder ==
  ASSUME Typing, Typing', Threading, Threading', Ordered, Still PROVE Ordered'
  <1>1. /\ Stream \in Seq(Messages) /\ Stream' \in Seq(Messages)
        /\ \A p \in Panes : Held'[p] \in {0, Held[p]}
        /\ current \in [Sidecars -> [Panes -> 0 .. MaxRings]] /\ current' = current
        /\ open.registered \in BOOLEAN /\ open'.registered \in BOOLEAN
    <2>1. Stream' \in Seq(Messages) /\ open'.registered \in BOOLEAN
      BY StreamTypedNext DEF Typing, ChannelTyped
    <2>2. \A p \in Panes : Held'[p] \in {0, Held[p]}
      BY DEF Still, Held
    <2>. QED BY <2>1, <2>2, StreamTyped, HeldTyped DEF Still
  <1>2. InOrder(Stream, Held, current, open.registered)
    BY DEF Ordered
  <1>3. /\ Len(Stream') <= Len(Stream) /\ \A k \in 1 .. Len(Stream') : Stream'[k] = Stream[k]
        /\ open'.registered => open.registered /\ Len(Stream') = Len(Stream)
    BY <1>1 DEF Still
  <1>4. PICK q, g, b, s, h, d : /\ q = Stream /\ g = Held /\ b = open.registered
                                /\ s = Stream' /\ h = Held' /\ d = open'.registered
    OBVIOUS
  <1>5. /\ q \in Seq(Messages) /\ s \in Seq(Messages) /\ b \in BOOLEAN /\ d \in BOOLEAN
        /\ Begins(s, q) /\ (d => b /\ Len(s) = Len(q))
    BY <1>1, <1>3, <1>4 DEF Begins
  <1>6. Fewer(h, g)
    BY <1>1, <1>4 DEF Fewer
  <1>7. InOrder(q, g, current, b)
    BY <1>2, <1>4
  <1>8. current \in [Sidecars -> [Panes -> 0 .. MaxRings]]
    BY <1>1
  <1>9. InOrder(s, h, current, d)
    BY <1>5, <1>6, <1>7, <1>8, OrderFewer
  <1>. QED BY <1>1, <1>4, <1>9 DEF Ordered

LEMMA ConsumeOrder ==
  ASSUME Typing, Typing', Threading, Bound, Ordered, Consume PROVE Ordered'
  <1>1. /\ Stream \in Seq(Messages) /\ Stream # <<>> /\ Stream[1] = taken /\ Stream' = Tail(Stream)
        /\ UNCHANGED <<open, current>>
        /\ Held \in [Panes -> 0 .. MaxRings] /\ \A p \in Panes : Held[p] = pane[p].ring
        /\ current \in [Sidecars -> [Panes -> 0 .. MaxRings]] /\ open.registered \in BOOLEAN
    BY StreamTyped, StreamTail, ConsumeHolds, HeldTyped
  <1>2. Held' \in [Panes -> 0 .. MaxRings] /\ \A p \in Panes : Held'[p] = pane'[p].ring
    <2>1. \A p \in Panes : pane'[p] \in PaneRings
      BY DEF Typing, ChannelTyped
    <2>2. \A p \in Panes : pane'[p].ring \in 0 .. MaxRings
      BY <2>1 DEF PaneRings
    <2>. QED BY <2>2 DEF Held
  <1>3. \A p \in Panes : IF RingOf(Stream[1], p) THEN Held'[p] \in {0, Stream[1].ring}
                         ELSE Held'[p] \in {0, Held[p]}
    BY <1>1, <1>2, ConsumeHolds
  <1>4. open.registered \/ Len(Stream) = 1
    <2>1. Len(Stream) > 0 /\ Len(Stream) \in Nat
      BY <1>1, Elements
    <2>2. open.registered \/ Len(Stream) <= 1
      BY StreamShort
    <2>3. CASE open.registered
      BY <2>3
    <2>4. CASE Len(Stream) <= 1
      BY <2>1, <2>4
    <2>. QED BY <2>2, <2>3, <2>4
  <1>5. InOrder(Stream, Held, current, open.registered)
    BY DEF Ordered
  <1>6. InOrder(Tail(Stream), Held', current, open.registered)
    BY <1>1, <1>2, <1>3, <1>4, <1>5, OrderTail
  <1>. QED BY <1>1, <1>6 DEF Ordered

-----------------------------------------------------------------------------
(* Where a surface is *)

\* The messages q signal it, the sends `out' carry it, the reply ports `back' hold it.
Signals(q, x) == \E k \in DOMAIN q : Signaled(q[k], x)
SignalsOnce(q, x) == \A j, k \in DOMAIN q : Signaled(q[j], x) /\ Signaled(q[k], x) => j = k
Carries(out, x) == \E k \in DOMAIN out : out[k].surface = x
CarriesOnce(out, x) == \A j, k \in DOMAIN out : out[j].surface = x /\ out[k].surface = x => j = k
Holds(back, x) == \E s \in Sidecars : \E k \in DOMAIN back[s] : back[s][k] = x
HoldsOnce(back, x) ==
  \A s, r \in Sidecars : \A j \in DOMAIN back[s], k \in DOMAIN back[r] :
    back[s][j] = x /\ back[r][k] = x => s = r /\ j = k

LEMMA SignalsTail ==
  ASSUME NEW q \in Seq(Messages), q # <<>>, NEW x
  PROVE  /\ Signals(q, x) <=> Signaled(q[1], x) \/ Signals(Tail(q), x)
         /\ SignalsOnce(q, x) => /\ SignalsOnce(Tail(q), x)
                                 /\ Signaled(q[1], x) => ~Signals(Tail(q), x)
  <1> DEFINE n == Len(q)
             z == Tail(q)
  <1>1. /\ n \in Nat /\ n > 0 /\ DOMAIN q = 1 .. n /\ DOMAIN z = 1 .. n - 1
        /\ \A k \in 1 .. n - 1 : z[k] = q[k + 1]
    BY Elements
  <1> HIDE DEF n, z
  <1>2. /\ 1 \in 1 .. n /\ \A k \in 1 .. n - 1 : k + 1 \in 1 .. n /\ k + 1 # 1
        /\ \A k \in 1 .. n : k = 1 \/ (k - 1 \in 1 .. n - 1 /\ z[k - 1] = q[k])
    BY <1>1
  <1>3. Signals(q, x) <=> Signaled(q[1], x) \/ Signals(z, x)
    BY <1>1, <1>2 DEF Signals
  <1>4. ASSUME SignalsOnce(q, x), NEW j \in DOMAIN z, NEW k \in DOMAIN z, Signaled(z[j], x), Signaled(z[k], x)
        PROVE  j = k
    <2>1. j + 1 = k + 1
      BY <1>1, <1>2, <1>4 DEF SignalsOnce
    <2>. QED BY <1>1, <2>1
  <1>5. ASSUME SignalsOnce(q, x), Signaled(q[1], x), NEW k \in DOMAIN z, Signaled(z[k], x)
        PROVE  FALSE
    <2>1. k + 1 = 1
      BY <1>1, <1>2, <1>5 DEF SignalsOnce
    <2>. QED BY <1>1, <1>2, <2>1
  <1>6. SignalsOnce(q, x) => SignalsOnce(z, x) /\ (Signaled(q[1], x) => ~Signals(z, x))
    BY <1>4, <1>5 DEF SignalsOnce, Signals
  <1>. QED BY <1>3, <1>6 DEF z

LEMMA SignalsAppend ==
  ASSUME NEW q \in Seq(Messages), NEW m \in Messages, NEW x
  PROVE  /\ Signals(Append(q, m), x) <=> Signaled(m, x) \/ Signals(q, x)
         /\ SignalsOnce(q, x) /\ (Signaled(m, x) => ~Signals(q, x)) => SignalsOnce(Append(q, m), x)
  <1> DEFINE n == Len(q)
             z == Append(q, m)
  <1>1. /\ n \in Nat /\ DOMAIN q = 1 .. n /\ DOMAIN z = 1 .. n + 1 /\ z[n + 1] = m
        /\ \A k \in 1 .. n : z[k] = q[k]
    BY Elements
  <1> HIDE DEF n, z
  <1>2. n + 1 \in 1 .. n + 1 /\ \A k \in 1 .. n + 1 : k = n + 1 \/ k \in 1 .. n
    BY <1>1
  <1>3. Signals(z, x) <=> Signaled(m, x) \/ Signals(q, x)
    <2>1. \A k \in 1 .. n : k \in 1 .. n + 1
      BY <1>1
    <2>. QED BY <1>1, <1>2, <2>1 DEF Signals
  <1>4. SignalsOnce(q, x) /\ (Signaled(m, x) => ~Signals(q, x)) => SignalsOnce(z, x)
    BY <1>1, <1>2 DEF Signals, SignalsOnce
  <1>. QED BY <1>3, <1>4 DEF z

LEMMA SignalsBegins ==
  ASSUME NEW q \in Seq(Messages), NEW s \in Seq(Messages), Begins(s, q), NEW x
  PROVE  /\ Signals(s, x) => Signals(q, x)
         /\ SignalsOnce(q, x) => SignalsOnce(s, x)
  <1>1. \A k \in DOMAIN s : k \in DOMAIN q /\ s[k] = q[k]
    BY Elements DEF Begins
  <1>. QED BY <1>1 DEF Signals, SignalsOnce

LEMMA CarriesTail ==
  ASSUME NEW q \in Seq(Sends), q # <<>>, NEW x
  PROVE  /\ Carries(q, x) <=> Head(q).surface = x \/ Carries(Tail(q), x)
         /\ CarriesOnce(q, x) => /\ CarriesOnce(Tail(q), x)
                                 /\ Head(q).surface = x => ~Carries(Tail(q), x)
  <1> DEFINE n == Len(q)
             z == Tail(q)
             m == Head(q)
  <1>1. /\ n \in Nat /\ n > 0 /\ DOMAIN q = 1 .. n /\ DOMAIN z = 1 .. n - 1 /\ m = q[1]
        /\ \A k \in 1 .. n - 1 : z[k] = q[k + 1]
    BY Elements
  <1> HIDE DEF n, z, m
  <1>2. /\ 1 \in 1 .. n /\ \A k \in 1 .. n - 1 : k + 1 \in 1 .. n /\ k + 1 # 1
        /\ \A k \in 1 .. n : k = 1 \/ (k - 1 \in 1 .. n - 1 /\ z[k - 1] = q[k])
    BY <1>1
  <1>3. Carries(q, x) <=> m.surface = x \/ Carries(z, x)
    <2>1. ASSUME NEW k \in 1 .. n, q[k].surface = x PROVE m.surface = x \/ Carries(z, x)
      <3>1. CASE k = 1
        BY <1>1, <2>1, <3>1
      <3>2. CASE k # 1
        BY <1>1, <1>2, <2>1, <3>2 DEF Carries
      <3>. QED BY <3>1, <3>2
    <2>2. ASSUME m.surface = x \/ Carries(z, x) PROVE Carries(q, x)
      <3>1. CASE m.surface = x
        BY <1>1, <1>2, <3>1 DEF Carries
      <3>2. ASSUME NEW k \in 1 .. n - 1, z[k].surface = x PROVE Carries(q, x)
        <4>1. k + 1 \in DOMAIN q /\ q[k + 1].surface = x
          BY <1>1, <1>2, <3>2
        <4>. QED BY <4>1 DEF Carries
      <3>. QED BY <1>1, <2>2, <3>1, <3>2 DEF Carries
    <2>. QED BY <1>1, <2>1, <2>2 DEF Carries
  <1>4. ASSUME CarriesOnce(q, x), NEW j \in DOMAIN z, NEW k \in DOMAIN z, z[j].surface = x, z[k].surface = x
        PROVE  j = k
    <2>1. /\ j + 1 \in DOMAIN q /\ q[j + 1].surface = x
          /\ k + 1 \in DOMAIN q /\ q[k + 1].surface = x
      BY <1>1, <1>2, <1>4
    <2>2. j + 1 = k + 1
      BY <1>4, <2>1 DEF CarriesOnce
    <2>. QED BY <1>1, <1>4, <2>2
  <1>5. ASSUME CarriesOnce(q, x), m.surface = x, NEW k \in DOMAIN z, z[k].surface = x
        PROVE  FALSE
    <2>1. /\ 1 \in DOMAIN q /\ q[1].surface = x
          /\ k + 1 \in DOMAIN q /\ q[k + 1].surface = x
      BY <1>1, <1>2, <1>5
    <2>2. k + 1 = 1
      BY <1>5, <2>1 DEF CarriesOnce
    <2>. QED BY <1>1, <1>5, <2>2
  <1>6. CarriesOnce(q, x) => CarriesOnce(z, x) /\ (m.surface = x => ~Carries(z, x))
    BY <1>4, <1>5 DEF CarriesOnce, Carries
  <1>. QED BY <1>3, <1>6 DEF z, m

LEMMA HoldsEmptied ==
  ASSUME NEW back \in [Sidecars -> Seq(Surfaces)], NEW s \in Sidecars, NEW x,
         NEW b, b = [back EXCEPT ![s] = <<>>]
  PROVE  (Holds(b, x) => Holds(back, x)) /\ (HoldsOnce(back, x) => HoldsOnce(b, x))
  <1>1. \A r \in Sidecars : b[r] = back[r] \/ DOMAIN b[r] = {}
    OBVIOUS
  <1>2. \A r \in Sidecars : \A k \in DOMAIN b[r] : k \in DOMAIN back[r] /\ b[r][k] = back[r][k]
    BY <1>1
  <1>. QED BY <1>2 DEF Holds, HoldsOnce

LEMMA HoldsTail ==
  ASSUME NEW back \in [Sidecars -> Seq(Surfaces)], NEW s \in Sidecars, back[s] # <<>>, NEW x,
         NEW b, b[s] = Tail(back[s]), \A r \in Sidecars : r # s => b[r] = back[r]
  PROVE  /\ Holds(b, x) => Holds(back, x)
         /\ Head(back[s]) = x => Holds(back, x)
         /\ HoldsOnce(back, x) => HoldsOnce(b, x) /\ (Head(back[s]) = x => ~Holds(b, x))
  <1> DEFINE q == back[s]
             n == Len(q)
  <1>1. /\ q \in Seq(Surfaces) /\ b[s] = Tail(q) /\ \A r \in Sidecars : r # s => b[r] = back[r]
    OBVIOUS
  <1>2. /\ n \in Nat /\ n > 0 /\ DOMAIN q = 1 .. n /\ DOMAIN b[s] = 1 .. n - 1 /\ Head(q) = q[1]
        /\ \A k \in 1 .. n - 1 : b[s][k] = q[k + 1]
    BY <1>1, Elements
  <1>3. 1 \in 1 .. n /\ \A k \in 1 .. n - 1 : k + 1 \in 1 .. n /\ k + 1 # 1
    BY <1>2
  <1> DEFINE At(r, k) == IF r = s THEN k + 1 ELSE k
  <1>4. \A r \in Sidecars : \A k \in DOMAIN b[r] :
          At(r, k) \in DOMAIN back[r] /\ b[r][k] = back[r][At(r, k)] /\ (r = s => At(r, k) # 1)
    BY <1>1, <1>2, <1>3
  <1>5. \A r \in Sidecars : \A j, k \in DOMAIN b[r] : At(r, j) = At(r, k) => j = k
    <2>1. \A j, k \in DOMAIN b[s] : j + 1 = k + 1 => j = k
      BY <1>2
    <2>. QED BY <2>1
  <1> HIDE DEF At, n
  <1>6. Holds(b, x) => Holds(back, x)
    BY <1>4 DEF Holds
  <1>7. Head(q) = x => Holds(back, x)
    BY <1>2, <1>3 DEF Holds
  <1>8. HoldsOnce(back, x) => HoldsOnce(b, x)
    BY <1>4, <1>5 DEF HoldsOnce
  <1>9. ASSUME HoldsOnce(back, x), Head(q) = x, NEW r \in Sidecars, NEW k \in DOMAIN b[r], b[r][k] = x
        PROVE  FALSE
    <2>1. 1 \in DOMAIN back[s] /\ back[s][1] = x
      BY <1>2, <1>3, <1>9
    <2>2. At(r, k) \in DOMAIN back[r] /\ back[r][At(r, k)] = x
      BY <1>4, <1>9
    <2>3. r = s /\ At(r, k) = 1
      BY <1>9, <2>1, <2>2 DEF HoldsOnce
    <2>. QED BY <1>4, <1>9, <2>3
  <1>. QED BY <1>6, <1>7, <1>8, <1>9 DEF Holds

LEMMA HoldsAppend ==
  ASSUME NEW back \in [Sidecars -> Seq(Surfaces)], NEW s \in Sidecars, NEW y \in Surfaces, NEW x,
         NEW b, b[s] = Append(back[s], y), \A r \in Sidecars : r # s => b[r] = back[r]
  PROVE  /\ Holds(b, x) => Holds(back, x) \/ y = x
         /\ HoldsOnce(back, x) /\ (y = x => ~Holds(back, x)) => HoldsOnce(b, x)
  <1> DEFINE q == back[s]
             n == Len(q)
  <1>1. /\ q \in Seq(Surfaces) /\ b[s] = Append(q, y) /\ \A r \in Sidecars : r # s => b[r] = back[r]
    OBVIOUS
  <1>2. /\ n \in Nat /\ DOMAIN q = 1 .. n /\ DOMAIN b[s] = 1 .. n + 1 /\ b[s][n + 1] = y
        /\ \A k \in 1 .. n : b[s][k] = q[k]
    BY <1>1, Elements
  <1>3. \A k \in 1 .. n + 1 : k = n + 1 \/ k \in 1 .. n
    BY <1>2
  <1> HIDE DEF n
  <1>4. ASSUME NEW r \in Sidecars, NEW k \in DOMAIN b[r]
        PROVE  (k \in DOMAIN back[r] /\ b[r][k] = back[r][k]) \/ (r = s /\ k = n + 1 /\ b[r][k] = y)
    <2>1. \A i \in DOMAIN b[s] : (i \in DOMAIN back[s] /\ b[s][i] = back[s][i]) \/ (i = n + 1 /\ b[s][i] = y)
      BY <1>2, <1>3
    <2>2. CASE r = s
      BY <2>1, <2>2, <1>4
    <2>3. CASE r # s
      BY <1>1, <1>4, <2>3
    <2>. QED BY <2>2, <2>3
  <1>5. Holds(b, x) => Holds(back, x) \/ y = x
    BY <1>4 DEF Holds
  <1>6. ASSUME HoldsOnce(back, x), y = x => ~Holds(back, x),
               NEW r \in Sidecars, NEW t \in Sidecars, NEW j \in DOMAIN b[r], NEW k \in DOMAIN b[t],
               b[r][j] = x, b[t][k] = x
        PROVE  r = t /\ j = k
    <2>1. CASE y = x
      BY <1>4, <1>6, <2>1 DEF Holds
    <2>2. CASE y # x
      BY <1>4, <1>6, <2>2 DEF HoldsOnce
    <2>. QED BY <2>1, <2>2
  <1>. QED BY <1>5, <1>6 DEF HoldsOnce

-----------------------------------------------------------------------------
(* A surface is in one place *)

InFlight(x) == Signals(Stream, x)
Displayed(x) == \E p \in Panes : x = Picture(p)
Sending(x) == Carries(sends, x)
Returned(x) == Holds(returned, x)
Abroad(x) == InFlight(x) \/ Displayed(x) \/ Sending(x) \/ Returned(x)

\* The sidecar draws in the ring of the surface.
Live(x) == current[rings[x[1]].sidecar][rings[x[1]].pane] = x[1]

\* A surface that is signaled is signaled once and not displayed or on its way back,
\* and one displayed is not on its way back.  The sidecar knows so while it draws in
\* the ring; then the surface comes back once.
Exclusive(x) ==
  /\ SignalsOnce(Stream, x)
  /\ InFlight(x) => ~Displayed(x) /\ ~Sending(x) /\ ~Returned(x)
  /\ Displayed(x) => ~Sending(x) /\ ~Returned(x)
  /\ Abroad(x) => x[1] \in DOMAIN rings
  /\ x[1] \in DOMAIN rings /\ Live(x) =>
       /\ Abroad(x) => x \in away
       /\ Sending(x) => ~Returned(x)
       /\ CarriesOnce(sends, x) /\ HoldsOnce(returned, x)

Exclusively == \A x \in Surfaces : Exclusive(x)

\* Nothing new becomes of the surface.
LEMMA Subsides ==
  ASSUME NEW x, Exclusive(x), x[1] \in DOMAIN rings => x[1] \in DOMAIN rings',
         InFlight(x)' => InFlight(x), SignalsOnce(Stream, x) => SignalsOnce(Stream', x),
         Displayed(x)' => Displayed(x),
         Sending(x)' => Sending(x), CarriesOnce(sends, x) => CarriesOnce(sends', x),
         Returned(x)' => Returned(x), HoldsOnce(returned, x) => HoldsOnce(returned', x),
         x[1] \in DOMAIN rings /\ Live(x)' => Live(x) /\ (x \in away => x \in away')
  PROVE  Exclusive(x)'
  <1>1. Abroad(x)' => Abroad(x)
    BY DEF Abroad
  <1>2. Sending(x)' \/ CarriesOnce(sends', x)
    BY DEF Sending, Carries, CarriesOnce
  <1>3. Returned(x)' \/ HoldsOnce(returned', x)
    BY DEF Returned, Holds, HoldsOnce
  <1>4. CASE x[1] \in DOMAIN rings
    BY <1>1, <1>4 DEF Exclusive
  <1>5. CASE x[1] \notin DOMAIN rings
    <2>1. ~Abroad(x)' /\ ~InFlight(x)' /\ ~Displayed(x)' /\ ~Sending(x)' /\ ~Returned(x)'
      BY <1>1, <1>5 DEF Exclusive, Abroad
    <2>2. SignalsOnce(Stream', x)
      BY DEF Exclusive
    <2>. QED BY <1>2, <1>3, <2>1, <2>2 DEF Exclusive
  <1>. QED BY <1>4, <1>5

LEMMA NoneApart == None \notin Slots
  <1> DEFINE n == Cardinality(Slots)
  <1>1. n \in Nat /\ Slots = 0 .. n - 1
    BY SlotsAssumption, FS_CardinalityType
  <1> HIDE DEF n
  <1>. QED BY <1>1 DEF None

LEMMA StillExclusive ==
  ASSUME Typing, Typing', Threading, Threading', Exclusively, Still PROVE Exclusively'
  <1>1. PICK q, s : q = Stream /\ s = Stream'
    OBVIOUS
  <1>2. q \in Seq(Messages) /\ s \in Seq(Messages) /\ Begins(s, q)
    <2>1. q \in Seq(Messages)
      BY <1>1, StreamTyped
    <2>2. s \in Seq(Messages)
      BY <1>1, StreamTypedNext
    <2>3. Begins(s, q)
      <3>1. CASE s = q
        BY <2>1, <3>1, Elements DEF Begins
      <3>2. CASE s # q
        BY <1>1, <3>2 DEF Still, Begins
      <3>. QED BY <3>1, <3>2
    <2>. QED BY <2>1, <2>2, <2>3
  <1>3. ASSUME NEW x \in Surfaces PROVE Exclusive(x)'
    <2>1. /\ InFlight(x)' => InFlight(x)
          /\ SignalsOnce(Stream, x) => SignalsOnce(Stream', x)
      BY <1>1, <1>2, SignalsBegins DEF InFlight
    <2>2. Displayed(x)' => Displayed(x)
      BY SurfaceFields DEF Displayed, Picture, Still
    <2>3. UNCHANGED <<rings, current, away, sends, returned>>
      BY DEF Still
    <2>4. Exclusive(x)
      BY DEF Exclusively
    <2>5. (Sending(x)' <=> Sending(x)) /\ (Returned(x)' <=> Returned(x)) /\ (Live(x)' <=> Live(x))
      BY <2>3 DEF Sending, Returned, Live
    <2>. QED BY <2>1, <2>2, <2>3, <2>4, <2>5, Subsides
  <1>. QED BY <1>3 DEF Exclusively

LEMMA SendReleasedExclusive ==
  ASSUME Typing, Threading, Bound, Exclusively, SendReleased PROVE Exclusively'
  <1>1. PICK out, y, b : out = sends /\ y = Head(sends).surface /\ b = returned'
    OBVIOUS
  <1>2. /\ UNCHANGED <<rings, current, away, pane>> /\ Stream' = Stream
        /\ out \in Seq(Sends) /\ out # <<>> /\ sends' = Tail(out) /\ y = Head(out).surface
        /\ b = returned \/ \E s \in Sidecars : b = [returned EXCEPT ![s] = Append(@, y)]
        /\ returned \in [Sidecars -> Seq(Surfaces)]
    BY <1>1, SendReleasedKeeps DEF Typing, ThreadsTyped, SidecarsTyped
  <1>3. y \in Surfaces
    <2>1. Head(out) \in Sends
      BY <1>2
    <2>. QED BY <1>2, <2>1 DEF Sends
  <1>4. ASSUME NEW x \in Surfaces PROVE Exclusive(x)'
    <2>1. /\ Exclusive(x) /\ (InFlight(x)' <=> InFlight(x)) /\ (Displayed(x)' <=> Displayed(x))
          /\ Live(x)' <=> Live(x)
      BY <1>2 DEF Exclusively, InFlight, Displayed, Picture, Live
    <2>2. /\ Sending(x) <=> y = x \/ Sending(x)'
          /\ CarriesOnce(sends, x) => CarriesOnce(sends', x) /\ (y = x => ~Sending(x)')
      BY <1>1, <1>2, CarriesTail DEF Sending
    <2>3. /\ Returned(x)' => Returned(x) \/ y = x
          /\ HoldsOnce(returned, x) /\ (y = x => ~Returned(x)) => HoldsOnce(returned', x)
      <3>1. CASE b = returned
        BY <1>1, <3>1 DEF Returned
      <3>2. CASE \E s \in Sidecars : b = [returned EXCEPT ![s] = Append(@, y)]
        <4>1. PICK s \in Sidecars : b = [returned EXCEPT ![s] = Append(@, y)]
          BY <3>2
        <4>2. /\ Holds(b, x) => Holds(returned, x) \/ y = x
              /\ HoldsOnce(returned, x) /\ (y = x => ~Holds(returned, x)) => HoldsOnce(b, x)
          <5>1. returned \in [Sidecars -> Seq(Surfaces)]
            BY <1>2
          <5>2. b[s] = Append(returned[s], y) /\ \A r \in Sidecars : r # s => b[r] = returned[r]
            BY <4>1, <5>1
          <5>. QED BY <1>3, <5>1, <5>2, HoldsAppend, ZenonT(60)
        <4>. QED BY <1>1, <4>2 DEF Returned
      <3>. QED BY <1>2, <3>1, <3>2
    <2>4. CASE y # x
      BY <1>2, <2>1, <2>2, <2>3, <2>4, Subsides
    <2>5. CASE y = x
      <3>1. Sending(x) /\ Abroad(x) /\ ~InFlight(x) /\ ~Displayed(x) /\ x[1] \in DOMAIN rings
        BY <2>1, <2>2, <2>5 DEF Exclusive, Abroad
      <3>2. SignalsOnce(Stream', x)
        BY <1>2, <2>1 DEF Exclusive
      <3>3. Live(x) => /\ x \in away /\ ~Returned(x) /\ ~Sending(x)'
                       /\ CarriesOnce(sends', x) /\ HoldsOnce(returned', x)
        BY <2>1, <2>2, <2>3, <2>5, <3>1 DEF Exclusive
      <3>. QED BY <1>2, <2>1, <3>1, <3>2, <3>3 DEF Exclusive
    <2>. QED BY <2>4, <2>5
  <1>. QED BY <1>4 DEF Exclusively

\* What a sidecar sends is signaled if it was not abroad.
LEMMA SidecarExclusive ==
  ASSUME Typing, Threading, RingsKnown, Exclusively, NEW s \in Sidecars, Sidecar(s)
  PROVE  Exclusively'
  <1>1. /\ UNCHANGED <<pane, open, at, taken, sends>>
        /\ rings \in Seq([pane : Panes, sidecar : Sidecars]) /\ Len(rings) + 1 \notin DOMAIN rings
        /\ current \in [Sidecars -> [Panes -> 0 .. MaxRings]]
        /\ returned \in [Sidecars -> Seq(Surfaces)] /\ Stream \in Seq(Messages)
    BY SidecarAdds, StreamTyped DEF Typing, SidecarsTyped
  <1>2. ASSUME NEW x \in Surfaces
        PROVE  /\ Exclusive(x) /\ (Displayed(x)' <=> Displayed(x)) /\ (Sending(x)' <=> Sending(x))
               /\ x[1] \in DOMAIN rings => rings[x[1]].sidecar \in Sidecars /\ rings[x[1]].pane \in Panes
               /\ x[1] # 0
    <2>1. Exclusive(x) /\ (Displayed(x)' <=> Displayed(x)) /\ (Sending(x)' <=> Sending(x)) /\ x[1] # 0
      BY <1>1, SurfaceFields DEF Exclusively, Displayed, Picture, Sending
    <2>2. x[1] \in DOMAIN rings => rings[x[1]] \in [pane : Panes, sidecar : Sidecars]
      BY <1>1, Elements
    <2>. QED BY <2>1, <2>2
  <1>3. ASSUME NEW m \in Messages, inbox' = Append(inbox, m), NEW x \in Surfaces, ~Signaled(m, x)
        PROVE  /\ InFlight(x)' => InFlight(x)
               /\ SignalsOnce(Stream, x) => SignalsOnce(Stream', x)
    <2>1. Stream' = Append(Stream, m) \/ Stream' = Stream
      BY <1>1, <1>3, StreamAppend
    <2>2. CASE Stream' = Stream
      BY <2>2 DEF InFlight
    <2>3. CASE Stream' = Append(Stream, m)
      BY <1>1, <1>3, <2>3, SignalsAppend DEF InFlight
    <2>. QED BY <2>1, <2>2, <2>3
  <1>4. ASSUME NEW m \in Messages, inbox' = Append(inbox, m), m.kind # "frame", UNCHANGED returned,
               NEW x \in Surfaces,
               x[1] \in DOMAIN rings => x[1] \in DOMAIN rings' /\ rings'[x[1]] = rings[x[1]],
               x[1] \in DOMAIN rings /\ Live(x)' => Live(x) /\ (x \in away => x \in away')
        PROVE  Exclusive(x)'
    <2>1. ~Signaled(m, x)
      BY <1>4 DEF Signaled
    <2>2. (InFlight(x)' => InFlight(x)) /\ (SignalsOnce(Stream, x) => SignalsOnce(Stream', x))
      BY <1>3, <1>4, <2>1
    <2>3. Returned(x)' <=> Returned(x)
      BY <1>4 DEF Returned
    <2>. QED BY <1>1, <1>2, <1>4, <2>2, <2>3, Subsides
  <1>5. CASE SendHello(s)
    <2> DEFINE m == [kind |-> "hello", sidecar |-> s, life |-> life[s] + 1]
    <2>1. /\ inbox' = Append(inbox, m) /\ m.kind # "frame" /\ UNCHANGED rings
          /\ current' = [current EXCEPT ![s] = [p \in Panes |-> 0]] /\ away' = away \ Owned(s)
          /\ returned' = [returned EXCEPT ![s] = <<>>]
      BY <1>5 DEF SendHello
    <2>2. m \in Messages
      BY <1>5, BoundsAssumption DEF SendHello, Typing, SidecarsTyped, Messages, Lives
    <2> HIDE DEF m
    <2>3. ASSUME NEW x \in Surfaces PROVE Exclusive(x)'
      <3>1. ~Signaled(m, x)
        BY <2>1 DEF Signaled
      <3>2. (InFlight(x)' => InFlight(x)) /\ (SignalsOnce(Stream, x) => SignalsOnce(Stream', x))
        BY <1>3, <2>1, <2>2, <3>1
      <3>3. /\ Returned(x)' => Returned(x)
            /\ HoldsOnce(returned, x) => HoldsOnce(returned', x)
        <4>1. PICK b : b = returned'
          OBVIOUS
        <4>2. returned \in [Sidecars -> Seq(Surfaces)] /\ b = [returned EXCEPT ![s] = <<>>]
          BY <1>1, <2>1, <4>1
        <4>3. (Holds(b, x) => Holds(returned, x)) /\ (HoldsOnce(returned, x) => HoldsOnce(b, x))
          BY <4>2, HoldsEmptied
        <4>. QED BY <4>1, <4>3 DEF Returned
      <3>4. x[1] \in DOMAIN rings /\ Live(x)' => Live(x) /\ rings[x[1]].sidecar # s
        BY <1>1, <1>2, <2>1 DEF Live
      <3>5. x[1] \in DOMAIN rings /\ rings[x[1]].sidecar # s => x \notin Owned(s)
        <4>1. \A n : x \in SurfacesOf(n) => n = x[1]
          BY SurfaceFields
        <4>. QED BY <4>1 DEF Owned
      <3>. QED BY <1>1, <1>2, <2>1, <3>2, <3>3, <3>4, <3>5, Subsides
    <2>. QED BY <2>3 DEF Exclusively
  <1>6. CASE TakeReleased(s)
    <2>1. /\ UNCHANGED <<rings, current, inbox>> /\ returned[s] # <<>>
          /\ returned' = [returned EXCEPT ![s] = Tail(@)]
          /\ away' = away \ ({Head(returned[s])} \cap Owned(s))
      BY <1>6 DEF TakeReleased
    <2>2. Stream' = Stream
      BY <1>1, <2>1 DEF Stream, AtWork
    <2>3. PICK y : y = Head(returned[s])
      OBVIOUS
    <2>4. ASSUME NEW x \in Surfaces PROVE Exclusive(x)'
      <3>1. /\ Returned(x)' => Returned(x)
            /\ y = x => Returned(x)
            /\ HoldsOnce(returned, x) => HoldsOnce(returned', x) /\ (y = x => ~Returned(x)')
        <4>1. PICK b : b = returned'
          OBVIOUS
        <4>2. /\ returned \in [Sidecars -> Seq(Surfaces)] /\ returned[s] # <<>>
              /\ b[s] = Tail(returned[s]) /\ \A r \in Sidecars : r # s => b[r] = returned[r]
          BY <1>1, <2>1, <4>1
        <4>3. /\ Holds(b, x) => Holds(returned, x)
              /\ Head(returned[s]) = x => Holds(returned, x)
              /\ HoldsOnce(returned, x) => HoldsOnce(b, x) /\ (Head(returned[s]) = x => ~Holds(b, x))
          BY <4>2, HoldsTail
        <4>. QED BY <2>3, <4>1, <4>3 DEF Returned
      <3>2. (InFlight(x)' <=> InFlight(x)) /\ (Live(x)' <=> Live(x))
        BY <2>1, <2>2 DEF InFlight, Live
      <3>3. CASE y # x
        <4>1. x \in away => x \in away'
          BY <2>1, <2>3, <3>3
        <4>. QED BY <1>1, <1>2, <2>1, <2>2, <3>1, <3>2, <4>1, Subsides
      <3>4. CASE y = x
        <4>1. Returned(x) /\ Abroad(x) /\ ~InFlight(x) /\ ~Displayed(x) /\ x[1] \in DOMAIN rings
          BY <1>2, <3>1, <3>4 DEF Exclusive, Abroad
        <4>2. SignalsOnce(Stream', x)
          BY <1>2, <2>2 DEF Exclusive
        <4>3. Live(x) => /\ ~Sending(x) /\ ~Returned(x)' /\ CarriesOnce(sends', x)
                         /\ HoldsOnce(returned', x)
          BY <1>1, <1>2, <3>1, <3>4, <4>1 DEF Exclusive
        <4>4. ~InFlight(x)' /\ ~Displayed(x)'
          BY <1>2, <3>2, <4>1
        <4>5. Abroad(x)' => ~Live(x)'
          BY <1>2, <3>2, <4>3, <4>4 DEF Abroad
        <4>. QED BY <1>2, <2>1, <3>2, <4>1, <4>2, <4>3, <4>4, <4>5 DEF Exclusive, Abroad
      <3>. QED BY <3>3, <3>4
    <2>. QED BY <2>4 DEF Exclusively
  <1>7. ASSUME NEW p \in Panes, SendRing(s, p) PROVE Exclusively'
    <2> DEFINE n == Len(rings) + 1
               m == [kind |-> "ring", pane |-> p, ring |-> n]
               g == [pane |-> p, sidecar |-> s]
    <2>1. /\ inbox' = Append(inbox, m) /\ m.kind # "frame" /\ rings' = Append(rings, g)
          /\ current' = [current EXCEPT ![s][p] = n] /\ UNCHANGED <<away, returned>>
      BY <1>7 DEF SendRing, Send
    <2>2. m \in Messages
      BY <1>1, <1>7, BoundsAssumption DEF SendRing, Rings, Messages
    <2>3. \A k \in DOMAIN rings : k \in DOMAIN rings' /\ rings'[k] = rings[k] /\ k # n
      BY <1>1, <2>1, AppendKeeps
    <2> HIDE DEF n, m, g
    <2>4. ASSUME NEW x \in Surfaces PROVE Exclusive(x)'
      <3>1. x[1] \in DOMAIN rings /\ Live(x)' => Live(x)
        BY <1>1, <1>2, <2>1, <2>3 DEF Live
      <3>. QED BY <1>4, <2>1, <2>2, <2>3, <3>1
    <2>. QED BY <2>4 DEF Exclusively
  <1>8. ASSUME NEW p \in Panes, SendGap(s, p) PROVE Exclusively'
    <2> DEFINE m == [kind |-> "gap", pane |-> p, ring |-> current[s][p]]
    <2>1. /\ inbox' = Append(inbox, m) /\ m.kind # "frame" /\ UNCHANGED <<rings, current, away, returned>>
      BY <1>8 DEF SendGap, Send
    <2>2. m \in Messages
      <3>1. current[s][p] # 0 /\ current[s][p] \in 0 .. MaxRings
        BY <1>1, <1>8 DEF SendGap
      <3>. QED BY <3>1, BoundsAssumption DEF Messages, Rings
    <2> HIDE DEF m
    <2>3. ASSUME NEW x \in Surfaces PROVE Exclusive(x)'
      <3>1. Live(x)' <=> Live(x)
        BY <2>1 DEF Live
      <3>. QED BY <1>4, <2>1, <2>2, <3>1
    <2>. QED BY <2>3 DEF Exclusively
  <1>9. ASSUME NEW p \in Panes, SendEnded(s, p) PROVE Exclusively'
    <2> DEFINE m == [kind |-> "ended", pane |-> p, ring |-> current[s][p]]
    <2>1. /\ inbox' = Append(inbox, m) /\ m.kind # "frame" /\ UNCHANGED <<rings, returned>>
          /\ current' = [current EXCEPT ![s][p] = 0]
          /\ away' = away \ SurfacesOf(current[s][p])
      BY <1>9 DEF SendEnded, Send
    <2>2. m \in Messages /\ current[s][p] # 0
      <3>1. current[s][p] # 0 /\ current[s][p] \in 0 .. MaxRings
        BY <1>1, <1>9 DEF SendEnded
      <3>. QED BY <3>1, BoundsAssumption DEF Messages, Rings
    <2> HIDE DEF m
    <2>3. ASSUME NEW x \in Surfaces PROVE Exclusive(x)'
      <3>1. \A r \in Sidecars, q \in Panes : current'[r][q] \in {0, current[r][q]}
        BY <1>1, <2>1
      <3>2. x[1] \in DOMAIN rings /\ Live(x)' => Live(x)
        BY <1>2, <2>1, <3>1 DEF Live
      <3>3. ASSUME x[1] \in DOMAIN rings, Live(x)', x \in SurfacesOf(current[s][p]) PROVE FALSE
        <4>1. x[1] = current[s][p]
          BY <3>3, SurfaceFields
        <4>2. rings[x[1]].pane = p /\ rings[x[1]].sidecar = s
          BY <2>2, <4>1 DEF RingsKnown, Announced
        <4>3. current'[s][p] = 0
          BY <1>1, <2>1
        <4>. QED BY <1>2, <2>1, <3>3, <4>2, <4>3 DEF Live
      <3>4. x[1] \in DOMAIN rings /\ Live(x)' => Live(x) /\ (x \in away => x \in away')
        BY <2>1, <3>2, <3>3
      <3>. QED BY <1>4, <2>1, <2>2, <3>4
    <2>. QED BY <2>3 DEF Exclusively
  <1>10. ASSUME NEW p \in Panes, NEW i \in Slots, SendFrame(s, p, i) PROVE Exclusively'
    <2> DEFINE n == current[s][p]
               m == [kind |-> "frame", pane |-> p, ring |-> n, slot |-> i]
               y == <<n, i>>
    <2>1. /\ inbox' = Append(inbox, m) /\ UNCHANGED <<rings, current, returned>>
          /\ n # 0 /\ y \notin away /\ away' = away \cup {y}
      BY <1>10 DEF SendFrame, Send
    <2>2. n \in Rings /\ n \in DOMAIN rings /\ rings[n].pane = p /\ rings[n].sidecar = s
      BY <1>1, <2>1, BoundsAssumption DEF Rings, RingsKnown, Announced
    <2>3. m \in Messages /\ y \in Surfaces /\ y[1] = n
      BY <2>2 DEF Messages, Surfaces
    <2>4. Live(y)
      BY <2>2, <2>3 DEF Live
    <2>5. ~Abroad(y)
      BY <1>2, <2>1, <2>2, <2>3, <2>4 DEF Exclusive
    <2>6. \A x : Signaled(m, x) <=> x = y
      BY <2>3, MessageFields DEF Signaled
    <2> HIDE DEF n, m, y
    <2>7. ASSUME NEW x \in Surfaces PROVE Exclusive(x)'
      <3>1. /\ Live(x)' <=> Live(x)
            /\ Returned(x)' <=> Returned(x)
        BY <2>1 DEF Live, Returned
      <3>2. CASE x # y
        <4>1. (InFlight(x)' => InFlight(x)) /\ (SignalsOnce(Stream, x) => SignalsOnce(Stream', x))
          BY <1>3, <2>1, <2>3, <2>6, <3>2
        <4>. QED BY <1>1, <1>2, <2>1, <3>1, <4>1, Subsides
      <3>3. CASE x = y
        <4>1. ~InFlight(x) /\ ~Displayed(x) /\ ~Sending(x) /\ ~Returned(x)
          BY <2>5, <3>3 DEF Abroad
        <4>2. SignalsOnce(Stream', x)
          <5>1. Stream' = Append(Stream, m) \/ Stream' = Stream
            BY <1>1, <2>1, <2>3, StreamAppend
          <5>2. SignalsOnce(Stream, x) /\ ~Signals(Stream, x)
            BY <1>2, <4>1 DEF Exclusive, InFlight
          <5>. QED BY <1>1, <2>3, <5>1, <5>2, SignalsAppend
        <4>3. CarriesOnce(sends', x) /\ HoldsOnce(returned', x)
          BY <1>1, <2>1, <4>1 DEF Sending, Returned, Carries, Holds, CarriesOnce, HoldsOnce
        <4>. QED BY <1>2, <2>1, <2>2, <2>3, <3>1, <3>3, <4>1, <4>2, <4>3 DEF Exclusive
      <3>. QED BY <3>2, <3>3
    <2>. QED BY <2>7 DEF Exclusively
  <1>. QED BY <1>5, <1>6, <1>7, <1>8, <1>9, <1>10 DEF Sidecar

\* What a message consumed does to the surfaces under way.
LEMMA ConsumeStream ==
  ASSUME Typing, Threading, Bound, Consume, NEW x
  PROVE  /\ InFlight(x) <=> Signaled(taken, x) \/ InFlight(x)'
         /\ SignalsOnce(Stream, x) => SignalsOnce(Stream', x) /\ (Signaled(taken, x) => ~InFlight(x)')
         /\ ~Sending(x) /\ (Returned(x)' <=> Returned(x)) /\ (Live(x)' <=> Live(x))
         /\ HoldsOnce(returned, x) => HoldsOnce(returned', x)
  <1>1. PICK q : q = Stream
    OBVIOUS
  <1>2. /\ q \in Seq(Messages) /\ q # <<>> /\ q[1] = taken /\ Stream' = Tail(q)
        /\ UNCHANGED <<rings, current, returned>> /\ sends = <<>>
    BY <1>1, StreamTyped, StreamTail, ConsumeHolds
  <1>3. /\ Signals(q, x) <=> Signaled(q[1], x) \/ Signals(Tail(q), x)
        /\ SignalsOnce(q, x) => SignalsOnce(Tail(q), x) /\ (Signaled(q[1], x) => ~Signals(Tail(q), x))
    BY <1>2, SignalsTail
  <1>4. /\ InFlight(x) <=> Signaled(taken, x) \/ InFlight(x)'
        /\ SignalsOnce(Stream, x) => SignalsOnce(Stream', x) /\ (Signaled(taken, x) => ~InFlight(x)')
    BY <1>1, <1>2, <1>3 DEF InFlight
  <1>5. ~Sending(x)
    BY <1>2 DEF Sending, Carries
  <1>. QED BY <1>2, <1>4, <1>5 DEF Returned, Live

LEMMA ConsumeRingExclusive ==
  ASSUME Typing, Threading, RingsKnown, Bound, Ordered, Exclusively, ConsumeRing PROVE Exclusively'
  <1>0. PICK p, m, q : p = taken.pane /\ m = pane[p].ring /\ q = Stream
    OBVIOUS
  <1>1. /\ Consume /\ taken.kind = "ring" /\ sends' = OldRing(p)
        /\ pane' = [pane EXCEPT ![p].ring = taken.ring, ![p].displayed = None]
    BY <1>0 DEF Consume, ConsumeRing, Consuming, ReleaseRing
  <1>2. /\ taken \in Messages /\ p \in Panes /\ RingOf(taken, p)
        /\ q \in Seq(Messages) /\ q # <<>> /\ q[1] = taken /\ Stream' = Tail(q)
        /\ UNCHANGED <<rings, current, away>>
    BY <1>0, <1>1, StreamTyped, StreamTail, ConsumeHolds, MessageFields DEF RingOf
  <1>3. /\ Held[p] = m /\ \A r \in Panes : Held[r] = pane[r].ring
        /\ InOrder(q, Held, current, open.registered)
    BY <1>0, <1>2, HeldTyped DEF Ordered
  <1>4. /\ \A r \in Panes : r # p => pane'[r] = pane[r]
        /\ pane'[p].displayed = None
    <2>1. pane \in [Panes -> PaneRings]
      BY DEF Typing, ChannelTyped
    <2>2. \A r \in Panes : r # p => pane'[r] = pane[r]
      BY <1>1, <2>1
    <2>3. pane[p] \in PaneRings /\ pane'[p] = [[pane[p] EXCEPT !.ring = taken.ring] EXCEPT !.displayed = None]
      BY <1>1, <1>2, <2>1
    <2>. QED BY <2>2, <2>3 DEF PaneRings
  <1>5. ASSUME NEW x \in Surfaces, Displayed(x)' PROVE Displayed(x) /\ x[1] # m
    <2>1. PICK r \in Panes : x = <<pane'[r].ring, pane'[r].displayed>>
      BY <1>5 DEF Displayed, Picture
    <2>2. r # p
      <3>1. None \notin Slots
        BY NoneApart
      <3>. QED BY <1>4, <2>1, <3>1, SurfaceFields
    <2>3. pane'[r] = pane[r]
      BY <1>4, <2>2
    <2>4. x = Picture(r) /\ pane[r].ring = x[1] /\ x[1] # 0
      BY <2>1, <2>3, SurfaceFields DEF Picture
    <2>5. m # x[1]
      BY <1>0, <1>2, <2>2, <2>4 DEF RingsKnown, Announced
    <2>. QED BY <2>4, <2>5 DEF Displayed
  <1>6. ASSUME m # 0, NEW x \in Surfaces, x[1] = m, InFlight(x)' PROVE FALSE
    <2>1. 1 \in DOMAIN q /\ \A k \in DOMAIN Tail(q) : /\ k + 1 \in DOMAIN q /\ Tail(q)[k] = q[k + 1]
                                                      /\ 1 \in 1 .. (k + 1) - 1 /\ k + 1 \in Nat
                                                      /\ \A j \in 1 .. (k + 1) - 1 : j \in DOMAIN q
      BY <1>2, Elements
    <2>2. PICK k \in DOMAIN Tail(q) : Signaled(Tail(q)[k], x)
      BY <1>2, <1>6 DEF InFlight, Signals
    <2>3. PICK i, f : i = k + 1 /\ f = q[i]
      OBVIOUS
    <2>4. /\ i \in DOMAIN q /\ 1 \in 1 .. i - 1 /\ \A j \in 1 .. i - 1 : j \in DOMAIN q
          /\ f.kind = "frame" /\ f.ring = m
      BY <1>6, <2>1, <2>2, <2>3, SurfaceFields DEF Signaled
    <2>5. Knows(f)
      BY <1>0, <2>3, <2>4, StreamKnown
    <2>6. f.pane = p
      BY <1>0, <1>2, <1>6, <2>4, <2>5 DEF RingsKnown, Knows, Announced
    <2>7. Finds(q, m, p, m, i)
      BY <1>3, <2>3, <2>4, <2>6 DEF InOrder
    <2>8. CASE \E j \in 1 .. i - 1 : RingOf(q[j], p) /\ q[j].ring = m
      <3>1. PICK j \in 1 .. i - 1 : RingOf(q[j], p) /\ q[j].ring = m
        BY <2>8
      <3>2. j \in DOMAIN q /\ q[j].kind = "ring"
        BY <2>4, <3>1 DEF RingOf
      <3>3. Held[p] # q[j].ring
        BY <1>2, <1>3, <3>2 DEF InOrder
      <3>. QED BY <1>3, <3>1, <3>3
    <2>9. CASE \A j \in 1 .. i - 1 : ~RingOf(q[j], p)
      BY <1>2, <2>4, <2>9
    <2>. QED BY <2>7, <2>8, <2>9 DEF Finds
  <1>7. ASSUME m # 0, NEW x \in Surfaces, x[1] = m, x[1] \in DOMAIN rings, Live(x) PROVE FALSE
    <2>1. rings[m].pane = p /\ rings[m].sidecar \in Sidecars
      <3>1. rings \in Seq([pane : Panes, sidecar : Sidecars]) /\ m \in DOMAIN rings
        BY <1>7 DEF Typing, SidecarsTyped
      <3>2. rings[m] \in [pane : Panes, sidecar : Sidecars]
        BY <3>1, Elements
      <3>3. rings[m].pane = p
        BY <1>0, <1>2, <1>7, <3>1 DEF RingsKnown, Announced
      <3>. QED BY <3>2, <3>3
    <2>2. current[rings[m].sidecar][p] = m
      BY <1>7, <2>1 DEF Live
    <2>3. 1 \in DOMAIN q
      BY <1>2, Elements
    <2>4. ~RingOf(q[1], p)
      BY <1>2, <1>3, <1>7, <2>1, <2>2, <2>3 DEF InOrder
    <2>. QED BY <1>2, <2>4
  <1>8. ASSUME NEW x \in Surfaces, Sending(x)' PROVE x[1] = m /\ m # 0
    <2>1. PICK k \in DOMAIN OldRing(p) : OldRing(p)[k].surface = x
      BY <1>1, <1>8 DEF Sending, Carries
    <2>2. x \in SurfacesOf(m)
      BY <1>0, <1>2, <2>1, OldRingTyped
    <2>. QED BY <2>2, SurfaceFields
  <1>9. ASSUME NEW x \in Surfaces PROVE Exclusive(x)'
    <2>1. /\ Exclusive(x)
          /\ InFlight(x)' => InFlight(x)
          /\ SignalsOnce(Stream, x) => SignalsOnce(Stream', x)
          /\ ~Sending(x) /\ (Returned(x)' <=> Returned(x)) /\ (Live(x)' <=> Live(x))
          /\ HoldsOnce(returned, x) => HoldsOnce(returned', x)
      BY <1>1, ConsumeStream DEF Exclusively
    <2>2. CASE x[1] # m \/ m = 0
      <3>1. ~Sending(x)'
        BY <1>8, <2>2
      <3>2. CarriesOnce(sends', x)
        BY <3>1 DEF Sending, Carries, CarriesOnce
      <3>. QED BY <1>2, <1>5, <2>1, <3>1, <3>2, Subsides
    <2>3. CASE x[1] = m /\ m # 0
      <3>1. ~InFlight(x)' /\ ~Displayed(x)'
        BY <1>5, <1>6, <2>3
      <3>2. x[1] \in DOMAIN rings' /\ ~Live(x)'
        BY <1>0, <1>2, <1>7, <2>1, <2>3 DEF RingsKnown, Announced
      <3>3. SignalsOnce(Stream', x)
        BY <2>1 DEF Exclusive
      <3>. QED BY <3>1, <3>2, <3>3 DEF Exclusive
    <2>. QED BY <2>2, <2>3
  <1>. QED BY <1>9 DEF Exclusively

LEMMA ConsumeFrameExclusive ==
  ASSUME Typing, Threading, RingsKnown, Bound, Ordered, Exclusively, ConsumeFrame PROVE Exclusively'
  <1>0. PICK p, n, i, q, y, z : /\ p = taken.pane /\ n = pane[p].ring /\ i = taken.slot /\ q = Stream
                                /\ y = <<n, i>> /\ z = Picture(p)
    OBVIOUS
  <1>1. /\ Consume /\ taken.kind = "frame" /\ n # 0 /\ sends' = Previous(p, i)
        /\ pane' = [pane EXCEPT ![p].displayed = i]
    BY <1>0 DEF Consume, ConsumeFrame, Consuming
  <1>2. /\ taken \in Messages /\ p \in Panes /\ i \in Slots
        /\ q \in Seq(Messages) /\ q # <<>> /\ q[1] = taken
        /\ UNCHANGED <<rings, current, away>>
    BY <1>0, <1>1, StreamTyped, StreamTail, ConsumeHolds, MessageFields
  <1>3. Signaled(taken, y) /\ y \in Surfaces
    <2>1. Held[p] = n /\ InOrder(q, Held, current, open.registered)
      BY <1>0, <1>2, HeldTyped DEF Ordered
    <2>2. 1 \in DOMAIN q
      BY <1>2, Elements
    <2>3. Finds(q, n, p, taken.ring, 1)
      BY <1>0, <1>1, <1>2, <2>1, <2>2 DEF InOrder
    <2>4. \A j \in 1 .. 1 - 1 : FALSE
      OBVIOUS
    <2>5. n = taken.ring
      BY <1>1, <2>3, <2>4 DEF Finds
    <2>6. n \in Rings
      BY <1>1, <1>2, <2>5, MessageFields
    <2>. QED BY <1>0, <1>1, <1>2, <2>5, <2>6, MessageFields DEF Signaled, Surfaces
  <1>4. /\ \A r \in Panes : r # p => pane'[r] = pane[r]
        /\ pane'[p].ring = n /\ pane'[p].displayed = i
    <2>1. pane \in [Panes -> PaneRings]
      BY DEF Typing, ChannelTyped
    <2>2. \A r \in Panes : r # p => pane'[r] = pane[r]
      BY <1>1, <2>1
    <2>3. pane[p] \in PaneRings /\ pane'[p] = [pane[p] EXCEPT !.displayed = i]
      BY <1>1, <1>2, <2>1
    <2>. QED BY <1>0, <2>2, <2>3 DEF PaneRings
  <1>5. ASSUME NEW x \in Surfaces, Displayed(x)' PROVE x = y \/ (Displayed(x) /\ x # z)
    <2>1. PICK r \in Panes : x = <<pane'[r].ring, pane'[r].displayed>>
      BY <1>5 DEF Displayed, Picture
    <2>2. CASE r = p
      BY <1>0, <1>4, <2>1, <2>2
    <2>3. CASE r # p
      <3>1. x = Picture(r) /\ pane[r].ring = x[1] /\ x[1] # 0
        BY <1>4, <2>1, <2>3, SurfaceFields DEF Picture
      <3>2. n # x[1]
        BY <1>0, <1>1, <1>2, <2>3, <3>1 DEF RingsKnown, Announced
      <3>. QED BY <1>0, <3>1, <3>2 DEF Displayed, Picture
    <2>. QED BY <2>2, <2>3
  <1>6. ASSUME NEW x \in Surfaces
        PROVE  /\ Sending(x)' => x = z /\ x # y
               /\ CarriesOnce(sends', x)
    <2>1. \A k \in DOMAIN Previous(p, i) : /\ Previous(p, i)[k].surface = <<pane[p].ring, pane[p].displayed>>
                                           /\ pane[p].displayed # i
      BY <1>0, <1>1, <1>2, PreviousTyped
    <2>2. \A k \in DOMAIN Previous(p, i) : k = 1
      BY DEF Previous
    <2>3. Sending(x)' => x = z /\ x # y
      BY <1>0, <1>1, <2>1 DEF Sending, Carries, Picture
    <2>4. CarriesOnce(sends', x)
      BY <1>1, <2>2 DEF CarriesOnce
    <2>. QED BY <2>3, <2>4
  <1>7. z \in Surfaces => Displayed(z)
    BY <1>0, <1>2 DEF Displayed
  <1>8. ASSUME NEW x \in Surfaces PROVE Exclusive(x)'
    <2>1. /\ Exclusive(x)
          /\ InFlight(x) <=> Signaled(taken, x) \/ InFlight(x)'
          /\ SignalsOnce(Stream, x) => SignalsOnce(Stream', x) /\ (Signaled(taken, x) => ~InFlight(x)')
          /\ ~Sending(x) /\ (Returned(x)' <=> Returned(x)) /\ (Live(x)' <=> Live(x))
          /\ HoldsOnce(returned, x) => HoldsOnce(returned', x)
      BY <1>1, ConsumeStream DEF Exclusively
    <2>2. CASE x = y
      <3>1. InFlight(x) /\ ~InFlight(x)' /\ ~Sending(x)' /\ ~Returned(x)' /\ SignalsOnce(Stream', x)
        BY <1>3, <1>6, <2>1, <2>2 DEF Exclusive
      <3>2. x[1] \in DOMAIN rings' /\ (Live(x)' => x \in away' /\ HoldsOnce(returned', x))
        BY <1>2, <2>1, <3>1 DEF Exclusive, Abroad
      <3>. QED BY <1>6, <3>1, <3>2 DEF Exclusive
    <2>3. CASE x = z /\ x # y
      <3>1. Displayed(x) /\ ~InFlight(x)' /\ ~Displayed(x)' /\ ~Returned(x)' /\ SignalsOnce(Stream', x)
        BY <1>5, <1>7, <2>1, <2>3 DEF Exclusive
      <3>2. x[1] \in DOMAIN rings' /\ (Live(x)' => x \in away' /\ HoldsOnce(returned', x))
        BY <1>2, <2>1, <3>1 DEF Exclusive, Abroad
      <3>. QED BY <1>6, <3>1, <3>2 DEF Exclusive
    <2>4. CASE x # y /\ x # z
      BY <1>2, <1>5, <1>6, <2>1, <2>4, Subsides
    <2>. QED BY <2>2, <2>3, <2>4
  <1>. QED BY <1>8 DEF Exclusively

LEMMA ConsumeExclusive ==
  ASSUME Typing, Threading, RingsKnown, Bound, Ordered, Exclusively, Consume PROVE Exclusively'
  <1>1. CASE ConsumeRing
    BY <1>1, ConsumeRingExclusive
  <1>2. CASE ConsumeFrame
    BY <1>2, ConsumeFrameExclusive
  <1>3. CASE ~ConsumeRing /\ ~ConsumeFrame
    <2>1. /\ sends' = sends /\ UNCHANGED <<rings, away>>
          /\ pane' = pane \/ \E p \in Panes : ReleaseRing(p, 0)
      <3>1. taken \in Messages
        BY StreamTail
      <3>2. taken.kind \in {"ring", "ended"} => taken.pane \in Panes
        BY <3>1, MessageFields
      <3>. QED BY <1>3, <3>2 DEF Consume, ConsumeHello, ConsumeGap, ConsumeBrokenRing, RefuseRing, RefuseFrame,
                  ConsumeEnded, Consuming, Settle, Beside, sidecarVars, channelVars
    <2>2. ASSUME NEW x \in Surfaces, Displayed(x)' PROVE Displayed(x)
      <3>1. CASE pane' = pane
        BY <2>2, <3>1 DEF Displayed, Picture
      <3>2. ASSUME NEW p \in Panes, ReleaseRing(p, 0) PROVE Displayed(x)
        <4>1. pane'[p].ring = 0 /\ \A r \in Panes : r # p => pane'[r] = pane[r]
          <5>1. pane \in [Panes -> PaneRings] /\ pane' = [pane EXCEPT ![p].ring = 0, ![p].displayed = None]
            BY <3>2 DEF ReleaseRing, Typing, ChannelTyped
          <5>2. \A r \in Panes : r # p => pane'[r] = pane[r]
            BY <5>1
          <5>3. pane[p] \in PaneRings /\ pane'[p] = [[pane[p] EXCEPT !.ring = 0] EXCEPT !.displayed = None]
            BY <5>1
          <5>. QED BY <5>2, <5>3 DEF PaneRings
        <4>. QED BY <2>2, <4>1, SurfaceFields DEF Displayed, Picture
      <3>. QED BY <2>1, <3>1, <3>2
    <2>3. ASSUME NEW x \in Surfaces PROVE Exclusive(x)'
      <3>1. /\ Exclusive(x) /\ (InFlight(x)' => InFlight(x))
            /\ SignalsOnce(Stream, x) => SignalsOnce(Stream', x)
            /\ (Returned(x)' <=> Returned(x)) /\ (Live(x)' <=> Live(x))
            /\ HoldsOnce(returned, x) => HoldsOnce(returned', x)
        BY ConsumeStream DEF Exclusively
      <3>2. Sending(x)' <=> Sending(x)
        BY <2>1 DEF Sending
      <3>. QED BY <2>1, <2>2, <3>1, <3>2, Subsides
    <2>. QED BY <2>3 DEF Exclusively
  <1>. QED BY <1>1, <1>2, <1>3

-----------------------------------------------------------------------------
(* The theorem *)

Streaming == Bound /\ Ordered /\ Exclusively

LEMMA InitStreams == Init => Streaming
  <1> SUFFICES ASSUME Init PROVE Streaming
    OBVIOUS
  <1>1. /\ Stream = <<>> /\ DOMAIN Stream = {} /\ Len(Stream) = 0
    <2>1. ~AtWork /\ inbox = <<>>
      BY ThreadsApart DEF Init, AtWork
    <2>2. Stream = <<>> \o <<>>
      BY <2>1 DEF Stream
    <2>. QED BY <2>2
  <1>2. Bound
    BY ThreadsApart DEF Init, Bound
  <1>3. Ordered
    <2>1. \A s \in Sidecars, p \in Panes : current[s][p] = 0
      BY DEF Init
    <2>. QED BY <1>1, <2>1 DEF Ordered, InOrder
  <1>4. ASSUME NEW x \in Surfaces PROVE Exclusive(x)
    <2>1. SignalsOnce(Stream, x) /\ ~InFlight(x)
      BY <1>1 DEF SignalsOnce, InFlight, Signals
    <2>2. ~Displayed(x)
      BY SurfaceFields DEF Init, Displayed, Picture
    <2>3. ~Sending(x) /\ ~Returned(x) /\ CarriesOnce(sends, x) /\ HoldsOnce(returned, x)
      BY DEF Init, Sending, Returned, Carries, Holds, CarriesOnce, HoldsOnce
    <2>. QED BY <2>1, <2>2, <2>3 DEF Exclusive, Abroad
  <1>. QED BY <1>2, <1>3, <1>4 DEF Streaming, Exclusively

LEMMA NextStreams ==
  OneSidecar /\ Keeping /\ Streaming /\ Keeping' /\ [Next]_vars => Streaming'
  <1> SUFFICES ASSUME OneSidecar, Keeping, Streaming, Keeping', [Next]_vars PROVE Streaming'
    OBVIOUS
  <1>1. /\ Typing /\ Threading /\ RingsKnown /\ Bound /\ Ordered /\ Exclusively
        /\ Typing' /\ Threading'
    BY DEF Keeping, Streaming
  <1>2. ASSUME Still, Bound' PROVE Streaming'
    BY <1>1, <1>2, StillOrder, StillExclusive DEF Streaming
  <1>3. CASE UNCHANGED vars
    <2>1. Stream' = Stream
      BY <1>3 DEF vars, Stream, AtWork
    <2>2. Still /\ Bound'
      BY <1>1, <1>3, <2>1 DEF vars, Still, Bound
    <2>. QED BY <1>2, <2>2
  <1>4. ASSUME NEW s \in Sidecars, Sidecar(s) PROVE Streaming'
    BY <1>1, <1>4, SidecarOrder, SidecarExclusive DEF Streaming
  <1>5. ASSUME NEW t \in Callers, BeginCall(t) \/ Call(t) PROVE Streaming'
    BY <1>1, <1>2, <1>5, BeginStill, CallStill
  <1>6. ASSUME NEW t \in Threads, Lock(t) \/ Show(t) PROVE Streaming'
    BY <1>1, <1>2, <1>6, ThreadStill
  <1>7. CASE Receive \/ Sent
    BY <1>1, <1>2, <1>7, ReceiverStill
  <1>8. CASE Consume
    BY <1>1, <1>8, ConsumeOrder, ConsumeHolds, ConsumeExclusive DEF Streaming
  <1>9. CASE SendReleased
    <2>1. Ordered'
      BY <1>1, <1>9, SendReleasedKeeps DEF Ordered, Held
    <2>. QED BY <1>1, <1>9, <2>1, SendReleasedKeeps, SendReleasedExclusive DEF Streaming
  <1>10. (\E s \in Sidecars : Sidecar(s)) \/ Application \/ UNCHANGED vars
    BY NextSplits
  <1>11. Receiver \in Threads /\ Callers \subseteq Threads
    BY ThreadsApart
  <1>. QED BY <1>3, <1>4, <1>5, <1>6, <1>7, <1>8, <1>9, <1>10, <1>11
       DEF Application, ReceiverStep, CallerStep

\* If no two sidecars draw one pane, the surface a pane displays is not on its way back
\* to the sidecar: Channel.consume gives a surface back only when another is in its
\* place, and no order of the steps of sidecars, of the receive thread and of callers
\* brings it back a second time (channel.go:320-330, 354-365).
THEOREM DisplayedStays == OneSidecar => (Spec => []DisplayedIsKept)
  <1> SUFFICES ASSUME OneSidecar PROVE Spec => []DisplayedIsKept
    OBVIOUS
  <1>1. Init => Streaming
    BY InitStreams
  <1>2. Keeping /\ Streaming /\ Keeping' /\ [Next]_vars => Streaming'
    BY NextStreams
  <1>3. Streaming => DisplayedIsKept
    <2> SUFFICES ASSUME Streaming, NEW p \in Panes, NEW x \in Surfaces, x = Picture(p)
        PROVE  /\ \A k \in DOMAIN sends : sends[k].surface # x
               /\ \A s \in Sidecars : \A k \in DOMAIN returned[s] : returned[s][k] # x
      BY DEF DisplayedIsKept, Picture
    <2>1. Displayed(x) /\ Exclusive(x)
      BY DEF Displayed, Streaming, Exclusively
    <2>2. ~Sending(x) /\ ~Returned(x)
      BY <2>1 DEF Exclusive
    <2>. QED BY <2>2 DEF Sending, Returned, Carries, Holds
  <1>4. Spec => []Keeping
    BY SpecKeeps
  <1>. QED BY <1>1, <1>2, <1>3, <1>4, PTL DEF Spec

-----------------------------------------------------------------------------
(* Every index goes back *)

\* Who may draw a pane.
Hosted ==
  /\ \A p \in Panes : pane[p].sidecar # Nobody => <<p, pane[p].sidecar>> \in Hosts
  /\ \A n \in DOMAIN rings : <<rings[n].pane, rings[n].sidecar>> \in Hosts
  /\ \A t \in Callers : at[t] \in {"lock", "held"} /\ job[t].op = "bind" =>
       <<job[t].pane, job[t].sidecar>> \in Hosts

\* A ring its sidecar draws in, or awaits a surface of.
InUse(n) ==
  /\ n \in DOMAIN rings
  /\ \/ current[rings[n].sidecar][rings[n].pane] = n
     \/ \E i \in Slots : <<n, i>> \in away

Brings(message, n) == message.kind = "ring" /\ message.ring = n
Greets(message, s) == message.kind = "hello" /\ message.sidecar = s
Introduces(message, s) == Greets(message, s) /\ message.life = life[s]

\* The reply right reaches the process that draws, or will when the rings come that
\* it draws in.
Greeted ==
  /\ \A s \in Sidecars :
       /\ life[s] # 0 => replies[s] = life[s] \/ \E j \in DOMAIN Stream : Introduces(Stream[j], s)
       /\ \A k \in DOMAIN Stream : Greets(Stream[k], s) =>
            \E j \in DOMAIN Stream : j >= k /\ Introduces(Stream[j], s)
  /\ \A n \in Rings : InUse(n) =>
       /\ life[rings[n].sidecar] # 0
       /\ \A j \in DOMAIN Stream : Introduces(Stream[j], rings[n].sidecar) =>
            \E k \in DOMAIN Stream : k > j /\ Brings(Stream[k], n)

\* The pane of a ring holds it, or it comes before the message at k.
Comes(n, k) == \/ pane[rings[n].pane].ring = n
               \/ \E j \in DOMAIN Stream : j < k /\ Brings(Stream[j], n)

\* Unless it is refused, a ring in use comes before its frames, and none that
\* is ended is in use.
Arriving ==
  /\ \A k \in DOMAIN Stream, x \in away : Signaled(Stream[k], x) => x[1] \in refused \/ Comes(x[1], k)
  /\ \A s \in Sidecars, p \in Panes : current[s][p] # 0 =>
       current[s][p] \in refused \/ Comes(current[s][p], Len(Stream) + 1)
  /\ \A k \in DOMAIN Stream : Stream[k].kind = "ended" => ~InUse(Stream[k].ring)

\* What is sent back of a surface that is awaited reaches who awaits it.
Reaching ==
  \A k \in DOMAIN sends : sends[k].surface \in away =>
    /\ sends[k].to = rings[sends[k].surface[1]].sidecar
    /\ Reaches(sends[k])

Awaited ==
  \A x \in away :
    /\ x[1] \in DOMAIN rings
    /\ \/ x[1] \in refused \/ InFlight(x) \/ Displayed(x) \/ Sending(x)
       \/ \E k \in DOMAIN returned[rings[x[1]].sidecar] : returned[rings[x[1]].sidecar][k] = x

Due == open.registered => Greeted /\ Arriving /\ Reaching /\ Awaited

\* The rings whose surfaces are awaited were sent, for a pane.
LEMMA InUseKnown ==
  ASSUME Typing, RingsKnown, Awaited
  PROVE  /\ \A n : InUse(n) => n \in DOMAIN rings /\ n \in Rings /\ rings[n].pane \in Panes /\ rings[n].sidecar \in Sidecars
         /\ \A x \in away : x \in Surfaces /\ x = <<x[1], x[2]>> /\ x[2] \in Slots /\ InUse(x[1])
         /\ \A s \in Sidecars, p \in Panes : current[s][p] # 0 =>
              /\ InUse(current[s][p])
              /\ rings[current[s][p]].pane = p /\ rings[current[s][p]].sidecar = s
  <1>1. /\ rings \in Seq([pane : Panes, sidecar : Sidecars]) /\ Len(rings) <= MaxRings
        /\ away \subseteq Surfaces
    BY DEF Typing, SidecarsTyped
  <1>2. /\ DOMAIN rings \subseteq Rings
        /\ \A n \in DOMAIN rings : rings[n].pane \in Panes /\ rings[n].sidecar \in Sidecars
    <2>1. DOMAIN rings = 1 .. Len(rings) /\ Len(rings) \in Nat
      BY <1>1
    <2>2. \A n \in DOMAIN rings : n \in Rings
      BY <1>1, <2>1, BoundsAssumption DEF Rings
    <2>3. \A n \in DOMAIN rings : rings[n] \in [pane : Panes, sidecar : Sidecars]
      BY <1>1, Elements
    <2>. QED BY <2>2, <2>3
  <1>3. ASSUME NEW x \in away PROVE x \in Surfaces /\ x = <<x[1], x[2]>> /\ x[2] \in Slots /\ InUse(x[1])
    <2>1. x \in Surfaces
      BY <1>1
    <2>2. x = <<x[1], x[2]>> /\ x[2] \in Slots
      BY <2>1 DEF Surfaces
    <2>3. x[1] \in DOMAIN rings
      BY DEF Awaited
    <2>. QED BY <2>1, <2>2, <2>3 DEF InUse
  <1>. QED BY <1>2, <1>3 DEF InUse, RingsKnown, Announced

\* Nothing becomes of the messages, of the rings or of the sends.
LEMMA DueStays ==
  ASSUME Typing, RingsKnown, Due,
         UNCHANGED <<rings, current, away, sends, returned, life, replies, refused>>,
         open'.registered => /\ open.registered /\ Stream' = Stream
                             /\ \A p \in Panes : /\ pane'[p].ring = pane[p].ring
                                                 /\ pane'[p].displayed = pane[p].displayed
  PROVE  Due'
  <1> SUFFICES ASSUME open'.registered PROVE (Greeted /\ Arriving /\ Reaching /\ Awaited)'
    BY DEF Due
  <1>1. /\ Stream' = Stream /\ Greeted /\ Arriving /\ Reaching /\ Awaited
        /\ \A p \in Panes : Picture(p)' = Picture(p) /\ pane'[p].ring = pane[p].ring
    BY DEF Due, Picture
  <1>2. \A n : InUse(n)' <=> InUse(n)
    BY DEF InUse
  <1>3. \A n, k : InUse(n) => (Comes(n, k)' <=> Comes(n, k))
    BY <1>1, InUseKnown DEF Comes
  <1>4. Greeted'
    BY <1>1, <1>2 DEF Greeted, Introduces
  <1>5. Arriving'
    <2>1. \A k \in DOMAIN Stream, x \in away : Signaled(Stream[k], x) => x[1] \in refused \/ Comes(x[1], k)'
      BY <1>1, <1>3, InUseKnown DEF Arriving
    <2>2. \A s \in Sidecars, p \in Panes : current[s][p] # 0 =>
            current[s][p] \in refused \/ Comes(current[s][p], Len(Stream) + 1)'
      BY <1>1, <1>3, InUseKnown DEF Arriving
    <2>3. \A k \in DOMAIN Stream : Stream[k].kind = "ended" => ~InUse(Stream[k].ring)'
      BY <1>1, <1>2 DEF Arriving
    <2>. QED BY <1>1, <2>1, <2>2, <2>3 DEF Arriving
  <1>6. Reaching'
    BY <1>1 DEF Reaching, Reaches
  <1>7. Awaited'
    <2>1. \A x : (InFlight(x)' <=> InFlight(x)) /\ (Displayed(x)' <=> Displayed(x)) /\ (Sending(x)' <=> Sending(x))
      BY <1>1 DEF InFlight, Displayed, Sending
    <2>. QED BY <1>1, <2>1 DEF Awaited
  <1>. QED BY <1>4, <1>5, <1>6, <1>7

\* A pane that holds a ring in use reaches the process that draws in it.
LEMMA HeldReaches ==
  ASSUME OneSidecar, Typing, RingsKnown, Bound, Ordered, Hosted, Greeted, Awaited,
         NEW p \in Panes, pane[p].ring # 0, InUse(pane[p].ring)
  PROVE  /\ Connected(p) /\ pane[p].sidecar = rings[pane[p].ring].sidecar
         /\ replies[pane[p].sidecar] = life[pane[p].sidecar]
  <1> DEFINE n == pane[p].ring
             s == rings[n].sidecar
  <1>1. /\ n \in Rings /\ n \in DOMAIN rings /\ rings[n].pane = p /\ s \in Sidecars
    BY InUseKnown DEF RingsKnown, Announced
  <1>2. pane[p].sidecar = s
    <2>1. pane[p].sidecar # Nobody /\ <<p, s>> \in Hosts /\ <<p, pane[p].sidecar>> \in Hosts
      BY <1>1 DEF Bound, Hosted
    <2>2. pane[p].sidecar \in Sidecars
      <3>1. pane[p] \in PaneRings
        BY DEF Typing, ChannelTyped
      <3>. QED BY <2>1, <3>1 DEF PaneRings
    <2>. QED BY <1>1, <2>1, <2>2 DEF OneSidecar
  <1>3. \A k \in DOMAIN Stream : ~Brings(Stream[k], n)
    <2>1. Held[p] = n
      BY DEF Held
    <2>2. \A k \in DOMAIN Stream : Stream[k].kind = "ring" => Held[p] # Stream[k].ring
      BY DEF Ordered, InOrder
    <2>. QED BY <2>1, <2>2 DEF Brings
  <1>4. life[s] # 0 /\ replies[s] = life[s]
    BY <1>1, <1>3 DEF Greeted
  <1>5. Nobody \notin Sidecars
    BY NobodyAssumption
  <1>. QED BY <1>1, <1>2, <1>4, <1>5 DEF Connected

\* A pane is drawn by who may draw it.
LEMMA NextHosted ==
  ASSUME Typing, Threading, Hosted, [Next]_vars PROVE Hosted'
  <1>1. /\ pane \in [Panes -> PaneRings] /\ job \in [Callers -> Jobs]
        /\ at \in [Threads -> {"idle", "lock", "held", "sends", "show", "read"}]
        /\ rings \in Seq([pane : Panes, sidecar : Sidecars])
    BY DEF Typing, ChannelTyped, ThreadsTyped, SidecarsTyped
  <1> DEFINE
    PaneKept == \A p \in Panes : pane'[p].sidecar = pane[p].sidecar
    Idles(t) == at'[t] \notin {"lock", "held"}
    Keeps(t) == job'[t] = job[t] /\ (at'[t] \in {"lock", "held"} => at[t] \in {"lock", "held"})
  <1>2. ASSUME PaneKept, rings' = rings, \A t \in Callers : Idles(t) \/ Keeps(t) PROVE Hosted'
    BY <1>2 DEF Hosted
  <1>3. CASE UNCHANGED vars
    BY <1>2, <1>3 DEF vars
  <1>4. ASSUME NEW s \in Sidecars, Sidecar(s) PROVE Hosted'
    <2>1. UNCHANGED <<pane, at, job>>
      BY <1>4 DEF Sidecar, SendHello, TakeReleased, SendRing, SendGap, SendEnded, SendFrame, Send,
             channelVars, threadVars
    <2>2. CASE \E p \in Panes : SendRing(s, p)
      <3>1. PICK p \in Panes : rings' = Append(rings, [pane |-> p, sidecar |-> s]) /\ <<p, s>> \in Hosts
        BY <2>2 DEF SendRing
      <3>2. \A n \in DOMAIN rings' : \/ n \in DOMAIN rings /\ rings'[n] = rings[n]
                                     \/ rings'[n] = [pane |-> p, sidecar |-> s]
        BY <1>1, <3>1
      <3>. QED BY <2>1, <3>1, <3>2 DEF Hosted
    <2>3. CASE ~\E p \in Panes : SendRing(s, p)
      <3>1. rings' = rings
        BY <1>4, <2>3 DEF Sidecar, SendHello, TakeReleased, SendGap, SendEnded, SendFrame
      <3>. QED BY <1>2, <2>1, <3>1
    <2>. QED BY <2>2, <2>3
  <1>5. CASE Application
    <2>0. rings' = rings
      BY <1>5, ApplicationRings
    <2>1. ASSUME NEW t \in Callers, BeginCall(t) PROVE Hosted'
      <3>1. /\ pane' = pane /\ at[t] = "idle" /\ \A c \in Callers : c # t => job'[c] = job[c]
            /\ \A u \in Threads : u # t => at'[u] = at[u]
        BY <2>1, BeginTyping
      <3>2. job'[t].op = "bind" => <<job'[t].pane, job'[t].sidecar>> \in Hosts
        <4>1. CASE \E p \in Panes, s \in Sidecars : BeginBind(t, p, s)
          BY <1>1, <4>1 DEF BeginBind, Begin
        <4>2. CASE ~\E p \in Panes, s \in Sidecars : BeginBind(t, p, s)
          <5>1. \E op, p, s, v : op # "bind" /\ Begin(t, op, p, s, v)
            BY <2>1, <4>2 DEF BeginCall, BeginBindView, BeginUnbindView, BeginSnapshot, BeginClose
          <5>2. job'[t].op # "bind"
            BY <1>1, <5>1 DEF Begin
          <5>. QED BY <5>2
        <4>. QED BY <4>1, <4>2
      <3>. QED BY <2>0, <3>1, <3>2, ThreadsApart DEF Hosted
    <2>2. ASSUME NEW t \in Callers, Call(t) PROVE Hosted'
      <3>1. /\ at' = [at EXCEPT ![t] = "idle"] \/ at' = [at EXCEPT ![t] = "show"] \/ at' = [at EXCEPT ![t] = "read"]
            /\ job' = job \/ job' = [job EXCEPT ![t] = NoJob] \/ \E x : job' = [job EXCEPT ![t].surface = x]
        BY <2>2 DEF Call, Bind, BindView, UnbindView, Snapshot, ReadPixels, Close, Return, Unlock
      <3>2. \A c \in Callers : Idles(c) \/ Keeps(c)
        BY <1>1, <3>1, ThreadsApart
      <3>3. CASE Bind(t)
        <4>1. /\ pane' = [pane EXCEPT ![job[t].pane].sidecar = job[t].sidecar]
              /\ <<job[t].pane, job[t].sidecar>> \in Hosts
          BY <3>3 DEF Bind, Hosted
        <4>2. \A p \in Panes : \/ pane'[p].sidecar = pane[p].sidecar
                               \/ p = job[t].pane /\ pane'[p].sidecar = job[t].sidecar
          <5>1. \A p \in Panes : /\ pane[p] \in PaneRings
                                 /\ \/ pane'[p] = pane[p]
                                    \/ p = job[t].pane /\ pane'[p] = [pane[p] EXCEPT !.sidecar = job[t].sidecar]
            BY <1>1, <4>1
          <5>. QED BY <5>1 DEF PaneRings
        <4>. QED BY <2>0, <3>2, <4>1, <4>2 DEF Hosted
      <3>4. CASE ~Bind(t)
        <4>1. \/ pane' = pane \/ \E v : pane' = [pane EXCEPT ![job[t].pane].view = v]
              \/ pane' = [p \in Panes |-> [pane[p] EXCEPT !.ring = 0, !.displayed = None]]
          BY <2>2, <3>4 DEF Call, BindView, UnbindView, Snapshot, ReadPixels, Close, channelVars
        <4>2. \A p \in Panes : /\ pane[p] \in PaneRings
                               /\ \/ pane'[p] = pane[p]
                                  \/ \E v : pane'[p] = [pane[p] EXCEPT !.view = v]
                                  \/ pane'[p] = [[pane[p] EXCEPT !.ring = 0] EXCEPT !.displayed = None]
          <5>1. CASE pane' = pane
            BY <1>1, <5>1
          <5>2. ASSUME NEW v, pane' = [pane EXCEPT ![job[t].pane].view = v], NEW p \in Panes
                PROVE  pane[p] \in PaneRings /\ (pane'[p] = pane[p] \/ pane'[p] = [pane[p] EXCEPT !.view = v])
            BY <1>1, <5>2
          <5>3. CASE pane' = [p \in Panes |-> [pane[p] EXCEPT !.ring = 0, !.displayed = None]]
            BY <1>1, <5>3
          <5>. QED BY <4>1, <5>1, <5>2, <5>3
        <4>3. PaneKept
          BY <4>2 DEF PaneRings
        <4>. QED BY <1>2, <2>0, <3>2, <4>3
      <3>. QED BY <3>3, <3>4
    <2>3. ASSUME NEW t \in Threads, Lock(t) \/ Show(t) PROVE Hosted'
      <3>1. /\ pane' = pane
            /\ \/ at[t] = "lock" /\ at' = [at EXCEPT ![t] = "held"] /\ job' = job
               \/ at' = [at EXCEPT ![t] = "idle"] /\ \A c \in Callers : c # t => job'[c] = job[c]
        BY <2>3 DEF Lock, Show, channelVars
      <3>2. \A c \in Callers : Idles(c) \/ Keeps(c)
        BY <1>1, <3>1, ThreadsApart
      <3>. QED BY <1>2, <2>0, <3>1, <3>2
    <2>4. CASE Receive \/ Sent \/ SendReleased
      <3>1. /\ UNCHANGED <<pane, job>>
            /\ \/ at' = at \/ at' = [at EXCEPT ![Receiver] = "lock"] \/ at' = [at EXCEPT ![Receiver] = "show"]
        BY <2>4 DEF Receive, Sent, SendReleased, channelVars
      <3>2. \A c \in Callers : Idles(c) \/ Keeps(c)
        BY <1>1, <3>1, ThreadsApart
      <3>. QED BY <1>2, <2>0, <3>1, <3>2
    <2>5. CASE Consume
      <3>1. /\ job' = job
            /\ at' = [at EXCEPT ![Receiver] = "idle"] \/ at' = [at EXCEPT ![Receiver] = "sends"]
        BY <2>5 DEF Consume, ConsumeHello, ConsumeGap, ConsumeRing, ConsumeBrokenRing, RefuseRing, ConsumeFrame,
               RefuseFrame, ConsumeEnded, Settle, Unlock
      <3>2. \/ pane' = pane
            \/ \E n : pane' = [pane EXCEPT ![taken.pane].ring = n, ![taken.pane].displayed = None]
            \/ \E i : pane' = [pane EXCEPT ![taken.pane].displayed = i]
        BY <2>5 DEF Consume, ConsumeHello, ConsumeGap, ConsumeRing, ConsumeBrokenRing, RefuseRing, ConsumeFrame,
               RefuseFrame, ConsumeEnded, ReleaseRing, channelVars
      <3>3. \A p \in Panes : /\ pane[p] \in PaneRings
                             /\ \/ pane'[p] = pane[p]
                                \/ \E n : pane'[p] = [[pane[p] EXCEPT !.ring = n] EXCEPT !.displayed = None]
                                \/ \E i : pane'[p] = [pane[p] EXCEPT !.displayed = i]
        <4>1. CASE pane' = pane
          BY <1>1, <4>1
        <4>2. ASSUME NEW n, pane' = [pane EXCEPT ![taken.pane].ring = n, ![taken.pane].displayed = None],
                     NEW p \in Panes
              PROVE  pane'[p] = pane[p] \/ pane'[p] = [[pane[p] EXCEPT !.ring = n] EXCEPT !.displayed = None]
          BY <1>1, <4>2
        <4>3. ASSUME NEW i, pane' = [pane EXCEPT ![taken.pane].displayed = i], NEW p \in Panes
              PROVE  pane'[p] = pane[p] \/ pane'[p] = [pane[p] EXCEPT !.displayed = i]
          BY <1>1, <4>3
        <4>. QED BY <1>1, <3>2, <4>1, <4>2, <4>3
      <3>4. PaneKept
        BY <3>3 DEF PaneRings
      <3>5. \A c \in Callers : Idles(c) \/ Keeps(c)
        BY <1>1, <3>1, ThreadsApart
      <3>. QED BY <1>2, <2>0, <3>4, <3>5
    <2>6. Receiver \in Threads /\ Callers \subseteq Threads
      BY ThreadsApart
    <2>. QED BY <1>5, <2>1, <2>2, <2>3, <2>4, <2>5, <2>6 DEF Application, ReceiverStep, CallerStep
  <1>. QED BY <1>3, <1>4, <1>5, NextSplits

\* What a message consumed does to the rings of panes.
LEMMA ConsumeRings ==
  ASSUME Typing, Threading, Consume
  PROVE  /\ refused \subseteq refused' /\ UNCHANGED life
         /\ \A p \in Panes : RingOf(taken, p) =>
              /\ pane'[p].ring = taken.ring \/ taken.ring \in refused'
         /\ \A p \in Panes : \/ pane'[p].ring = pane[p].ring
                             \/ RingOf(taken, p) \/ (taken.kind = "ended" /\ taken.pane = p)
         /\ taken.kind # "hello" => UNCHANGED replies
         /\ taken.kind = "hello" => replies' = [replies EXCEPT ![taken.sidecar] = taken.life]
  <1>1. /\ pane \in [Panes -> PaneRings] /\ refused \subseteq refused' /\ UNCHANGED life
        /\ taken.kind # "hello" => UNCHANGED replies
        /\ taken.kind = "hello" => replies' = [replies EXCEPT ![taken.sidecar] = taken.life]
    <2>1. pane \in [Panes -> PaneRings]
      BY DEF Typing, ChannelTyped
    <2>2. refused \subseteq refused' /\ UNCHANGED life
      BY DEF Consume, ConsumeHello, ConsumeGap, ConsumeRing, ConsumeBrokenRing, RefuseRing, ConsumeFrame,
             RefuseFrame, ConsumeEnded, Beside, sidecarVars
    <2>3. /\ taken.kind # "hello" => UNCHANGED replies
          /\ taken.kind = "hello" => replies' = [replies EXCEPT ![taken.sidecar] = taken.life]
      BY DEF Consume, ConsumeHello, ConsumeGap, ConsumeRing, ConsumeBrokenRing, RefuseRing, ConsumeFrame,
             RefuseFrame, ConsumeEnded, Consuming, channelVars
    <2>. QED BY <2>1, <2>2, <2>3
  <1>2. ASSUME NEW n, ReleaseRing(taken.pane, n)
        PROVE  \A p \in Panes : IF p = taken.pane THEN pane'[p].ring = n ELSE pane'[p].ring = pane[p].ring
    <2>1. pane' = [pane EXCEPT ![taken.pane].ring = n, ![taken.pane].displayed = None]
      BY <1>2 DEF ReleaseRing
    <2>2. \A p \in Panes : /\ pane[p] \in PaneRings
                           /\ IF p = taken.pane
                              THEN pane'[p] = [[pane[p] EXCEPT !.ring = n] EXCEPT !.displayed = None]
                              ELSE pane'[p] = pane[p]
      BY <1>1, <2>1
    <2>. QED BY <2>2 DEF PaneRings
  <1>3. CASE ConsumeRing
    BY <1>1, <1>2, <1>3 DEF ConsumeRing, Consuming, RingOf
  <1>4. CASE ConsumeBrokenRing
    <2>1. taken.kind = "ring" /\ ReleaseRing(taken.pane, 0) /\ taken.ring \in refused' \cup {0}
      BY <1>4 DEF ConsumeBrokenRing, Consuming
    <2>2. taken \in Messages
      BY StreamTail
    <2>3. taken.ring \in refused'
      BY <2>1, <2>2, MessageFields DEF Rings
    <2>. QED BY <1>1, <1>2, <2>1, <2>3 DEF RingOf
  <1>5. CASE ConsumeEnded
    BY <1>1, <1>2, <1>5 DEF ConsumeEnded, Consuming, RingOf
  <1>6. CASE RefuseRing
    BY <1>1, <1>6 DEF RefuseRing, Consuming, RingOf, channelVars
  <1>7. CASE ConsumeFrame
    <2>1. pane' = [pane EXCEPT ![taken.pane].displayed = taken.slot] /\ taken.kind = "frame"
      BY <1>7 DEF ConsumeFrame, Consuming
    <2>2. \A p \in Panes : /\ pane[p] \in PaneRings
                           /\ \/ pane'[p] = pane[p] \/ pane'[p] = [pane[p] EXCEPT !.displayed = taken.slot]
      BY <1>1, <2>1
    <2>3. \A p \in Panes : pane'[p].ring = pane[p].ring
      BY <2>2 DEF PaneRings
    <2>. QED BY <1>1, <2>1, <2>3 DEF RingOf
  <1>8. CASE ConsumeHello \/ ConsumeGap \/ RefuseFrame
    BY <1>1, <1>8 DEF ConsumeHello, ConsumeGap, RefuseFrame, Consuming, RingOf, channelVars
  <1>. QED BY <1>3, <1>4, <1>5, <1>6, <1>7, <1>8 DEF Consume

\* The stream without its first message.
LEMMA StreamRest ==
  ASSUME Typing, Threading, Consume
  PROVE  /\ 1 \in DOMAIN Stream /\ Stream[1] = taken /\ taken \in Messages
         /\ Len(Stream) \in Nat /\ DOMAIN Stream = 1 .. Len(Stream)
         /\ Len(Stream') = Len(Stream) - 1 /\ DOMAIN Stream' = 1 .. Len(Stream) - 1
         /\ \A k \in DOMAIN Stream' : k + 1 \in DOMAIN Stream /\ Stream'[k] = Stream[k + 1]
         /\ \A k \in DOMAIN Stream : k = 1 \/ (k - 1 \in DOMAIN Stream' /\ Stream'[k - 1] = Stream[k])
  <1>1. PICK q, z : q = Stream /\ z = Stream'
    OBVIOUS
  <1>2. q \in Seq(Messages) /\ q # <<>> /\ q[1] = taken /\ z = Tail(q) /\ taken \in Messages
    BY <1>1, StreamTyped, StreamTail
  <1>3. /\ Len(q) \in Nat /\ DOMAIN q = 1 .. Len(q) /\ Len(q) > 0
        /\ Len(z) = Len(q) - 1 /\ \A k \in 1 .. Len(q) - 1 : z[k] = q[k + 1]
    BY <1>2, Elements
  <1>4. z \in Seq(Messages)
    BY <1>2, Elements
  <1>5. DOMAIN z = 1 .. Len(q) - 1
    BY <1>3, <1>4, Elements
  <1>6. \A k \in 1 .. Len(q) : k = 1 \/ (k - 1 \in 1 .. Len(q) - 1 /\ (k - 1) + 1 = k)
    BY <1>3
  <1>7. 1 \in 1 .. Len(q) /\ \A k \in 1 .. Len(q) - 1 : k + 1 \in 1 .. Len(q)
    BY <1>3
  <1>. QED BY <1>1, <1>2, <1>3, <1>5, <1>6, <1>7

LEMMA ConsumeGreeted ==
  ASSUME Typing, Threading, Bound, Greeted, Consume PROVE Greeted'
  <1>1. /\ UNCHANGED <<rings, current, away, life>>
        /\ taken.kind # "hello" => UNCHANGED replies
        /\ taken.kind = "hello" => replies' = [replies EXCEPT ![taken.sidecar] = taken.life]
        /\ replies \in [Sidecars -> 0 .. MaxLives]
    BY ConsumeHolds, ConsumeRings DEF Typing, ChannelTyped
  <1>2. PICK q, z : q = Stream /\ z = Stream'
    OBVIOUS
  <1>3. /\ 1 \in DOMAIN q /\ q[1] = taken /\ DOMAIN q \subseteq Nat /\ DOMAIN z \subseteq Nat
        /\ \A k \in DOMAIN z : k >= 1 /\ k + 1 \in DOMAIN q /\ z[k] = q[k + 1]
        /\ \A k \in DOMAIN q : k = 1 \/ (k - 1 \in DOMAIN z /\ z[k - 1] = q[k])
    BY <1>2, StreamRest
  <1>4. /\ \A s \in Sidecars :
             /\ life[s] # 0 => replies[s] = life[s] \/ \E j \in DOMAIN q : Introduces(q[j], s)
             /\ \A k \in DOMAIN q : Greets(q[k], s) => \E j \in DOMAIN q : j >= k /\ Introduces(q[j], s)
        /\ \A n \in Rings : InUse(n) =>
             /\ life[rings[n].sidecar] # 0
             /\ \A j \in DOMAIN q : Introduces(q[j], rings[n].sidecar) =>
                  \E k \in DOMAIN q : k > j /\ Brings(q[k], n)
    BY <1>2 DEF Greeted
  <1>5. ASSUME NEW s \in Sidecars, life[s] # 0
        PROVE  replies'[s] = life[s] \/ \E j \in DOMAIN z : Introduces(z[j], s)
    <2>1. ASSUME NEW j \in DOMAIN q, j # 1, Introduces(q[j], s) PROVE \E i \in DOMAIN z : Introduces(z[i], s)
      <3>1. j - 1 \in DOMAIN z /\ z[j - 1] = q[j]
        BY <1>3, <2>1
      <3>. QED BY <2>1, <3>1
    <2>2. CASE Introduces(q[1], s)
      BY <1>1, <1>3, <2>2 DEF Introduces, Greets
    <2>3. CASE Greets(q[1], s) /\ ~Introduces(q[1], s)
      BY <1>3, <1>4, <2>1, <2>3
    <2>4. CASE ~Greets(q[1], s)
      <3>1. replies'[s] = replies[s]
        BY <1>1, <1>3, <2>4 DEF Greets
      <3>2. ~Introduces(q[1], s)
        BY <2>4 DEF Introduces
      <3>. QED BY <1>4, <1>5, <2>1, <3>1, <3>2
    <2>. QED BY <2>2, <2>3, <2>4
  <1>6. ASSUME NEW s \in Sidecars, NEW k \in DOMAIN z, Greets(z[k], s)
        PROVE  \E j \in DOMAIN z : j >= k /\ Introduces(z[j], s)
    <2>1. PICK j \in DOMAIN q : j >= k + 1 /\ Introduces(q[j], s)
      BY <1>3, <1>4, <1>6
    <2>2. j # 1 /\ j - 1 >= k
      BY <1>3, <2>1
    <2>3. j - 1 \in DOMAIN z /\ z[j - 1] = q[j]
      BY <1>3, <2>2
    <2>. QED BY <2>1, <2>2, <2>3
  <1>7. ASSUME NEW n \in Rings, InUse(n), NEW j \in DOMAIN z, Introduces(z[j], rings[n].sidecar)
        PROVE  \E k \in DOMAIN z : k > j /\ Brings(z[k], n)
    <2>1. PICK k \in DOMAIN q : k > j + 1 /\ Brings(q[k], n)
      BY <1>3, <1>4, <1>7
    <2>2. k # 1 /\ k - 1 > j
      BY <1>3, <2>1
    <2>3. k - 1 \in DOMAIN z /\ z[k - 1] = q[k]
      BY <1>3, <2>2
    <2>. QED BY <2>1, <2>2, <2>3
  <1>8. (\A n : InUse(n)' <=> InUse(n)) /\ \A m, s : Introduces(m, s)' <=> Introduces(m, s)
    BY <1>1 DEF InUse, Introduces
  <1>9. /\ \A s \in Sidecars :
             /\ life[s] # 0 => replies'[s] = life[s] \/ \E j \in DOMAIN Stream' : Introduces(Stream'[j], s)
             /\ \A k \in DOMAIN Stream' : Greets(Stream'[k], s) =>
                  \E j \in DOMAIN Stream' : j >= k /\ Introduces(Stream'[j], s)
        /\ \A n \in Rings : InUse(n) =>
             /\ life[rings[n].sidecar] # 0
             /\ \A j \in DOMAIN Stream' : Introduces(Stream'[j], rings[n].sidecar) =>
                  \E k \in DOMAIN Stream' : k > j /\ Brings(Stream'[k], n)
    BY <1>2, <1>4, <1>5, <1>6, <1>7
  <1>. QED BY <1>1, <1>8, <1>9 DEF Greeted, Introduces

\* A ring in use that comes still comes, or is refused.
LEMMA StillComes ==
  ASSUME Typing, Threading, RingsKnown, Bound, Ordered, Arriving, Awaited, Consume,
         NEW n \in Rings, InUse(n), NEW k \in 2 .. Len(Stream) + 1,
         Finds(Stream, Held[rings[n].pane], rings[n].pane, n, k),
         n \in refused \/ Comes(n, k)
  PROVE  n \in refused' \/ Comes(n, k - 1)'
  <1>1. PICK p, q, z : p = rings[n].pane /\ q = Stream /\ z = Stream'
    OBVIOUS
  <1>2. /\ 1 \in DOMAIN q /\ q[1] = taken /\ DOMAIN q \subseteq Nat /\ taken \in Messages
        /\ \A j \in DOMAIN q : j = 1 \/ (j - 1 \in DOMAIN z /\ z[j - 1] = q[j])
    BY <1>1, StreamRest
  <1>3. p \in Panes /\ n \in DOMAIN rings /\ n # 0 /\ k \in Nat /\ 2 <= k
    <2>1. k \in Nat /\ 2 <= k
      BY StreamRest
    <2>. QED BY <1>1, <2>1, InUseKnown DEF Rings
  <1>4. /\ UNCHANGED rings /\ refused \subseteq refused'
        /\ RingOf(taken, p) => pane'[p].ring = taken.ring \/ taken.ring \in refused'
        /\ \/ pane'[p].ring = pane[p].ring
           \/ RingOf(taken, p) \/ (taken.kind = "ended" /\ taken.pane = p)
    BY <1>3, ConsumeHolds, ConsumeRings
  <1>5. CASE n \in refused
    BY <1>4, <1>5
  <1>6. ASSUME NEW j \in DOMAIN q, j < k, Brings(q[j], n)
        PROVE  n \in refused' \/ Comes(n, k - 1)'
    <2>1. CASE j = 1
      <3>1. Knows(taken)
        BY <1>1, <1>2, StreamKnown
      <3>2. RingOf(taken, p) /\ taken.ring = n
        BY <1>1, <1>2, <1>6, <2>1, <3>1 DEF Brings, Knows, Announced, RingOf
      <3>. QED BY <1>1, <1>4, <3>2 DEF Comes
    <2>2. CASE j # 1
      <3>1. j - 1 \in DOMAIN Stream' /\ Brings(Stream'[j - 1], n) /\ j - 1 < k - 1
        BY <1>1, <1>2, <1>3, <1>6, <2>2
      <3>. QED BY <3>1 DEF Comes
    <2>. QED BY <2>1, <2>2
  <1>7. ASSUME pane[p].ring = n PROVE n \in refused' \/ Comes(n, k - 1)'
    <2>1. Held[p] = n
      BY <1>3, <1>7 DEF Held
    <2>2. ~(taken.kind = "ended" /\ taken.pane = p)
      <3>1. SUFFICES ASSUME taken.kind = "ended", taken.pane = p PROVE FALSE
        OBVIOUS
      <3>2. Finds(q, Held[p], p, taken.ring, 1)
        BY <1>1, <1>2, <3>1 DEF Ordered, InOrder
      <3>3. taken.ring = n
        BY <1>3, <2>1, <3>2 DEF Finds
      <3>. QED BY <1>1, <1>2, <3>1, <3>3 DEF Arriving
    <2>3. n \notin refused' => pane'[p].ring = n
      <3>1. CASE RingOf(taken, p)
        <4>1. \A j \in DOMAIN q : RingOf(q[j], p) => q[j].ring # n
          BY <1>1, <1>2, <1>3, <2>1 DEF Ordered, InOrder, RingOf
        <4>2. \E j \in 1 .. k - 1 : /\ RingOf(q[j], p) /\ q[j].ring = n
                                    /\ \A i \in j + 1 .. k - 1 : ~RingOf(q[i], p)
          <5>1. 1 \in 1 .. k - 1 /\ RingOf(q[1], p)
            BY <1>2, <1>3, <3>1
          <5>. QED BY <1>1, <5>1 DEF Finds
        <4>3. 1 .. k - 1 \subseteq DOMAIN q
          BY <1>1, StreamRest
        <4>. QED BY <4>1, <4>2, <4>3
      <3>2. CASE ~RingOf(taken, p)
        BY <1>4, <1>7, <2>2, <3>2
      <3>. QED BY <3>1, <3>2
    <2>. QED BY <1>1, <1>4, <2>3 DEF Comes
  <1>8. Comes(n, k) => pane[p].ring = n \/ \E j \in DOMAIN q : j < k /\ Brings(q[j], n)
    BY <1>1 DEF Comes
  <1>. QED BY <1>5, <1>6, <1>7, <1>8

LEMMA ConsumeArriving ==
  ASSUME Typing, Threading, RingsKnown, Bound, Ordered, Arriving, Awaited, open.registered, Consume
  PROVE  Arriving'
  <1>1. /\ UNCHANGED <<rings, current, away>> /\ \A n : InUse(n)' <=> InUse(n)
    BY ConsumeHolds DEF InUse
  <1>2. PICK q, z : q = Stream /\ z = Stream'
    OBVIOUS
  <1>3. /\ Len(q) \in Nat /\ DOMAIN q = 1 .. Len(q) /\ Len(z) = Len(q) - 1 /\ 1 \in DOMAIN q
        /\ \A k \in DOMAIN z : k + 1 \in DOMAIN q /\ z[k] = q[k + 1] /\ k \in Nat /\ 2 <= k + 1
    <2>1. \A k \in DOMAIN z : k \in 1 .. Len(q) - 1
      BY <1>2, StreamRest
    <2>2. Len(q) \in Nat
      BY <1>2, StreamRest
    <2>3. \A k \in 1 .. Len(q) - 1 : k \in Nat /\ 2 <= k + 1
      BY <2>2
    <2>. QED BY <1>2, <2>1, <2>3, StreamRest
  <1>4. ASSUME NEW k \in DOMAIN z, NEW x \in away, Signaled(z[k], x)
        PROVE  x[1] \in refused' \/ Comes(x[1], k)'
    <2>1. InUse(x[1]) /\ x[1] \in Rings
      BY InUseKnown
    <2>2. /\ q[k + 1].kind = "frame" /\ q[k + 1].ring = x[1] /\ Knows(q[k + 1])
          /\ k + 1 \in 2 .. Len(q) + 1
      <3>1. Signaled(q[k + 1], x) /\ k + 1 \in 1 .. Len(q)
        BY <1>3, <1>4
      <3>2. q[k + 1].ring = x[1]
        BY <3>1 DEF Signaled
      <3>. QED BY <1>2, <1>3, <3>1, <3>2, StreamKnown DEF Signaled
    <2>3. Finds(q, Held[rings[x[1]].pane], rings[x[1]].pane, x[1], k + 1)
      <3>1. q[k + 1].pane = rings[x[1]].pane
        BY <2>2 DEF Knows, Announced
      <3>. QED BY <1>2, <1>3, <2>2, <3>1 DEF Ordered, InOrder
    <2>4. x[1] \in refused \/ Comes(x[1], k + 1)
      BY <1>2, <1>3, <1>4 DEF Arriving
    <2>5. (k + 1) - 1 = k
      BY <1>3
    <2>6. x[1] \in refused' \/ Comes(x[1], (k + 1) - 1)'
      BY <1>2, <2>1, <2>2, <2>3, <2>4, StillComes
    <2>. QED BY <2>5, <2>6
  <1>5. ASSUME NEW s \in Sidecars, NEW p \in Panes, NEW n, n = current[s][p], n # 0
        PROVE  n \in refused' \/ Comes(n, Len(z) + 1)'
    <2>1. InUse(n) /\ n \in Rings /\ rings[n].pane = p
      BY <1>5, InUseKnown
    <2>2. Len(q) + 1 \in 2 .. Len(q) + 1 /\ (Len(q) + 1) - 1 = Len(z) + 1
      BY <1>3
    <2>3. Finds(q, Held[p], p, n, Len(q) + 1)
      BY <1>2, <1>5 DEF Ordered, InOrder
    <2>4. n \in refused \/ Comes(n, Len(q) + 1)
      BY <1>2, <1>5 DEF Arriving
    <2>5. n \in refused' \/ Comes(n, (Len(q) + 1) - 1)'
      BY <1>2, <2>1, <2>2, <2>3, <2>4, StillComes
    <2>. QED BY <2>2, <2>5
  <1>6. ASSUME NEW k \in DOMAIN z, z[k].kind = "ended" PROVE ~InUse(z[k].ring)
    BY <1>2, <1>3, <1>6 DEF Arriving
  <1>7. \A k \in DOMAIN Stream' : Stream'[k].kind = "ended" => \A n : n = Stream'[k].ring => ~InUse(n)'
    BY <1>1, <1>2, <1>6
  <1>8. \A k \in DOMAIN Stream', x \in away' : Signaled(Stream'[k], x) => x[1] \in refused' \/ Comes(x[1], k)'
    BY <1>1, <1>2, <1>4
  <1>9. \A s \in Sidecars, p \in Panes : \A n, k : n = current'[s][p] /\ n # 0 /\ k = Len(Stream') + 1 =>
          n \in refused' \/ Comes(n, k)'
    BY <1>1, <1>2, <1>5
  <1>. QED BY <1>7, <1>8, <1>9 DEF Arriving

\* What a message consumed sends back is of the ring its pane holds.
LEMMA ConsumeSends ==
  ASSUME Typing, Threading, Consume
  PROVE  \A k \in DOMAIN sends' :
           /\ taken.pane \in Panes /\ pane[taken.pane].ring # 0 /\ Connected(taken.pane) /\ UNCHANGED replies
           /\ sends'[k].to = pane[taken.pane].sidecar
           /\ sends'[k].life = replies[pane[taken.pane].sidecar]
           /\ sends'[k].surface[1] = pane[taken.pane].ring
  <1> DEFINE p == taken.pane
  <1>1. sends = <<>> /\ taken \in Messages
    BY StreamTail, StreamRest DEF Threading
  <1>2. taken.kind \in {"ring", "frame"} => p \in Panes
    BY <1>1, MessageFields
  <1>3. \A y : /\ Released(p, y).to = pane[p].sidecar /\ Released(p, y).surface = y
               /\ Released(p, y).life = replies[pane[p].sidecar]
    BY DEF Released
  <1>4. CASE ConsumeRing
    <2>1. /\ sends' = OldRing(p) /\ taken.kind = "ring" /\ UNCHANGED replies
      BY <1>4 DEF ConsumeRing, Consuming
    <2>2. CASE pane[p].ring # 0 /\ Connected(p)
      <3>1. sends' = [k \in 1 .. Cardinality(Slots) |-> Released(p, <<pane[p].ring, k - 1>>)]
        BY <2>1, <2>2 DEF OldRing
      <3>2. \A k \in DOMAIN sends' : sends'[k] = Released(p, <<pane[p].ring, k - 1>>)
        BY <3>1
      <3>3. \A k \in DOMAIN sends' : \E y : y[1] = pane[p].ring /\ sends'[k] = Released(p, y)
        BY <3>2
      <3>. QED BY <1>2, <1>3, <2>1, <2>2, <3>3
    <2>3. CASE ~(pane[p].ring # 0 /\ Connected(p))
      <3>1. sends' = <<>>
        BY <2>1, <2>3 DEF OldRing
      <3>. QED BY <3>1
    <2>. QED BY <2>2, <2>3
  <1>5. CASE ConsumeFrame
    <2>1. /\ sends' = Previous(p, taken.slot) /\ taken.kind = "frame" /\ UNCHANGED replies /\ pane[p].ring # 0
      BY <1>5 DEF ConsumeFrame, Consuming
    <2>2. \/ sends' = <<>>
          \/ Connected(p) /\ sends' = <<Released(p, <<pane[p].ring, pane[p].displayed>>)>>
      BY <2>1 DEF Previous
    <2>3. CASE sends' = <<>>
      BY <2>3
    <2>4. CASE Connected(p) /\ sends' = <<Released(p, <<pane[p].ring, pane[p].displayed>>)>>
      <3>1. \A k \in DOMAIN sends' : sends'[k] = Released(p, <<pane[p].ring, pane[p].displayed>>)
        BY <2>4
      <3>. QED BY <1>2, <1>3, <2>1, <2>4, <3>1
    <2>. QED BY <2>2, <2>3, <2>4
  <1>6. CASE ~ConsumeRing /\ ~ConsumeFrame
    <2>1. sends' = sends
      BY <1>6 DEF Consume, ConsumeHello, ConsumeGap, ConsumeBrokenRing, RefuseRing, RefuseFrame, ConsumeEnded, Settle
    <2>. QED BY <1>1, <2>1
  <1>. QED BY <1>4, <1>5, <1>6

LEMMA ConsumeReaching ==
  ASSUME OneSidecar, Typing, Threading, RingsKnown, Bound, Ordered, Hosted, Greeted, Awaited, Consume
  PROVE  Reaching'
  <1> SUFFICES ASSUME NEW k \in DOMAIN sends', NEW out, out = sends'[k], out.surface \in away'
      PROVE  out.to = rings'[out.surface[1]].sidecar /\ Reaches(out)'
    BY DEF Reaching
  <1> DEFINE p == taken.pane
  <1>1. UNCHANGED <<rings, away, life>>
    BY ConsumeHolds, ConsumeRings
  <1>2. /\ p \in Panes /\ pane[p].ring # 0 /\ UNCHANGED replies
        /\ out.to = pane[p].sidecar /\ out.life = replies[pane[p].sidecar]
        /\ out.surface[1] = pane[p].ring
    BY ConsumeSends
  <1>3. InUse(pane[p].ring)
    <2>1. InUse(out.surface[1])
      BY <1>1, InUseKnown
    <2>. QED BY <1>2, <2>1
  <1>4. pane[p].sidecar = rings[pane[p].ring].sidecar /\ replies[pane[p].sidecar] = life[pane[p].sidecar]
    BY <1>2, <1>3, HeldReaches
  <1>. QED BY <1>1, <1>2, <1>4 DEF Reaches

\* Of a ring that goes every surface goes back; of a frame that is replaced its own.
LEMMA ConsumeAwaited ==
  ASSUME OneSidecar, Typing, Threading, RingsKnown, Bound, Ordered, Hosted, Greeted, Arriving, Awaited, Consume
  PROVE  Awaited'
  <1>1. /\ UNCHANGED <<rings, away, returned>> /\ sends = <<>> /\ refused \subseteq refused'
        /\ taken \in Messages /\ 1 \in DOMAIN Stream /\ Stream[1] = taken /\ Knows(taken)
        /\ pane \in [Panes -> PaneRings]
    BY ConsumeHolds, ConsumeRings, StreamRest, StreamKnown DEF Typing, ChannelTyped
  <1> SUFFICES ASSUME NEW x \in away
      PROVE  \/ x[1] \in refused' \/ InFlight(x)' \/ Displayed(x)' \/ Sending(x)'
             \/ \E k \in DOMAIN returned[rings[x[1]].sidecar] : returned[rings[x[1]].sidecar][k] = x
    BY <1>1 DEF Awaited
  <1>0. PICK n, i, p : n = x[1] /\ i = x[2] /\ p = rings[n].pane
    OBVIOUS
  <1>2. /\ x = <<n, i>> /\ i \in Slots /\ n \in Rings /\ n # 0 /\ InUse(n)
        /\ n \in DOMAIN rings /\ p \in Panes
    BY <1>0, InUseKnown DEF Rings
  <1>3. ASSUME NEW m, pane' = [pane EXCEPT ![p].displayed = m]
        PROVE  pane'[p].ring = pane[p].ring /\ pane'[p].displayed = m
    <2>1. pane[p] \in PaneRings /\ pane'[p] = [pane[p] EXCEPT !.displayed = m]
      BY <1>1, <1>2, <1>3
    <2>. QED BY <2>1 DEF PaneRings
  <1>4. CASE Signaled(taken, x)
    <2>1. taken.kind = "frame" /\ taken.ring = n /\ taken.slot = i
      BY <1>0, <1>4 DEF Signaled
    <2>2. taken.pane = p
      BY <1>0, <1>1, <2>1 DEF Knows, Announced
    <2>3. n \in refused \/ Comes(n, 1)
      BY <1>0, <1>1, <1>4 DEF Arriving
    <2>4. CASE n \in refused
      BY <1>0, <1>1, <2>4
    <2>5. CASE Comes(n, 1)
      <3>1. pane[p].ring = n
        <4>1. \A j \in DOMAIN Stream : ~(j < 1)
          BY StreamRest
        <4>. QED BY <1>0, <2>5, <4>1 DEF Comes
      <3>2. ConsumeFrame
        BY <1>2, <2>1, <2>2, <3>1 DEF Consume, ConsumeHello, ConsumeGap, ConsumeRing, ConsumeBrokenRing, RefuseRing,
               RefuseFrame, ConsumeEnded, Consuming
      <3>3. pane' = [pane EXCEPT ![p].displayed = i]
        BY <2>1, <2>2, <3>2 DEF ConsumeFrame
      <3>4. x = Picture(p)'
        BY <1>2, <1>3, <3>1, <3>3 DEF Picture
      <3>. QED BY <1>2, <3>4 DEF Displayed
    <2>. QED BY <2>3, <2>4, <2>5
  <1>5. CASE Displayed(x)
    <2>1. pane[p].ring = n /\ pane[p].displayed = i
      <3>1. PICK r \in Panes : x = Picture(r)
        BY <1>5 DEF Displayed
      <3>2. pane[r].ring = n /\ pane[r].displayed = i
        BY <1>0, <3>1 DEF Picture
      <3>3. r = p
        BY <1>0, <1>2, <3>2 DEF RingsKnown, Announced
      <3>. QED BY <3>2, <3>3
    <2>2. Connected(p)
      BY <1>2, <2>1, HeldReaches
    <2>3. CASE pane'[p] = pane[p]
      <3>1. x = Picture(p)'
        BY <1>2, <2>1, <2>3 DEF Picture
      <3>. QED BY <1>2, <3>1 DEF Displayed
    <2>4. CASE ConsumeRing /\ taken.pane = p
      <3>1. sends' = [k \in 1 .. Cardinality(Slots) |-> Released(p, <<n, k - 1>>)]
        BY <1>2, <2>1, <2>2, <2>4 DEF ConsumeRing, OldRing
      <3>2. i + 1 \in 1 .. Cardinality(Slots) /\ (i + 1) - 1 = i
        <4>1. Cardinality(Slots) \in Nat /\ Slots = 0 .. Cardinality(Slots) - 1
          BY SlotsAssumption, FS_CardinalityType
        <4>. QED BY <1>2, <4>1
      <3>3. i + 1 \in DOMAIN sends' /\ sends'[i + 1] = Released(p, <<n, i>>)
        BY <3>1, <3>2
      <3>4. sends'[i + 1].surface = x
        BY <1>2, <3>3 DEF Released
      <3>. QED BY <3>3, <3>4 DEF Sending, Carries
    <2>5. CASE ConsumeBrokenRing /\ taken.pane = p
      <3>1. n \in refused'
        BY <1>2, <2>1, <2>5 DEF ConsumeBrokenRing
      <3>. QED BY <1>0, <3>1
    <2>6. CASE ConsumeEnded /\ taken.pane = p
      <3>1. taken.kind = "ended"
        BY <2>6 DEF ConsumeEnded, Consuming
      <3>2. Finds(Stream, Held[p], p, taken.ring, 1)
        BY <1>1, <2>6, <3>1 DEF Ordered, InOrder
      <3>3. taken.ring = n
        <4>1. Held[p] = n
          BY <1>2, <2>1 DEF Held
        <4>. QED BY <1>2, <3>2, <4>1 DEF Finds
      <3>. QED BY <1>1, <1>2, <3>1, <3>3 DEF Arriving
    <2>7. CASE ConsumeFrame /\ taken.pane = p
      <3>1. pane' = [pane EXCEPT ![p].displayed = taken.slot] /\ sends' = Previous(p, taken.slot)
        BY <2>7 DEF ConsumeFrame
      <3>2. CASE taken.slot = i
        <4>1. x = Picture(p)'
          BY <1>2, <1>3, <2>1, <3>1, <3>2 DEF Picture
        <4>. QED BY <1>2, <4>1 DEF Displayed
      <3>3. CASE taken.slot # i
        <4>1. sends' = <<Released(p, x)>>
          BY <1>2, <2>1, <2>2, <3>1, <3>3, NoneApart DEF Previous
        <4>2. 1 \in DOMAIN sends' /\ sends'[1].surface = x
          BY <4>1 DEF Released
        <4>. QED BY <4>2 DEF Sending, Carries
      <3>. QED BY <3>2, <3>3
    <2>8. CASE taken.pane # p
      <3>1. \/ pane' = pane
            \/ \E m : pane' = [pane EXCEPT ![taken.pane].ring = m, ![taken.pane].displayed = None]
            \/ \E m : pane' = [pane EXCEPT ![taken.pane].displayed = m]
        BY DEF Consume, ConsumeHello, ConsumeGap, ConsumeRing, ConsumeBrokenRing, RefuseRing, ConsumeFrame,
               RefuseFrame, ConsumeEnded, ReleaseRing, channelVars
      <3>2. pane'[p] = pane[p]
        BY <1>1, <1>2, <2>8, <3>1
      <3>. QED BY <2>3, <3>2
    <2>9. CASE ConsumeHello \/ ConsumeGap \/ RefuseRing \/ RefuseFrame
      <3>1. pane' = pane
        BY <2>9 DEF ConsumeHello, ConsumeGap, RefuseRing, RefuseFrame, channelVars
      <3>. QED BY <2>3, <3>1
    <2>. QED BY <2>4, <2>5, <2>6, <2>7, <2>8, <2>9 DEF Consume
  <1>6. CASE InFlight(x) /\ ~Signaled(taken, x)
    BY <1>6, ConsumeStream
  <1>7. ~Sending(x)
    BY <1>1 DEF Sending, Carries
  <1>. QED BY <1>1, <1>4, <1>5, <1>6, <1>7 DEF Awaited

LEMMA ConsumeDue ==
  ASSUME OneSidecar, Typing, Threading, RingsKnown, Bound, Ordered, Hosted, Due, Consume PROVE Due'
  <1>1. UNCHANGED open
    BY StreamTail
  <1>. QED BY <1>1, ConsumeGreeted, ConsumeArriving, ConsumeReaching, ConsumeAwaited DEF Due

\* What is sent back of a surface that is awaited comes to who awaits it.
LEMMA SendReleasedDue ==
  ASSUME Typing, Threading, RingsKnown, Bound, Due, SendReleased PROVE Due'
  <1>1. /\ UNCHANGED <<rings, current, away, pane, open, life, replies, refused>> /\ Stream' = Stream
        /\ sends # <<>> /\ sends' = Tail(sends)
        /\ \/ /\ Head(sends).to \in Sidecars
              /\ returned' = [returned EXCEPT ![Head(sends).to] = Append(@, Head(sends).surface)]
           \/ ~Reaches(Head(sends)) /\ UNCHANGED returned
        /\ sends \in Seq(Sends) /\ returned \in [Sidecars -> Seq(Surfaces)]
    <2>1. UNCHANGED <<life, replies, refused>>
      BY DEF SendReleased, channelVars
    <2>2. sends \in Seq(Sends) /\ returned \in [Sidecars -> Seq(Surfaces)] /\ sends # <<>>
      BY SendReleasedKeeps DEF Typing, ThreadsTyped, SidecarsTyped
    <2>3. Head(sends) \in Sends
      BY <2>2
    <2>4. \/ /\ Head(sends).to \in Sidecars
             /\ returned' = [returned EXCEPT ![Head(sends).to] = Append(@, Head(sends).surface)]
          \/ ~Reaches(Head(sends)) /\ UNCHANGED returned
      BY <2>3 DEF SendReleased, Sends
    <2>. QED BY <2>1, <2>2, <2>4, SendReleasedKeeps
  <1> SUFFICES ASSUME open.registered PROVE (Greeted /\ Arriving /\ Reaching /\ Awaited)'
    BY <1>1 DEF Due
  <1>2. Greeted /\ Arriving /\ Reaching /\ Awaited
    BY DEF Due
  <1>3. Greeted' /\ Arriving'
    <2>1. Greeted'
      BY <1>1, <1>2 DEF Greeted, Introduces, InUse
    <2>2. Arriving'
      BY <1>1, <1>2 DEF Arriving, Comes, InUse
    <2>. QED BY <2>1, <2>2
  <1>4. /\ DOMAIN sends' \subseteq Nat /\ Head(sends) = sends[1] /\ 1 \in DOMAIN sends
        /\ \A k \in DOMAIN sends' : k + 1 \in DOMAIN sends /\ sends'[k] = sends[k + 1]
    <2>1. PICK q, z : q = sends /\ z = sends'
      OBVIOUS
    <2>2. /\ q \in Seq(Sends) /\ q # <<>> /\ z = Tail(q)
      BY <1>1, <2>1
    <2>3. /\ Len(q) \in Nat /\ DOMAIN q = 1 .. Len(q) /\ Len(q) > 0 /\ z \in Seq(Sends) /\ Len(z) = Len(q) - 1
          /\ \A k \in 1 .. Len(q) - 1 : z[k] = q[k + 1]
      BY <2>2, Elements
    <2>4. DOMAIN z = 1 .. Len(q) - 1
      BY <2>3, Elements
    <2>5. Head(q) = q[1]
      BY <2>2
    <2>. QED BY <2>1, <2>3, <2>4, <2>5
  <1>5. Reaching'
    <2>1. \A out : Reaches(out)' <=> Reaches(out)
      BY <1>1 DEF Reaches
    <2>2. \A k \in DOMAIN sends' : \A out : out = sends'[k] /\ out.surface \in away =>
            out.to = rings[out.surface[1]].sidecar /\ Reaches(out)
      BY <1>2, <1>4 DEF Reaching
    <2>3. \A k \in DOMAIN sends' : \A out : out = sends'[k] /\ out.surface \in away' =>
            out.to = rings'[out.surface[1]].sidecar /\ Reaches(out)'
      BY <1>1, <2>1, <2>2
    <2>. QED BY <2>3 DEF Reaching
  <1>6. Awaited'
    <2> SUFFICES ASSUME NEW x \in away
        PROVE  \/ x[1] \in refused \/ InFlight(x)' \/ Displayed(x)' \/ Sending(x)'
               \/ \E k \in DOMAIN returned'[rings[x[1]].sidecar] : returned'[rings[x[1]].sidecar][k] = x
      BY <1>1, <1>2 DEF Awaited
    <2> DEFINE s == rings[x[1]].sidecar
    <2>0. s \in Sidecars /\ x \in Surfaces
      BY <1>2, InUseKnown
    <2>1. (InFlight(x)' <=> InFlight(x)) /\ (Displayed(x)' <=> Displayed(x))
      BY <1>1 DEF InFlight, Displayed, Picture
    <2>2. CASE Sending(x)
      <3>1. Head(sends).surface = x \/ Sending(x)'
        BY <1>1, <2>2, CarriesTail DEF Sending
      <3>2. CASE Head(sends).surface = x
        <4>1. Head(sends).to = s /\ Reaches(Head(sends))
          BY <1>2, <1>4, <3>2 DEF Reaching
        <4>2. returned' = [returned EXCEPT ![s] = Append(@, x)]
          BY <1>1, <3>2, <4>1
        <4>3. returned'[s] = Append(returned[s], x) /\ returned[s] \in Seq(Surfaces)
          BY <1>1, <2>0, <4>2
        <4>4. Len(returned[s]) + 1 \in DOMAIN returned'[s] /\ returned'[s][Len(returned[s]) + 1] = x
          BY <2>0, <4>3
        <4>. QED BY <4>4
      <3>. QED BY <3>1, <3>2
    <2>3. ASSUME NEW k \in DOMAIN returned[s], returned[s][k] = x
          PROVE  k \in DOMAIN returned'[s] /\ returned'[s][k] = x
      <3>1. returned[s] \in Seq(Surfaces)
        BY <1>1, <2>0
      <3>2. CASE returned'[s] = returned[s]
        BY <2>3, <3>2
      <3>3. CASE returned'[s] # returned[s]
        <4>1. returned'[s] = Append(returned[s], Head(sends).surface)
          BY <1>1, <2>0, <3>3
        <4>. QED BY <2>3, <3>1, <4>1
      <3>. QED BY <3>2, <3>3
    <2>. QED BY <1>2, <2>1, <2>2, <2>3 DEF Awaited
  <1>. QED BY <1>3, <1>5, <1>6

\* The stream with a message more.
Grows(m) ==
  /\ inbox' = Append(inbox, m)
  /\ UNCHANGED <<at, taken, open, pane, sends, replies, refused>>
  /\ open.registered

LEMMA StreamGrows ==
  ASSUME Typing, Threading, NEW m \in Messages, Grows(m)
  PROVE  /\ Len(Stream) \in Nat /\ Len(Stream') = Len(Stream) + 1 /\ DOMAIN Stream' \subseteq Nat
         /\ Len(Stream) + 1 \in DOMAIN Stream' /\ Stream'[Len(Stream) + 1] = m
         /\ \A k \in DOMAIN Stream : k \in DOMAIN Stream' /\ Stream'[k] = Stream[k] /\ k \in Nat /\ k < Len(Stream) + 1
         /\ \A k \in DOMAIN Stream' : k \in DOMAIN Stream \/ k = Len(Stream) + 1
         /\ \A x : InFlight(x)' <=> Signaled(m, x) \/ InFlight(x)
  <1>1. PICK q, z : q = Stream /\ z = Stream'
    OBVIOUS
  <1>2. q \in Seq(Messages) /\ z = Append(q, m)
    BY <1>1, StreamTyped, StreamAppend DEF Grows
  <1>3. /\ Len(q) \in Nat /\ DOMAIN q = 1 .. Len(q) /\ z \in Seq(Messages) /\ Len(z) = Len(q) + 1
        /\ z[Len(q) + 1] = m /\ \A k \in 1 .. Len(q) : z[k] = q[k]
    BY <1>2, Elements
  <1>4. DOMAIN z = 1 .. Len(q) + 1
    BY <1>3, Elements
  <1>5. \A x : Signals(z, x) <=> Signaled(m, x) \/ Signals(q, x)
    BY <1>2, SignalsAppend
  <1>6. /\ Len(q) + 1 \in 1 .. Len(q) + 1 /\ 1 .. Len(q) + 1 \subseteq Nat
        /\ \A k \in 1 .. Len(q) : k \in 1 .. Len(q) + 1 /\ k \in Nat /\ k < Len(q) + 1
        /\ \A k \in 1 .. Len(q) + 1 : k \in 1 .. Len(q) \/ k = Len(q) + 1
    BY <1>3
  <1>. QED BY <1>1, <1>3, <1>4, <1>5, <1>6 DEF InFlight

\* The ring is in use as it was, by the same process.
Remains(n) == /\ InUse(n) /\ rings'[n] = rings[n]
              /\ life'[rings[n].sidecar] = life[rings[n].sidecar]

LEMMA GrowsGreeted ==
  ASSUME Typing, Threading, Greeted, NEW m \in Messages, Grows(m),
         \A s \in Sidecars : IF Greets(m, s) THEN Introduces(m, s)' ELSE life'[s] = life[s],
         \A n \in Rings : InUse(n)' =>
           /\ ~Greets(m, rings'[n].sidecar) /\ life'[rings'[n].sidecar] # 0
           /\ Remains(n) \/ Brings(m, n)
  PROVE  Greeted'
  <1>1. PICK q, z, e : q = Stream /\ z = Stream' /\ e = Len(Stream) + 1
    OBVIOUS
  <1>2. /\ DOMAIN z \subseteq Nat /\ e \in DOMAIN z /\ z[e] = m
        /\ \A k \in DOMAIN q : k \in DOMAIN z /\ z[k] = q[k] /\ k \in Nat /\ k < e
        /\ \A k \in DOMAIN z : k \in DOMAIN q \/ k = e
    BY <1>1, StreamGrows
  <1>3. \A s \in Sidecars : \/ Introduces(m, s)'
                               \/ life'[s] = life[s]
    OBVIOUS
  <1>4. ASSUME NEW s \in Sidecars, life'[s] # 0
        PROVE  replies'[s] = life'[s] \/ \E j \in DOMAIN z : \A o : o = z[j] => Introduces(o, s)'
    <2>1. CASE Introduces(m, s)'
      BY <1>2, <2>1
    <2>2. CASE ~Introduces(m, s)'
      <3>1. life'[s] = life[s] /\ \A o : Introduces(o, s)' <=> Introduces(o, s)
        BY <2>2 DEF Introduces
      <3>2. replies[s] = life[s] \/ \E j \in DOMAIN q : Introduces(q[j], s)
        BY <1>1, <1>4, <3>1 DEF Greeted
      <3>. QED BY <1>2, <3>1, <3>2 DEF Grows
    <2>. QED BY <2>1, <2>2
  <1>5. ASSUME NEW s \in Sidecars, NEW k \in DOMAIN z, Greets(z[k], s)
        PROVE  \E j \in DOMAIN z : j >= k /\ \A o : o = z[j] => Introduces(o, s)'
    <2>1. CASE Greets(m, s)
      <3>1. e >= k
        BY <1>2
      <3>. QED BY <1>2, <2>1, <3>1
    <2>2. CASE ~Greets(m, s)
      <3>1. life'[s] = life[s] /\ \A o : Introduces(o, s)' <=> Introduces(o, s)
        BY <2>2 DEF Introduces
      <3>2. k \in DOMAIN q /\ q[k] = z[k]
        BY <1>2, <1>5, <2>2
      <3>3. \E j \in DOMAIN q : j >= k /\ Introduces(q[j], s)
        BY <1>1, <1>5, <3>2 DEF Greeted
      <3>. QED BY <1>2, <3>1, <3>3
    <2>. QED BY <2>1, <2>2
  <1>6. ASSUME NEW n \in Rings, InUse(n)', NEW j \in DOMAIN z, NEW o, o = z[j],
               Introduces(o, rings[n].sidecar)'
        PROVE  \E k \in DOMAIN z : k > j /\ Brings(z[k], n)
    <2>1. o # m
      BY <1>6 DEF Introduces
    <2>2. j \in DOMAIN q /\ q[j] = o /\ e > j
      BY <1>2, <1>6, <2>1
    <2>3. CASE Brings(m, n)
      BY <1>2, <2>2, <2>3
    <2>4. CASE Remains(n)
      <3>1. Introduces(o, rings[n].sidecar)
        BY <1>6, <2>4 DEF Remains, Introduces
      <3>2. \E k \in DOMAIN q : k > j /\ Brings(q[k], n)
        BY <1>1, <1>6, <2>2, <2>4, <3>1 DEF Greeted, Remains
      <3>. QED BY <1>2, <3>2
    <2>. QED BY <1>6, <2>3, <2>4
  <1>. QED BY <1>1, <1>4, <1>5, <1>6 DEF Greeted, Introduces

LEMMA GrowsArriving ==
  ASSUME Typing, Threading, RingsKnown, Arriving, Awaited, NEW m \in Messages, Grows(m),
         \A n \in DOMAIN rings : n \in DOMAIN rings' /\ rings'[n] = rings[n] /\ ~Brings(m, n),
         \A n : InUse(n)' => InUse(n) \/ Brings(m, n),
         \A x \in away' : /\ x[1] \in DOMAIN rings
                          /\ x \in away \/ ~InFlight(x)
                          /\ Signaled(m, x) => \E s \in Sidecars, p \in Panes : current[s][p] = x[1],
         \A s \in Sidecars, p \in Panes : current'[s][p] # 0 =>
           current'[s][p] = current[s][p] \/ Brings(m, current'[s][p]),
         m.kind = "ended" => \A n : n = m.ring => ~InUse(n)'
  PROVE  Arriving'
  <1>1. PICK q, z, e : q = Stream /\ z = Stream' /\ e = Len(Stream) + 1
    OBVIOUS
  <1>2. /\ DOMAIN z \subseteq Nat /\ e \in DOMAIN z /\ z[e] = m /\ Len(z) = e /\ e \in Nat
        /\ \A k \in DOMAIN q : k \in DOMAIN z /\ z[k] = q[k] /\ k \in Nat /\ k < e
        /\ \A k \in DOMAIN z : k \in DOMAIN q \/ k = e
    BY <1>1, StreamGrows
  <1>3. ASSUME NEW n \in DOMAIN rings, NEW k \in Nat, NEW l \in Nat, k <= l, Comes(n, k) PROVE Comes(n, l)'
    <2>1. CASE pane[rings[n].pane].ring = n
      BY <1>3, <2>1 DEF Comes, Grows
    <2>2. ASSUME NEW j \in DOMAIN q, j < k, Brings(q[j], n) PROVE Comes(n, l)'
      <3>1. j \in DOMAIN z /\ j < l /\ Brings(z[j], n)
        BY <1>2, <1>3, <2>2
      <3>. QED BY <1>1, <3>1 DEF Comes
    <2>. QED BY <1>1, <1>3, <2>1, <2>2 DEF Comes
  <1>4. ASSUME NEW s \in Sidecars, NEW p \in Panes, NEW n, n = current[s][p], n # 0, NEW l \in {e, e + 1}
        PROVE  n \in refused' \/ Comes(n, l)'
    <2>1. n \in DOMAIN rings /\ e <= l /\ l \in Nat
      BY <1>2, <1>4 DEF RingsKnown, Announced
    <2>2. n \in refused \/ Comes(n, e)
      BY <1>1, <1>4 DEF Arriving
    <2>. QED BY <1>2, <1>3, <2>1, <2>2 DEF Grows
  <1>5. ASSUME NEW k \in DOMAIN z, NEW x \in away', Signaled(z[k], x) PROVE x[1] \in refused' \/ Comes(x[1], k)'
    <2>1. CASE k \in DOMAIN q
      <3>1. Signaled(q[k], x)
        BY <1>2, <1>5, <2>1
      <3>2. x \in away
        BY <1>1, <2>1, <3>1 DEF InFlight, Signals
      <3>3. x[1] \in refused \/ Comes(x[1], k)
        BY <1>1, <2>1, <3>1, <3>2 DEF Arriving
      <3>4. k \in Nat /\ k <= k
        BY <1>2
      <3>. QED BY <1>3, <3>3, <3>4 DEF Grows
    <2>2. CASE k = e
      <3>1. Signaled(m, x)
        BY <1>2, <1>5, <2>2
      <3>2. PICK s \in Sidecars, p \in Panes : current[s][p] = x[1]
        BY <3>1
      <3>3. x[1] # 0
        <4>1. x[1] \in DOMAIN rings /\ rings \in Seq([pane : Panes, sidecar : Sidecars])
          BY DEF Typing, SidecarsTyped
        <4>. QED BY <4>1
      <3>. QED BY <1>4, <2>2, <3>2, <3>3
    <2>. QED BY <1>2, <2>1, <2>2
  <1>6. ASSUME NEW s \in Sidecars, NEW p \in Panes, NEW n, n = current'[s][p], n # 0
        PROVE  n \in refused' \/ Comes(n, e + 1)'
    <2>1. CASE n = current[s][p]
      BY <1>4, <1>6, <2>1
    <2>2. CASE Brings(m, n)
      <3>1. e \in DOMAIN z /\ e < e + 1 /\ Brings(z[e], n)
        BY <1>2, <2>2
      <3>. QED BY <1>1, <3>1 DEF Comes
    <2>. QED BY <1>6, <2>1, <2>2
  <1>7. ASSUME NEW k \in DOMAIN z, NEW n, n = z[k].ring, z[k].kind = "ended" PROVE ~InUse(n)'
    <2>1. CASE k = e
      BY <1>2, <1>7, <2>1
    <2>2. CASE k \in DOMAIN q
      <3>1. ~InUse(n) /\ Knows(q[k]) /\ q[k].ring = n /\ q[k].kind = "ended"
        BY <1>1, <1>2, <1>7, <2>2, StreamKnown DEF Arriving
      <3>2. ~Brings(m, n)
        BY <3>1 DEF Knows, Announced
      <3>. QED BY <3>1, <3>2
    <2>. QED BY <1>2, <2>1, <2>2
  <1>8. \A s \in Sidecars, p \in Panes : \A n, l : n = current'[s][p] /\ n # 0 /\ l = Len(Stream') + 1 =>
          n \in refused' \/ Comes(n, l)'
    BY <1>1, <1>2, <1>6
  <1>9. \A k \in DOMAIN Stream' : Stream'[k].kind = "ended" => \A n : n = Stream'[k].ring => ~InUse(n)'
    BY <1>1, <1>7
  <1>10. \A k \in DOMAIN Stream', x \in away' : Signaled(Stream'[k], x) => x[1] \in refused' \/ Comes(x[1], k)'
    BY <1>1, <1>5
  <1>. QED BY <1>8, <1>9, <1>10 DEF Arriving

\* Nothing becomes of the surfaces awaited, unless one is signaled that was nowhere.
LEMMA GrowsAwaited ==
  ASSUME Typing, Threading, RingsKnown, Reaching, Awaited, NEW m \in Messages, Grows(m),
         \A n \in DOMAIN rings : n \in DOMAIN rings' /\ rings'[n] = rings[n],
         \A x \in away' : \/ /\ x \in away /\ returned'[rings[x[1]].sidecar] = returned[rings[x[1]].sidecar]
                             /\ life'[rings[x[1]].sidecar] = life[rings[x[1]].sidecar]
                          \/ x[1] \in DOMAIN rings /\ Signaled(m, x) /\ ~Sending(x)
  PROVE  Reaching' /\ Awaited'
  <1>1. \A x : InFlight(x)' <=> Signaled(m, x) \/ InFlight(x)
    BY StreamGrows
  <1>2. \A x : (Displayed(x)' <=> Displayed(x)) /\ (Sending(x)' <=> Sending(x))
    BY DEF Displayed, Sending, Picture, Grows
  <1>3. Awaited'
    BY <1>1, <1>2 DEF Awaited, Grows
  <1>4. ASSUME NEW k \in DOMAIN sends', NEW out, out = sends'[k], out.surface \in away'
        PROVE  out.to = rings'[out.surface[1]].sidecar /\ Reaches(out)'
    <2>1. k \in DOMAIN sends /\ out = sends[k] /\ UNCHANGED replies
      BY <1>4 DEF Grows
    <2>2. Sending(out.surface)
      BY <2>1 DEF Sending, Carries
    <2>3. /\ out.surface \in away
          /\ life'[rings[out.surface[1]].sidecar] = life[rings[out.surface[1]].sidecar]
      BY <1>4, <2>2
    <2>4. out.to = rings[out.surface[1]].sidecar /\ Reaches(out) /\ out.surface[1] \in DOMAIN rings
      BY <2>1, <2>3 DEF Reaching, Awaited
    <2>. QED BY <2>1, <2>3, <2>4 DEF Reaches
  <1>5. Reaching'
    BY <1>4 DEF Reaching
  <1>. QED BY <1>3, <1>5

\* A process that comes up awaits nothing, and introduces itself.
LEMMA HelloDue ==
  ASSUME Typing, Threading, RingsKnown, Due, open.registered, NEW s \in Sidecars, SendHello(s) PROVE Due'
  <1>1. PICK m : m = [kind |-> "hello", sidecar |-> s, life |-> life[s] + 1]
    OBVIOUS
  <1>2. /\ life \in [Sidecars -> 0 .. MaxLives] /\ away \subseteq Surfaces
        /\ current \in [Sidecars -> [Panes -> 0 .. MaxRings]]
        /\ returned \in [Sidecars -> Seq(Surfaces)]
        /\ Greeted /\ Arriving /\ Reaching /\ Awaited
    BY DEF Typing, SidecarsTyped, Due
  <1>3. /\ life[s] < MaxLives /\ life' = [life EXCEPT ![s] = @ + 1]
        /\ returned' = [returned EXCEPT ![s] = <<>>]
        /\ current' = [current EXCEPT ![s] = [p \in Panes |-> 0]]
        /\ away' = away \ Owned(s) /\ inbox' = Append(inbox, m) /\ rings' = rings
    BY <1>1 DEF SendHello
  <1>4. /\ m \in Messages /\ m.kind = "hello" /\ m.sidecar = s /\ m.life = life'[s] /\ life'[s] # 0
        /\ \A r \in Sidecars : r # s => /\ life'[r] = life[r] /\ returned'[r] = returned[r] /\ current'[r] = current[r]
        /\ \A p \in Panes : current'[s][p] = 0
    <2>1. m \in Messages
      BY <1>1, <1>2, <1>3, BoundsAssumption DEF Messages, Lives
    <2>. QED BY <1>1, <1>2, <1>3, <2>1
  <1>5. Grows(m)
    BY <1>3 DEF Grows, SendHello, channelVars, threadVars
  <1>6. \A x \in away' : x \in away /\ x[1] \in DOMAIN rings /\ rings[x[1]].sidecar \in Sidecars
                         /\ rings[x[1]].sidecar # s
    <2> SUFFICES ASSUME NEW x \in away'
        PROVE  x \in away /\ x[1] \in DOMAIN rings /\ rings[x[1]].sidecar \in Sidecars /\ rings[x[1]].sidecar # s
      OBVIOUS
    <2>1. x \in away /\ x \notin Owned(s)
      BY <1>3
    <2>2. /\ x[1] \in DOMAIN rings /\ rings[x[1]].sidecar \in Sidecars
          /\ x = <<x[1], x[2]>> /\ x[2] \in Slots
      BY <1>2, <2>1, InUseKnown DEF InUse
    <2>3. x \in SurfacesOf(x[1])
      BY <2>2 DEF SurfacesOf
    <2>. QED BY <2>1, <2>2, <2>3 DEF Owned
  <1>7. ASSUME NEW n, InUse(n)' PROVE InUse(n) /\ n \in Rings /\ rings[n].sidecar \in Sidecars /\ rings[n].sidecar # s
    <2>0. n \in DOMAIN rings /\ n # 0 /\ rings[n].pane \in Panes /\ rings[n].sidecar \in Sidecars
      <3>1. rings \in Seq([pane : Panes, sidecar : Sidecars]) /\ n \in DOMAIN rings
        BY <1>3, <1>7 DEF InUse, Typing, SidecarsTyped
      <3>2. rings[n] \in [pane : Panes, sidecar : Sidecars] /\ n \in 1 .. Len(rings) /\ Len(rings) \in Nat
        BY <3>1, Elements
      <3>. QED BY <3>1, <3>2
    <2>1. CASE \E i \in Slots : <<n, i>> \in away'
      <3>1. PICK i \in Slots : <<n, i>> \in away'
        BY <2>1
      <3>2. PICK x : x = <<n, i>>
        OBVIOUS
      <3>3. x[1] = n /\ x \in away' /\ x \in away
        BY <1>6, <3>1, <3>2
      <3>. QED BY <1>2, <1>6, <3>3, InUseKnown
    <2>2. CASE current'[rings[n].sidecar][rings[n].pane] = n
      <3>1. rings[n].sidecar # s
        BY <1>4, <2>0, <2>2
      <3>2. InUse(n)
        BY <1>4, <2>0, <2>2, <3>1 DEF InUse
      <3>. QED BY <1>2, <2>0, <3>1, <3>2, InUseKnown
    <2>. QED BY <1>3, <1>7, <2>1, <2>2 DEF InUse
  <1>8. Greeted'
    <2>1. \A r \in Sidecars : IF Greets(m, r) THEN Introduces(m, r)' ELSE life'[r] = life[r]
      BY <1>4 DEF Greets, Introduces
    <2>2. \A n \in Rings : InUse(n)' =>
            /\ ~Greets(m, rings'[n].sidecar) /\ life'[rings'[n].sidecar] # 0
            /\ Remains(n) \/ Brings(m, n)
      BY <1>2, <1>3, <1>4, <1>7 DEF Greeted, Greets, Remains
    <2>. QED BY <1>2, <1>4, <1>5, <2>1, <2>2, GrowsGreeted
  <1>9. Arriving'
    <2>1. \A n : ~Brings(m, n) /\ ~Signaled(m, n) /\ m.kind # "ended"
      BY <1>4 DEF Brings, Signaled
    <2>2. \A r \in Sidecars, p \in Panes : current'[r][p] # 0 => current'[r][p] = current[r][p]
      BY <1>4
    <2>3. \A n \in DOMAIN rings : n \in DOMAIN rings' /\ rings'[n] = rings[n] /\ ~Brings(m, n)
      BY <1>3, <2>1
    <2>4. \A n : InUse(n)' => InUse(n) \/ Brings(m, n)
      BY <1>7
    <2>5. \A x \in away' : /\ x[1] \in DOMAIN rings /\ (x \in away \/ ~InFlight(x))
                           /\ Signaled(m, x) => \E r \in Sidecars, p \in Panes : current[r][p] = x[1]
      BY <1>6, <2>1
    <2>. QED BY <1>2, <1>4, <1>5, <2>1, <2>2, <2>3, <2>4, <2>5, GrowsArriving, ZenonT(30)
  <1>10. Reaching' /\ Awaited'
    <2>1. \A x \in away' : /\ x \in away /\ returned'[rings[x[1]].sidecar] = returned[rings[x[1]].sidecar]
                           /\ life'[rings[x[1]].sidecar] = life[rings[x[1]].sidecar]
      BY <1>4, <1>6
    <2>. QED BY <1>2, <1>3, <1>4, <1>5, <2>1, GrowsAwaited
  <1>. QED BY <1>8, <1>9, <1>10 DEF Due

\* A message of a process that is up, about a ring of its own.
LEMMA SendDue ==
  ASSUME Typing, Threading, RingsKnown, Due, open.registered, NEW m \in Messages, Grows(m), m.kind # "hello",
         UNCHANGED <<life, returned>>,
         \A n \in DOMAIN rings : n \in DOMAIN rings' /\ rings'[n] = rings[n] /\ ~Brings(m, n),
         \A n : InUse(n)' => InUse(n) \/ (Brings(m, n) /\ n \in DOMAIN rings' /\ life[rings'[n].sidecar] # 0),
         \A x \in away' : \/ x \in away
                          \/ x[1] \in DOMAIN rings /\ Signaled(m, x) /\ ~InFlight(x) /\ ~Sending(x),
         \A x : Signaled(m, x) => \E s \in Sidecars, p \in Panes : current[s][p] = x[1],
         \A s \in Sidecars, p \in Panes : current'[s][p] # 0 =>
           current'[s][p] = current[s][p] \/ Brings(m, current'[s][p]),
         m.kind = "ended" => \A n : n = m.ring => ~InUse(n)'
  PROVE  Due'
  <1>1. Greeted /\ Arriving /\ Reaching /\ Awaited
    BY DEF Due
  <1>2. Greeted'
    <2>1. \A r \in Sidecars : IF Greets(m, r) THEN Introduces(m, r)' ELSE life'[r] = life[r]
      BY DEF Greets
    <2>2. ASSUME NEW n \in Rings, InUse(n)'
          PROVE  /\ ~Greets(m, rings'[n].sidecar) /\ life'[rings'[n].sidecar] # 0
                 /\ Remains(n) \/ Brings(m, n)
      <3>1. CASE InUse(n)
        <4>1. life[rings[n].sidecar] # 0 /\ rings'[n] = rings[n]
          BY <1>1, <3>1 DEF Greeted, InUse
        <4>. QED BY <3>1, <4>1 DEF Remains, Greets
      <3>2. CASE Brings(m, n) /\ life[rings'[n].sidecar] # 0
        BY <3>2 DEF Greets
      <3>. QED BY <2>2, <3>1, <3>2
    <2>. QED BY <1>1, <2>1, <2>2, GrowsGreeted
  <1>3. Arriving'
    <2>1. \A n : InUse(n)' => InUse(n) \/ Brings(m, n)
      OBVIOUS
    <2>2. \A x \in away' : /\ x[1] \in DOMAIN rings /\ (x \in away \/ ~InFlight(x))
                           /\ Signaled(m, x) => \E s \in Sidecars, p \in Panes : current[s][p] = x[1]
      BY <1>1 DEF Awaited
    <2>. QED BY <1>1, <2>1, <2>2, GrowsArriving
  <1>4. Reaching' /\ Awaited'
    BY <1>1, GrowsAwaited
  <1>. QED BY <1>2, <1>3, <1>4 DEF Due

\* What a sidecar takes it no longer awaits.
LEMMA TakeReleasedDue ==
  ASSUME Typing, Threading, RingsKnown, Due, open.registered, NEW s \in Sidecars, TakeReleased(s) PROVE Due'
  <1>1. /\ returned[s] # <<>> /\ returned' = [returned EXCEPT ![s] = Tail(@)]
        /\ away' = away \ ({Head(returned[s])} \cap Owned(s))
        /\ UNCHANGED <<replies, pane, open, at, taken, inbox, sends, life, rings, current, refused>>
    BY DEF TakeReleased, channelVars, threadVars
  <1>2. returned \in [Sidecars -> Seq(Surfaces)] /\ Greeted /\ Arriving /\ Reaching /\ Awaited
    BY DEF Typing, SidecarsTyped, Due
  <1>3. Stream' = Stream /\ away' \subseteq away
    BY <1>1 DEF Stream, AtWork
  <1>4. \A n : InUse(n)' => InUse(n)
    BY <1>1, <1>3 DEF InUse
  <1>5. Greeted'
    BY <1>1, <1>2, <1>3, <1>4 DEF Greeted, Introduces
  <1>6. Arriving'
    <2>1. \A n, k : Comes(n, k)' <=> Comes(n, k)
      BY <1>1, <1>3 DEF Comes
    <2>2. \A k \in DOMAIN Stream', x \in away' : Signaled(Stream'[k], x) => x[1] \in refused' \/ Comes(x[1], k)'
      BY <1>1, <1>2, <1>3, <2>1 DEF Arriving
    <2>3. \A r \in Sidecars, p \in Panes : \A n, l : n = current'[r][p] /\ n # 0 /\ l = Len(Stream') + 1 =>
            n \in refused' \/ Comes(n, l)'
      BY <1>1, <1>2, <1>3, <2>1 DEF Arriving
    <2>4. \A k \in DOMAIN Stream' : Stream'[k].kind = "ended" => \A n : n = Stream'[k].ring => ~InUse(n)'
      BY <1>2, <1>3, <1>4 DEF Arriving
    <2>. QED BY <2>2, <2>3, <2>4 DEF Arriving
  <1>7. Reaching'
    BY <1>1, <1>2, <1>3 DEF Reaching, Reaches
  <1>8. Awaited'
    <2> SUFFICES ASSUME NEW x \in away'
        PROVE  /\ x[1] \in DOMAIN rings
               /\ \/ x[1] \in refused \/ InFlight(x) \/ Displayed(x) \/ Sending(x)
                  \/ \E k \in DOMAIN returned'[rings[x[1]].sidecar] : returned'[rings[x[1]].sidecar][k] = x
      <3>1. \A x : /\ InFlight(x)' <=> InFlight(x)
                   /\ Displayed(x)' <=> Displayed(x)
                   /\ Sending(x)' <=> Sending(x)
        BY <1>1, <1>3 DEF InFlight, Displayed, Sending, Picture
      <3>. QED BY <1>1, <3>1 DEF Awaited
    <2>1. /\ x \in away /\ x[1] \in DOMAIN rings /\ rings[x[1]].sidecar \in Sidecars
          /\ x = <<x[1], x[2]>> /\ x[2] \in Slots
      BY <1>2, <1>3, InUseKnown DEF InUse
    <2>2. CASE rings[x[1]].sidecar # s
      <3>1. returned'[rings[x[1]].sidecar] = returned[rings[x[1]].sidecar]
        BY <1>1, <1>2, <2>1, <2>2
      <3>. QED BY <1>2, <2>1, <3>1 DEF Awaited
    <2>3. CASE rings[x[1]].sidecar = s
      <3>1. x \in Owned(s)
        BY <2>1, <2>3 DEF Owned, SurfacesOf
      <3>2. x # Head(returned[s])
        BY <1>1, <3>1
      <3>3. ASSUME NEW k \in DOMAIN returned[s], returned[s][k] = x
            PROVE  \E j \in DOMAIN returned'[s] : returned'[s][j] = x
        <4>1. PICK q, z : q = returned[s] /\ z = returned'[s]
          OBVIOUS
        <4>2. q \in Seq(Surfaces) /\ q # <<>> /\ z = Tail(q)
          BY <1>1, <1>2, <4>1
        <4>3. /\ Len(q) \in Nat /\ DOMAIN q = 1 .. Len(q) /\ z \in Seq(Surfaces) /\ Len(z) = Len(q) - 1
              /\ \A j \in 1 .. Len(q) - 1 : z[j] = q[j + 1]
          BY <4>2, Elements
        <4>4. DOMAIN z = 1 .. Len(q) - 1 /\ Head(q) = q[1]
          BY <4>2, <4>3, Elements
        <4>5. k # 1 /\ k \in 1 .. Len(q)
          BY <3>2, <3>3, <4>1, <4>3, <4>4
        <4>6. k - 1 \in 1 .. Len(q) - 1 /\ (k - 1) + 1 = k
          BY <4>3, <4>5
        <4>. QED BY <3>3, <4>1, <4>3, <4>4, <4>6
      <3>. QED BY <1>2, <2>1, <2>3, <3>3 DEF Awaited
    <2>. QED BY <2>2, <2>3
  <1>. QED BY <1>5, <1>6, <1>7, <1>8 DEF Due

LEMMA SidecarDue ==
  ASSUME Typing, Threading, RingsKnown, Exclusively, Due, NEW s \in Sidecars, Sidecar(s) PROVE Due'
  <1>0. /\ rings \in Seq([pane : Panes, sidecar : Sidecars]) /\ Len(rings) \in Nat /\ away \subseteq Surfaces
        /\ current \in [Sidecars -> [Panes -> 0 .. MaxRings]] /\ returned \in [Sidecars -> Seq(Surfaces)]
        /\ open.registered => Greeted /\ Arriving /\ Reaching /\ Awaited
    BY DEF Typing, SidecarsTyped, Due
  <1>1. UNCHANGED <<pane, open, at, job, taken, sends, replies, refused>>
    BY DEF Sidecar, SendHello, TakeReleased, SendRing, SendGap, SendEnded, SendFrame, Send,
           channelVars, threadVars
  <1> SUFFICES ASSUME open.registered PROVE Due'
    BY <1>1 DEF Due
  <1>2. ASSUME NEW m, inbox' = Append(inbox, m) PROVE Grows(m)
    BY <1>1, <1>2 DEF Grows
  <1>3. ASSUME NEW p \in Panes, NEW n, n = current[s][p], n # 0
        PROVE  /\ n \in Rings /\ n \in DOMAIN rings /\ rings[n].pane = p /\ rings[n].sidecar = s /\ InUse(n)
    BY <1>0, <1>3, InUseKnown DEF InUse
  <1>4. CASE SendHello(s)
    BY <1>4, HelloDue
  <1>5. ASSUME NEW p \in Panes, SendRing(s, p) PROVE Due'
    <2>1. PICK n, g, m : /\ n = Len(rings) + 1 /\ g = [pane |-> p, sidecar |-> s]
                         /\ m = [kind |-> "ring", pane |-> p, ring |-> n]
      OBVIOUS
    <2>2. /\ inbox' = Append(inbox, m) /\ rings' = Append(rings, g) /\ n <= MaxRings
          /\ current' = [current EXCEPT ![s][p] = n] /\ UNCHANGED <<life, away, returned>> /\ life[s] # 0
      BY <1>5, <2>1 DEF SendRing, Send
    <2>3. m \in Messages /\ m.kind = "ring" /\ m.ring = n
      BY <1>0, <2>1, <2>2, BoundsAssumption DEF Messages, Rings
    <2>4. /\ \A k \in DOMAIN rings : k \in DOMAIN rings' /\ rings'[k] = rings[k] /\ k # n
          /\ \A k \in DOMAIN rings' : k \in DOMAIN rings \/ k = n
          /\ n \in DOMAIN rings' /\ rings'[n].sidecar = s /\ rings'[n].pane = p /\ n # 0
      <3>1. g \in [pane : Panes, sidecar : Sidecars] /\ g.sidecar = s /\ g.pane = p
        BY <2>1
      <3>2. /\ rings' \in Seq([pane : Panes, sidecar : Sidecars]) /\ Len(rings') = n /\ rings'[n] = g
            /\ \A k \in 1 .. Len(rings) : rings'[k] = rings[k]
            /\ DOMAIN rings = 1 .. Len(rings)
        BY <1>0, <2>1, <2>2, <3>1, Elements
      <3>3. DOMAIN rings' = 1 .. n
        BY <3>2, Elements
      <3>4. /\ \A k \in 1 .. Len(rings) : k \in 1 .. n /\ k # n
            /\ \A k \in 1 .. n : k \in 1 .. Len(rings) \/ k = n
            /\ n \in 1 .. n /\ n # 0
        BY <1>0, <2>1, SMTT(30)
      <3>. QED BY <3>1, <3>2, <3>3, <3>4
    <2>5. \A r \in Sidecars, q \in Panes : current'[r][q] = IF r = s /\ q = p THEN n ELSE current[r][q]
      BY <1>0, <2>2
    <2>6. \A k \in DOMAIN rings : rings[k].pane \in Panes /\ rings[k].sidecar \in Sidecars
      <3>1. \A k \in DOMAIN rings : rings[k] \in [pane : Panes, sidecar : Sidecars]
        BY <1>0, Elements
      <3>. QED BY <3>1
    <2>7. ASSUME NEW k, InUse(k)' PROVE InUse(k) \/ k = n
      <3>1. CASE k \in DOMAIN rings
        <4>1. rings'[k] = rings[k] /\ k # n
          BY <2>4, <3>1
        <4>2. current'[rings[k].sidecar][rings[k].pane] = k => current[rings[k].sidecar][rings[k].pane] = k
          BY <2>5, <2>6, <3>1, <4>1
        <4>. QED BY <2>2, <2>7, <3>1, <4>1, <4>2 DEF InUse
      <3>2. CASE k \notin DOMAIN rings
        BY <2>4, <2>7, <3>2 DEF InUse
      <3>. QED BY <3>1, <3>2
    <2>8. \A k : Brings(m, k) <=> k = n
      BY <2>3 DEF Brings
    <2>9. \A x : ~Signaled(m, x)
      BY <2>3 DEF Signaled
    <2>10. \A k : InUse(k)' => InUse(k) \/ (Brings(m, k) /\ k \in DOMAIN rings' /\ life[rings'[k].sidecar] # 0)
      BY <2>2, <2>4, <2>7, <2>8
    <2>11. \A k \in DOMAIN rings : k \in DOMAIN rings' /\ rings'[k] = rings[k] /\ ~Brings(m, k)
      BY <2>4, <2>8
    <2>12. \A r \in Sidecars, q \in Panes : current'[r][q] # 0 =>
             current'[r][q] = current[r][q] \/ Brings(m, current'[r][q])
      BY <2>5, <2>8
    <2>. QED BY <1>2, <2>2, <2>3, <2>9, <2>10, <2>11, <2>12, SendDue
  <1>6. ASSUME NEW p \in Panes, NEW i \in Slots, SendFrame(s, p, i) PROVE Due'
    <2>1. PICK n, x, m : /\ n = current[s][p] /\ x = <<n, i>>
                         /\ m = [kind |-> "frame", pane |-> p, ring |-> n, slot |-> i]
      OBVIOUS
    <2>2. /\ inbox' = Append(inbox, m) /\ n # 0 /\ x \notin away /\ away' = away \cup {x}
          /\ UNCHANGED <<life, returned, rings, current>>
      BY <1>6, <2>1 DEF SendFrame, Send
    <2>3. n \in Rings /\ n \in DOMAIN rings /\ rings[n].pane = p /\ rings[n].sidecar = s /\ InUse(n)
      BY <1>3, <2>1, <2>2
    <2>4. m \in Messages /\ m.kind = "frame" /\ m.ring = n /\ m.slot = i
      BY <2>1, <2>3 DEF Messages
    <2>5. x \in Surfaces /\ x[1] = n /\ Live(x)
      BY <2>1, <2>3 DEF Surfaces, Live
    <2>6. ~InFlight(x) /\ ~Sending(x)
      BY <2>2, <2>3, <2>5 DEF Exclusively, Exclusive, Abroad
    <2>7. \A y : Signaled(m, y) <=> y = x
      BY <2>1, <2>4, MessageFields DEF Signaled
    <2>8. \A k : ~Brings(m, k)
      BY <2>4 DEF Brings
    <2>9. ASSUME NEW k, InUse(k)' PROVE InUse(k)
      <3>1. CASE \E j \in Slots : <<k, j>> = x
        <4>1. k = n
          BY <2>1, <3>1
        <4>. QED BY <2>3, <4>1
      <3>2. CASE ~\E j \in Slots : <<k, j>> = x
        BY <2>2, <2>9, <3>2 DEF InUse
      <3>. QED BY <3>1, <3>2
    <2>10. /\ \A k \in DOMAIN rings : k \in DOMAIN rings' /\ rings'[k] = rings[k] /\ ~Brings(m, k)
           /\ \A y \in away' : y \in away \/ (y[1] \in DOMAIN rings /\ Signaled(m, y) /\ ~InFlight(y) /\ ~Sending(y))
           /\ \A y : Signaled(m, y) => \E r \in Sidecars, q \in Panes : current[r][q] = y[1]
      BY <2>1, <2>2, <2>3, <2>5, <2>6, <2>7, <2>8
    <2>. QED BY <1>2, <2>2, <2>4, <2>9, <2>10, SendDue
  <1>7. ASSUME NEW p \in Panes, SendGap(s, p) PROVE Due'
    <2>1. PICK n, m : n = current[s][p] /\ m = [kind |-> "gap", pane |-> p, ring |-> n]
      OBVIOUS
    <2>2. inbox' = Append(inbox, m) /\ n # 0 /\ UNCHANGED <<life, returned, rings, current, away>>
      BY <1>7, <2>1 DEF SendGap, Send
    <2>3. n \in Rings
      BY <1>3, <2>1, <2>2
    <2>4. m \in Messages /\ m.kind = "gap"
      BY <2>1, <2>3 DEF Messages
    <2>5. \A k : ~Brings(m, k) /\ ~Signaled(m, k) /\ (InUse(k)' <=> InUse(k))
      BY <2>2, <2>4 DEF Brings, Signaled, InUse
    <2>. QED BY <1>2, <2>2, <2>4, <2>5, SendDue
  <1>8. ASSUME NEW p \in Panes, SendEnded(s, p) PROVE Due'
    <2>1. PICK n, m : n = current[s][p] /\ m = [kind |-> "ended", pane |-> p, ring |-> n]
      OBVIOUS
    <2>2. /\ inbox' = Append(inbox, m) /\ n # 0 /\ UNCHANGED <<life, returned, rings>>
          /\ current' = [current EXCEPT ![s][p] = 0] /\ away' = away \ SurfacesOf(n)
      BY <1>8, <2>1 DEF SendEnded, Send
    <2>3. n \in Rings /\ rings[n].pane = p /\ rings[n].sidecar = s
      BY <1>3, <2>1, <2>2
    <2>4. m \in Messages /\ m.kind = "ended" /\ m.ring = n
      BY <2>1, <2>3 DEF Messages
    <2>5. /\ \A r \in Sidecars, q \in Panes : current'[r][q] # 0 => current'[r][q] = current[r][q]
          /\ current'[s][p] = 0
      BY <1>0, <2>2
    <2>6. ~InUse(n)'
      <3>1. \A i \in Slots : <<n, i>> \notin away'
        BY <2>2 DEF SurfacesOf
      <3>. QED BY <2>2, <2>3, <2>5, <3>1 DEF InUse
    <2>7. ASSUME NEW k, InUse(k)' PROVE InUse(k)
      <3>1. k \in DOMAIN rings /\ k # 0
        BY <1>0, <2>2, <2>7 DEF InUse
      <3>2. rings[k].pane \in Panes /\ rings[k].sidecar \in Sidecars
        <4>1. rings[k] \in [pane : Panes, sidecar : Sidecars]
          BY <1>0, <3>1, Elements
        <4>. QED BY <4>1
      <3>. QED BY <2>2, <2>5, <2>7, <3>1, <3>2 DEF InUse
    <2>8. \A k : ~Brings(m, k) /\ ~Signaled(m, k)
      BY <2>4 DEF Brings, Signaled
    <2>. QED BY <1>2, <2>2, <2>4, <2>5, <2>6, <2>7, <2>8, SendDue
  <1>9. CASE TakeReleased(s)
    BY <1>9, TakeReleasedDue
  <1>. QED BY <1>4, <1>5, <1>6, <1>7, <1>8, <1>9 DEF Sidecar

LEMMA InitDue == Init => Hosted /\ Due
  <1> SUFFICES ASSUME Init PROVE Hosted /\ Due
    OBVIOUS
  <1>1. Stream = <<>> /\ DOMAIN Stream = {}
    <2>1. ~AtWork /\ inbox = <<>>
      BY ThreadsApart DEF Init, AtWork
    <2>2. Stream = <<>> \o <<>>
      BY <2>1 DEF Stream
    <2>. QED BY <2>2
  <1>2. Hosted
    BY ThreadsApart DEF Init, Hosted
  <1>3. away = {} /\ rings = <<>> /\ sends = <<>> /\ \A s \in Sidecars : life[s] = 0 /\ \A p \in Panes : current[s][p] = 0
    BY DEF Init
  <1>4. Greeted /\ Arriving /\ Reaching /\ Awaited
    BY <1>1, <1>3 DEF Greeted, Arriving, Reaching, Awaited, InUse
  <1>. QED BY <1>2, <1>4 DEF Due

\* A step of the application, but of the receive thread with the lock.
LEMMA ApplicationDue ==
  ASSUME Typing, Threading, RingsKnown, Bound, Due, Still,
         UNCHANGED <<life, replies, refused>>,
         open'.registered => \A p \in Panes : /\ pane'[p].ring = pane[p].ring
                                              /\ pane'[p].displayed = pane[p].displayed
  PROVE  Due'
  <1>1. CASE open'.registered
    <2>1. Stream' = Stream /\ open.registered
      BY <1>1 DEF Still
    <2>. QED BY <2>1, DueStays DEF Still
  <1>2. CASE ~open'.registered
    BY <1>2 DEF Due
  <1>. QED BY <1>1, <1>2

LEMMA NextDue ==
  OneSidecar /\ Keeping /\ Streaming /\ Hosted /\ Due /\ [Next]_vars => Hosted' /\ Due'
  <1> SUFFICES ASSUME OneSidecar, Keeping, Streaming, Hosted, Due, [Next]_vars PROVE Hosted' /\ Due'
    OBVIOUS
  <1>1. Typing /\ Threading /\ RingsKnown /\ Bound /\ Ordered /\ Exclusively
    BY DEF Keeping, Streaming
  <1>2. ASSUME UNCHANGED vars PROVE Due'
    <2>1. Stream' = Stream /\ UNCHANGED <<rings, current, away, sends, returned, life, replies, refused, pane, open>>
      BY <1>2 DEF vars, Stream, AtWork
    <2>. QED BY <1>1, <2>1, DueStays
  <1>3. ASSUME NEW s \in Sidecars, Sidecar(s) PROVE Due'
    BY <1>1, <1>3, SidecarDue
  <1>4. ASSUME NEW t \in Callers, BeginCall(t) PROVE Due'
    <2>1. UNCHANGED <<pane, life, replies, refused>>
      BY <1>4 DEF BeginCall, BeginBind, BeginBindView, BeginUnbindView, BeginSnapshot, BeginClose, Begin, sidecarVars
    <2>. QED BY <1>1, <1>4, <2>1, BeginStill, ApplicationDue
  <1>5. ASSUME NEW t \in Callers, Call(t) PROVE Due'
    <2>1. CASE Close(t)
      <3>1. ~open'.registered
        <4>1. ~open.registered
          BY <1>1, <2>1 DEF Close, Bound
        <4>. QED BY <1>1, <2>1, <4>1 DEF Close, Typing, ChannelTyped
      <3>. QED BY <3>1 DEF Due
    <2>2. CASE ~Close(t)
      <3>1. /\ UNCHANGED <<life, replies, refused>>
            /\ \/ pane' = pane \/ \E v : pane' = [pane EXCEPT ![job[t].pane].view = v]
               \/ pane' = [pane EXCEPT ![job[t].pane].sidecar = job[t].sidecar]
        BY <1>5, <2>2 DEF Call, Bind, BindView, UnbindView, Snapshot, ReadPixels, Beside, sidecarVars, channelVars
      <3>2. \A p \in Panes : /\ pane[p] \in PaneRings
                             /\ \/ pane'[p] = pane[p]
                                \/ \E v : pane'[p] = [pane[p] EXCEPT !.view = v]
                                \/ pane'[p] = [pane[p] EXCEPT !.sidecar = job[t].sidecar]
        <4>1. pane \in [Panes -> PaneRings]
          BY <1>1 DEF Typing, ChannelTyped
        <4>2. CASE \E v : pane' = [pane EXCEPT ![job[t].pane].view = v]
          BY <4>1, <4>2
        <4>3. CASE pane' = [pane EXCEPT ![job[t].pane].sidecar = job[t].sidecar]
          BY <4>1, <4>3
        <4>. QED BY <3>1, <4>1, <4>2, <4>3
      <3>3. \A p \in Panes : pane'[p].ring = pane[p].ring /\ pane'[p].displayed = pane[p].displayed
        BY <3>2 DEF PaneRings
      <3>. QED BY <1>1, <1>5, <3>1, <3>3, CallStill, ApplicationDue
    <2>. QED BY <2>1, <2>2
  <1>6. ASSUME NEW t \in Threads, Lock(t) \/ Show(t) PROVE Due'
    <2>1. UNCHANGED <<pane, life, replies, refused>>
      BY <1>6 DEF Lock, Show, sidecarVars, channelVars
    <2>. QED BY <1>1, <1>6, <2>1, ThreadStill, ApplicationDue
  <1>7. ASSUME Receive \/ Sent PROVE Due'
    <2>1. UNCHANGED <<pane, life, replies, refused>>
      BY <1>7 DEF Receive, Sent, sidecarVars, channelVars
    <2>. QED BY <1>1, <1>7, <2>1, ReceiverStill, ApplicationDue
  <1>8. ASSUME Consume PROVE Due'
    BY <1>1, <1>8, ConsumeDue
  <1>9. ASSUME SendReleased PROVE Due'
    BY <1>1, <1>9, SendReleasedDue
  <1>10. (\E s \in Sidecars : Sidecar(s)) \/ Application \/ UNCHANGED vars
    BY NextSplits
  <1>11. Receiver \in Threads /\ Callers \subseteq Threads
    BY ThreadsApart
  <1>12. Due'
    BY <1>2, <1>3, <1>4, <1>5, <1>6, <1>7, <1>8, <1>9, <1>10, <1>11
       DEF Application, ReceiverStep, CallerStep
  <1>. QED BY <1>1, <1>12, NextHosted

\* If no two sidecars draw one pane, a surface a sidecar waits for is in the
\* application's hands, on its way to them or on its way back, unless the channel
\* refused a ring or is closed: whatever the order of rings, frames, ends, restarts and
\* calls, Channel.consume drops no surface but with its ring, and what it gives back
\* goes to the process that waits for it (channel.go:291-401).
THEOREM IndicesGoBack == OneSidecar => (Spec => []EveryIndexGoesBack)
  <1> SUFFICES ASSUME OneSidecar PROVE Spec => []EveryIndexGoesBack
    OBVIOUS
  <1>1. Init => Streaming /\ Hosted /\ Due
    BY InitStreams, InitDue
  <1>2. Keeping /\ Streaming /\ Hosted /\ Due /\ Keeping' /\ [Next]_vars => (Streaming /\ Hosted /\ Due)'
    BY NextStreams, NextDue
  <1>3. Keeping /\ Due => EveryIndexGoesBack
    <2> SUFFICES ASSUME Keeping, Due, open.registered, NEW x \in away, x[1] \notin refused
        PROVE  \/ \E k \in DOMAIN inbox : Signaled(inbox[k], x)
               \/ Signaled(taken, x)
               \/ \E k \in DOMAIN sends : sends[k].surface = x
               \/ \E k \in DOMAIN returned[rings[x[1]].sidecar] : returned[rings[x[1]].sidecar][k] = x
               \/ \E p \in Panes : x = <<pane[p].ring, pane[p].displayed>>
      BY DEF EveryIndexGoesBack
    <2>1. \/ InFlight(x) \/ Displayed(x) \/ Sending(x)
          \/ \E k \in DOMAIN returned[rings[x[1]].sidecar] : returned[rings[x[1]].sidecar][k] = x
      BY DEF Due, Awaited
    <2>2. InFlight(x) => Signaled(taken, x) \/ \E k \in DOMAIN inbox : Signaled(inbox[k], x)
      <3>1. inbox \in Seq(Messages) /\ (AtWork => taken \in Messages)
        BY StreamTyped DEF Keeping, Typing, SidecarsTyped
      <3>2. Stream = (IF AtWork THEN <<taken>> ELSE <<>>) \o inbox
        BY DEF Stream
      <3>3. \A k \in DOMAIN Stream : Stream[k] = taken \/ \E i \in DOMAIN inbox : Stream[k] = inbox[i]
        <4>1. CASE AtWork
          BY <3>1, <3>2, <4>1
        <4>2. CASE ~AtWork
          BY <3>1, <3>2, <4>2
        <4>. QED BY <4>1, <4>2
      <3>. QED BY <3>3 DEF InFlight, Signals
    <2>. QED BY <2>1, <2>2 DEF Displayed, Picture, Sending, Carries
  <1>4. Spec => []Keeping
    BY SpecKeeps
  <1>. QED BY <1>1, <1>2, <1>3, <1>4, PTL DEF Spec

=============================================================================
