---------------------------- MODULE ChannelProofs ----------------------------
(***************************************************************************)
(* Theorems about Channel, for any panes, sidecars, rings, threads and     *)
(* bounds.                                                                 *)
(***************************************************************************)
EXTENDS Channel, FiniteSetTheorems, TLAPS

-----------------------------------------------------------------------------
(* Messages *)

LEMMA SlotsCounted ==
  Cardinality(Slots) \in Nat /\ \A k \in 1 .. Cardinality(Slots) : k - 1 \in Slots
  <1>1. Cardinality(Slots) \in Nat /\ Slots = 0 .. Cardinality(Slots) - 1
    BY SlotsAssumption, FS_CardinalityType
  <1> DEFINE n == Cardinality(Slots)
  <1> HIDE DEF n
  <1>2. n \in Nat /\ Slots = 0 .. n - 1
    BY <1>1 DEF n
  <1>3. \A k \in 1 .. n : k - 1 \in Slots
    BY <1>2
  <1>. QED BY <1>1, <1>3 DEF n

\* What a message of a kind says.
LEMMA MessageFields ==
  ASSUME NEW message \in Messages
  PROVE  /\ message # <<>>
         /\ message.kind \in {"hello", "ring", "gap", "ended", "frame"}
         /\ message.kind = "hello" => message.sidecar \in Sidecars /\ message.life \in Lives
         /\ message.kind # "hello" => message.pane \in Panes /\ message.ring \in Rings
         /\ message.kind = "frame" => message.slot \in Slots
  BY DEF Messages

-----------------------------------------------------------------------------
(* Types *)

ChannelTyped ==
  /\ replies \in [Sidecars -> 0 .. MaxLives]
  /\ pane \in [Panes -> PaneRings]
  /\ open \in [registered : BOOLEAN, port : BOOLEAN]

ThreadsTyped ==
  /\ mu \in Threads \cup {Free}
  /\ at \in [Threads -> {"idle", "lock", "held", "sends", "show", "read"}]
  /\ job \in [Callers -> Jobs]
  /\ taken \in Messages \cup {<<>>}
  /\ sends \in Seq(Sends)
  /\ lease \in [Threads -> Leases]

SurfacesTyped ==
  /\ refs \in [Surfaces -> Int]
  /\ layer \in [Views -> Surfaces \cup {NoSurface}]

SidecarsTyped ==
  /\ inbox \in Seq(Messages)
  /\ returned \in [Sidecars -> Seq(Surfaces)]
  /\ life \in [Sidecars -> 0 .. MaxLives]
  /\ rings \in Seq([pane : Panes, sidecar : Sidecars]) /\ Len(rings) <= MaxRings
  /\ current \in [Sidecars -> [Panes -> 0 .. MaxRings]]
  /\ away \subseteq Surfaces

HistoryTyped ==
  /\ refused \subseteq Rings
  /\ spent \in [messages : 0 .. MaxMessages, calls : 0 .. MaxCalls]

Typing == ChannelTyped /\ ThreadsTyped /\ SurfacesTyped /\ SidecarsTyped /\ HistoryTyped

\* Who is where: one thread at a time holds Channel.mu, the receive thread has a
\* message while it is at work, and only it and the committer borrow surfaces.
Threading ==
  /\ \A t \in Threads : at[t] = "held" <=> mu = t
  /\ at[Receiver] \in {"idle", "lock", "held", "sends", "show"}
  /\ at[Receiver] # "idle" => taken \in Messages
  /\ sends # <<>> => at[Receiver] = "sends"
  /\ \A t \in Threads : lease[t] # NoLease =>
       /\ t \in {Receiver, Committer} /\ at[t] \in {"sends", "show"}
       /\ lease[t].view \in Views /\ lease[t].surface \in Surfaces
  /\ \A t \in Callers :
       /\ at[t] \in {"idle", "lock", "held", "show", "read"}
       /\ at[t] # "idle" /\ job[t].op # "close" => job[t].pane \in Panes
       /\ at[t] \in {"lock", "held"} /\ job[t].op = "bindView" => t = Committer
       /\ at[t] = "show" => t = Committer

LEMMA ThreadsApart ==
  /\ Receiver \in Threads /\ Receiver \notin Callers /\ Callers \subseteq Threads
  /\ Free \notin Threads /\ Committer \in Callers /\ Main \in Callers
  /\ \A t \in Threads : t \in Callers \/ t = Receiver
  BY ThreadsAssumption DEF Threads

LEMMA InitTyping == Init => Typing /\ Threading
  <1> SUFFICES ASSUME Init PROVE Typing /\ Threading
    OBVIOUS
  <1>1. ChannelTyped
    BY BoundsAssumption DEF Init, ChannelTyped, PaneRings, None
  <1>2. ThreadsTyped
    BY ThreadsApart DEF Init, ThreadsTyped, Jobs, NoJob, Leases, NoLease
  <1>3. SurfacesTyped /\ SidecarsTyped /\ HistoryTyped
    BY BoundsAssumption DEF Init, SurfacesTyped, SidecarsTyped, HistoryTyped
  <1>4. Threading
    BY ThreadsApart DEF Init, Threading
  <1>. QED BY <1>1, <1>2, <1>3, <1>4 DEF Typing

LEMMA SidecarTyping ==
  ASSUME Typing, Threading, NEW s \in Sidecars, Sidecar(s) PROVE Typing' /\ Threading'
  <1>1. /\ UNCHANGED <<replies, pane, open, mu, at, job, taken, sends, lease, refs, layer, refused>>
    BY DEF Sidecar, SendHello, TakeReleased, SendRing, SendGap, SendEnded, SendFrame, Send,
           channelVars, threadVars
  <1>2. ChannelTyped' /\ ThreadsTyped' /\ SurfacesTyped' /\ Threading'
    BY <1>1 DEF Typing, ChannelTyped, ThreadsTyped, SurfacesTyped, Threading
  <1>3. ASSUME NEW message \in Messages, Send(message)
        PROVE  inbox' \in Seq(Messages) /\ HistoryTyped' /\ UNCHANGED returned
    <2>1. inbox' \in Seq(Messages) /\ UNCHANGED returned
      BY <1>3 DEF Send, Typing, SidecarsTyped
    <2>2. HistoryTyped'
      BY <1>3, BoundsAssumption DEF Send, Typing, HistoryTyped
    <2>. QED BY <2>1, <2>2
  <1>4. CASE SendHello(s)
    <2>1. [kind |-> "hello", sidecar |-> s, life |-> life[s] + 1] \in Messages /\ life[s] + 1 \in Lives
      BY <1>4, BoundsAssumption DEF SendHello, Typing, SidecarsTyped, Messages, Lives
    <2>2. inbox' \in Seq(Messages)
      BY <1>4, <2>1 DEF SendHello, Typing, SidecarsTyped
    <2>3. /\ returned' \in [Sidecars -> Seq(Surfaces)] /\ life' \in [Sidecars -> 0 .. MaxLives]
          /\ current' \in [Sidecars -> [Panes -> 0 .. MaxRings]] /\ away' \subseteq Surfaces
          /\ rings' = rings
      BY <1>4, <2>1, BoundsAssumption DEF SendHello, Typing, SidecarsTyped, Lives
    <2>4. HistoryTyped'
      BY <1>4, BoundsAssumption DEF SendHello, Typing, HistoryTyped
    <2>. QED BY <1>2, <2>2, <2>3, <2>4 DEF Typing, SidecarsTyped
  <1>5. CASE TakeReleased(s)
    <2>1. returned' \in [Sidecars -> Seq(Surfaces)]
      BY <1>5 DEF TakeReleased, Typing, SidecarsTyped
    <2>. QED BY <1>2, <1>5, <2>1 DEF TakeReleased, Typing, SidecarsTyped, HistoryTyped
  <1>6. ASSUME NEW p \in Panes, SendRing(s, p) PROVE Typing'
    <2> DEFINE n == Len(rings) + 1
    <2>1. n \in Rings /\ n <= MaxRings
      BY <1>6, BoundsAssumption DEF SendRing, Rings, Typing, SidecarsTyped
    <2>2. [kind |-> "ring", pane |-> p, ring |-> n] \in Messages
      BY <2>1 DEF Messages
    <2>3. inbox' \in Seq(Messages) /\ HistoryTyped' /\ UNCHANGED returned
      BY <1>3, <1>6, <2>2 DEF SendRing
    <2>4. rings' \in Seq([pane : Panes, sidecar : Sidecars]) /\ Len(rings') <= MaxRings
      BY <1>6, <2>1, BoundsAssumption DEF SendRing, Typing, SidecarsTyped
    <2>5. current' \in [Sidecars -> [Panes -> 0 .. MaxRings]]
      BY <1>6, <2>1 DEF SendRing, Typing, SidecarsTyped, Rings
    <2>. QED BY <1>2, <1>6, <2>3, <2>4, <2>5 DEF SendRing, Typing, SidecarsTyped
  <1>7. ASSUME NEW p \in Panes, NEW i \in Slots, SendFrame(s, p, i) PROVE Typing'
    <2> DEFINE n == current[s][p]
    <2>1. n \in Rings
      BY <1>7, BoundsAssumption DEF SendFrame, Rings, Typing, SidecarsTyped
    <2>2. [kind |-> "frame", pane |-> p, ring |-> n, slot |-> i] \in Messages /\ <<n, i>> \in Surfaces
      BY <2>1 DEF Messages, Surfaces
    <2>3. inbox' \in Seq(Messages) /\ HistoryTyped' /\ UNCHANGED returned
      BY <1>3, <1>7, <2>2 DEF SendFrame
    <2>. QED BY <1>2, <1>7, <2>2, <2>3 DEF SendFrame, Typing, SidecarsTyped
  <1>8. ASSUME NEW p \in Panes, SendGap(s, p) \/ SendEnded(s, p) PROVE Typing'
    <2> DEFINE n == current[s][p]
    <2>1. n \in Rings
      BY <1>8, BoundsAssumption DEF SendGap, SendEnded, Rings, Typing, SidecarsTyped
    <2>2. /\ [kind |-> "gap", pane |-> p, ring |-> n] \in Messages
          /\ [kind |-> "ended", pane |-> p, ring |-> n] \in Messages
      BY <2>1 DEF Messages
    <2>3. inbox' \in Seq(Messages) /\ HistoryTyped' /\ UNCHANGED returned
      BY <1>3, <1>8, <2>2 DEF SendGap, SendEnded
    <2>4. /\ current' \in [Sidecars -> [Panes -> 0 .. MaxRings]] /\ away' \subseteq Surfaces
          /\ UNCHANGED <<life, rings>>
      <3>1. CASE SendGap(s, p)
        BY <3>1 DEF SendGap, Typing, SidecarsTyped
      <3>2. CASE SendEnded(s, p)
        <4>1. current' = [current EXCEPT ![s][p] = 0] /\ away' \subseteq away /\ UNCHANGED <<life, rings>>
          BY <3>2 DEF SendEnded
        <4>2. current' \in [Sidecars -> [Panes -> 0 .. MaxRings]]
          BY <4>1, BoundsAssumption DEF Typing, SidecarsTyped
        <4>. QED BY <4>1, <4>2 DEF Typing, SidecarsTyped
      <3>. QED BY <1>8, <3>1, <3>2
    <2>. QED BY <1>2, <2>3, <2>4 DEF Typing, SidecarsTyped
  <1>. QED BY <1>2, <1>4, <1>5, <1>6, <1>7, <1>8 DEF Sidecar

-----------------------------------------------------------------------------
(* What the steps of threads do *)

\* One thread moves on, and who holds the lock with it.
Moves(t, from, to) == at[t] = from /\ at' = [at EXCEPT ![t] = to]

\* Only the thread that holds the lock is held; a step of another thread, or one
\* that takes or leaves the lock, keeps it so.
LEMMA LockKept ==
  ASSUME Typing, Threading, NEW t \in Threads, NEW from, NEW to, Moves(t, from, to),
         to \in {"idle", "lock", "held", "sends", "show", "read"},
         \/ from # "held" /\ to # "held" /\ mu' = mu
         \/ from = "held" /\ to # "held" /\ mu' = Free
         \/ from # "held" /\ to = "held" /\ mu = Free /\ mu' = t
  PROVE  /\ at' \in [Threads -> {"idle", "lock", "held", "sends", "show", "read"}]
         /\ mu' \in Threads \cup {Free}
         /\ at'[t] = to /\ \A u \in Threads : u # t => at'[u] = at[u]
         /\ \A u \in Threads : at'[u] = "held" <=> mu' = u
  <1>1. /\ at' \in [Threads -> {"idle", "lock", "held", "sends", "show", "read"}]
        /\ at'[t] = to /\ \A u \in Threads : u # t => at'[u] = at[u]
    BY DEF Moves, Typing, ThreadsTyped
  <1>2. mu' \in Threads \cup {Free}
    BY DEF Typing, ThreadsTyped
  <1>3. \A u \in Threads : at[u] = "held" <=> mu = u
    BY DEF Threading
  <1>4. \A u \in Threads : at'[u] = "held" <=> mu' = u
    BY <1>1, <1>3, ThreadsApart DEF Moves
  <1>. QED BY <1>1, <1>2, <1>4

LEMMA LockTyping ==
  ASSUME Typing, Threading, NEW t \in Threads, Lock(t) PROVE Typing' /\ Threading'
  <1>1. /\ Moves(t, "lock", "held") /\ mu = Free /\ mu' = t
        /\ UNCHANGED <<replies, pane, open, job, taken, sends, lease, refs, layer, inbox, returned,
                       life, rings, current, away, refused, spent>>
    BY DEF Lock, Moves, channelVars, sidecarVars
  <1>2. /\ at' \in [Threads -> {"idle", "lock", "held", "sends", "show", "read"}]
        /\ mu' \in Threads \cup {Free} /\ at[t] = "lock"
        /\ at'[t] = "held" /\ \A u \in Threads : u # t => at'[u] = at[u]
        /\ \A u \in Threads : at'[u] = "held" <=> mu' = u
    BY <1>1, LockKept DEF Moves
  <1>3. Typing'
    BY <1>1, <1>2 DEF Typing, ChannelTyped, ThreadsTyped, SurfacesTyped, SidecarsTyped, HistoryTyped
  <1>4. Threading'
    BY <1>1, <1>2, ThreadsApart DEF Threading
  <1>. QED BY <1>3, <1>4

LEMMA CountTyped ==
  ASSUME refs \in [Surfaces -> Int], NEW dropped, NEW retained, Count(dropped, retained)
  PROVE  /\ refs' \in [Surfaces -> Int]
         /\ \A x \in Surfaces :
              refs'[x] = refs[x] - (IF x \in dropped THEN 1 ELSE 0) + (IF x \in retained THEN 1 ELSE 0)
  BY DEF Count

LEMMA HoldDisplayTyped ==
  ASSUME Typing, NEW t \in Threads, NEW view \in Views \cup {NoView}, NEW surface \in Surfaces,
         HoldDisplay(t, view, surface)
  PROVE  /\ lease' \in [Threads -> Leases] /\ refs' \in [Surfaces -> Int]
         /\ lease'[t] = IF view = NoView THEN NoLease ELSE [view |-> view, surface |-> surface]
         /\ \A u \in Threads : u # t => lease'[u] = lease[u]
         /\ \A x \in Surfaces : refs'[x] = refs[x] + (IF view # NoView /\ x = surface THEN 1 ELSE 0)
  <1>1. /\ lease' = [lease EXCEPT ![t] = IF view = NoView THEN NoLease
                                         ELSE [view |-> view, surface |-> surface]]
        /\ Count({}, IF view = NoView THEN {} ELSE {surface})
    BY DEF HoldDisplay
  <1>2. lease' \in [Threads -> Leases]
    BY <1>1 DEF Typing, ThreadsTyped, Leases, NoLease
  <1>3. /\ lease'[t] = IF view = NoView THEN NoLease ELSE [view |-> view, surface |-> surface]
        /\ \A u \in Threads : u # t => lease'[u] = lease[u]
    BY <1>1 DEF Typing, ThreadsTyped
  <1>4. /\ refs' \in [Surfaces -> Int]
        /\ \A x \in Surfaces : refs'[x] = refs[x] + (IF view # NoView /\ x = surface THEN 1 ELSE 0)
    BY <1>1, CountTyped DEF Typing, SurfacesTyped
  <1>. QED BY <1>2, <1>3, <1>4

LEMMA ShowTyping ==
  ASSUME Typing, Threading, NEW t \in Threads, Show(t) PROVE Typing' /\ Threading'
  <1>1. /\ Moves(t, "show", "idle") /\ mu' = mu
        /\ UNCHANGED <<replies, pane, open, sends, inbox, returned,
                       life, rings, current, away, refused, spent>>
        /\ layer' = [v \in Views |-> IF v = lease[t].view THEN lease[t].surface ELSE layer[v]]
        /\ Count({lease[t].surface}, {})
        /\ lease' = [lease EXCEPT ![t] = NoLease]
        /\ job' = [c \in Callers |-> IF c = t THEN NoJob ELSE job[c]]
        /\ taken' = IF t = Receiver THEN <<>> ELSE taken
    BY DEF Show, Moves, channelVars, sidecarVars
  <1>2. /\ at' \in [Threads -> {"idle", "lock", "held", "sends", "show", "read"}]
        /\ mu' \in Threads \cup {Free}
        /\ at'[t] = "idle" /\ at[t] = "show" /\ \A u \in Threads : u # t => at'[u] = at[u]
        /\ \A u \in Threads : at'[u] = "held" <=> mu' = u
    BY <1>1, LockKept DEF Moves
  <1>3. /\ lease' \in [Threads -> Leases] /\ lease'[t] = NoLease
        /\ \A u \in Threads : u # t => lease'[u] = lease[u]
    BY <1>1 DEF Typing, ThreadsTyped, Leases, NoLease
  <1>4. job' \in [Callers -> Jobs] /\ \A c \in Callers : c # t => job'[c] = job[c]
    BY <1>1 DEF Typing, ThreadsTyped, Jobs, NoJob
  <1>5. SurfacesTyped'
    <2>1. refs' \in [Surfaces -> Int]
      BY <1>1, CountTyped DEF Typing, SurfacesTyped
    <2>2. lease[t].surface \in Surfaces \cup {NoSurface}
      BY DEF Typing, ThreadsTyped, Leases
    <2>3. layer' \in [Views -> Surfaces \cup {NoSurface}]
      BY <1>1, <2>2 DEF Typing, SurfacesTyped
    <2>. QED BY <2>1, <2>3 DEF SurfacesTyped
  <1>6. ThreadsTyped'
    BY <1>1, <1>2, <1>3, <1>4 DEF Typing, ThreadsTyped
  <1>7. Typing'
    BY <1>1, <1>5, <1>6 DEF Typing, ChannelTyped, SidecarsTyped, HistoryTyped
  <1>8. Threading'
    BY <1>1, <1>2, <1>3, <1>4, ThreadsApart DEF Threading
  <1>. QED BY <1>7, <1>8

LEMMA ReceiveTyping ==
  ASSUME Typing, Threading, Receive \/ SendReleased \/ Sent PROVE Typing' /\ Threading'
  <1>1. Receiver \in Threads /\ Receiver \notin Callers
    BY ThreadsApart
  <1>2. CASE Receive
    <2>1. /\ UNCHANGED <<replies, pane, open, mu, job, sends, lease, refs, layer, returned, life,
                         rings, current, away, refused, spent>>
          /\ inbox # <<>> /\ inbox' = Tail(inbox)
          /\ \/ taken' = Head(inbox) /\ Moves(Receiver, "idle", "lock")
             \/ UNCHANGED <<taken, at>>
      BY <1>2 DEF Receive, Moves, channelVars
    <2>2. inbox' \in Seq(Messages) /\ Head(inbox) \in Messages
      BY <2>1 DEF Typing, SidecarsTyped
    <2>3. CASE taken' = Head(inbox) /\ Moves(Receiver, "idle", "lock")
      <3>1. /\ at' \in [Threads -> {"idle", "lock", "held", "sends", "show", "read"}]
            /\ mu' \in Threads \cup {Free} /\ at[Receiver] = "idle"
            /\ at'[Receiver] = "lock" /\ \A u \in Threads : u # Receiver => at'[u] = at[u]
            /\ \A u \in Threads : at'[u] = "held" <=> mu' = u
        BY <1>1, <2>1, <2>3, LockKept DEF Moves
      <3>2. Typing'
        BY <2>1, <2>2, <2>3, <3>1
           DEF Typing, ChannelTyped, ThreadsTyped, SurfacesTyped, SidecarsTyped, HistoryTyped
      <3>3. Threading'
        BY <2>1, <2>2, <2>3, <3>1, ThreadsApart DEF Threading
      <3>. QED BY <3>2, <3>3
    <2>4. CASE UNCHANGED <<taken, at>>
      BY <2>1, <2>2, <2>4
         DEF Typing, ChannelTyped, ThreadsTyped, SurfacesTyped, SidecarsTyped, HistoryTyped, Threading
    <2>. QED BY <2>1, <2>3, <2>4
  <1>3. CASE SendReleased
    <2>1. /\ UNCHANGED <<replies, pane, open, mu, at, job, taken, lease, refs, layer, inbox, life,
                         rings, current, away, refused, spent>>
          /\ at[Receiver] = "sends" /\ sends # <<>> /\ sends' = Tail(sends)
          /\ \/ returned' = [returned EXCEPT ![Head(sends).to] = Append(@, Head(sends).surface)]
             \/ UNCHANGED returned
      BY <1>3 DEF SendReleased, channelVars
    <2>2. sends' \in Seq(Sends) /\ Head(sends) \in Sends
      BY <2>1 DEF Typing, ThreadsTyped
    <2>3. returned' \in [Sidecars -> Seq(Surfaces)]
      <3> DEFINE to == Head(sends).to  surface == Head(sends).surface
      <3>1. to \in Sidecars /\ surface \in Surfaces
        BY <2>2 DEF Sends
      <3>2. returned \in [Sidecars -> Seq(Surfaces)]
        BY DEF Typing, SidecarsTyped
      <3>3. returned' = [returned EXCEPT ![to] = Append(@, surface)] \/ returned' = returned
        BY <2>1
      <3> HIDE DEF to, surface
      <3>4. Append(returned[to], surface) \in Seq(Surfaces)
        BY <3>1, <3>2
      <3>. QED BY <3>1, <3>2, <3>3, <3>4
    <2>. QED BY <2>1, <2>2, <2>3
         DEF Typing, ChannelTyped, ThreadsTyped, SurfacesTyped, SidecarsTyped, HistoryTyped, Threading
  <1>4. CASE Sent
    <2>1. /\ UNCHANGED <<replies, pane, open, mu, job, taken, sends, lease, refs, layer, inbox, returned,
                         life, rings, current, away, refused, spent>>
          /\ Moves(Receiver, "sends", "show") /\ sends = <<>>
      BY <1>4 DEF Sent, Moves, channelVars, sidecarVars
    <2>2. /\ at' \in [Threads -> {"idle", "lock", "held", "sends", "show", "read"}]
          /\ mu' \in Threads \cup {Free} /\ at[Receiver] = "sends"
          /\ at'[Receiver] = "show" /\ \A u \in Threads : u # Receiver => at'[u] = at[u]
          /\ \A u \in Threads : at'[u] = "held" <=> mu' = u
      BY <1>1, <2>1, LockKept DEF Moves
    <2>3. Typing'
      BY <2>1, <2>2
         DEF Typing, ChannelTyped, ThreadsTyped, SurfacesTyped, SidecarsTyped, HistoryTyped
    <2>4. Threading'
      BY <2>1, <2>2, ThreadsApart DEF Threading
    <2>. QED BY <2>3, <2>4
  <1>. QED BY <1>2, <1>3, <1>4

LEMMA ReleaseRingTyped ==
  ASSUME Typing, NEW p \in Panes, NEW n \in 0 .. MaxRings, ReleaseRing(p, n)
  PROVE  /\ pane' \in [Panes -> PaneRings] /\ refs' \in [Surfaces -> Int]
         /\ pane'[p] = [pane[p] EXCEPT !.ring = n, !.displayed = None]
         /\ \A q \in Panes : q # p => pane'[q] = pane[q]
         /\ \A x \in Surfaces :
              refs'[x] = refs[x] - (IF x \in SurfacesOf(pane[p].ring) THEN 1 ELSE 0)
                                 + (IF x \in SurfacesOf(n) THEN 1 ELSE 0)
  <1>1. /\ pane' = [pane EXCEPT ![p].ring = n, ![p].displayed = None]
        /\ Count(SurfacesOf(pane[p].ring), SurfacesOf(n))
    BY DEF ReleaseRing
  <1>2. pane \in [Panes -> PaneRings]
    BY DEF Typing, ChannelTyped
  <1>3. /\ pane'[p] = [pane[p] EXCEPT !.ring = n, !.displayed = None]
        /\ \A q \in Panes : q # p => pane'[q] = pane[q]
        /\ pane' \in [Panes -> PaneRings]
    BY <1>1, <1>2 DEF PaneRings
  <1>4. /\ refs' \in [Surfaces -> Int]
        /\ \A x \in Surfaces :
             refs'[x] = refs[x] - (IF x \in SurfacesOf(pane[p].ring) THEN 1 ELSE 0)
                                + (IF x \in SurfacesOf(n) THEN 1 ELSE 0)
    BY <1>1, CountTyped DEF Typing, SurfacesTyped
  <1>. QED BY <1>3, <1>4

LEMMA ReleasedTyped ==
  ASSUME Typing, NEW p \in Panes, Connected(p), NEW x \in Surfaces
  PROVE  Released(p, x) \in Sends /\ Released(p, x).surface = x
  <1>1. /\ pane[p].sidecar \in Sidecars
        /\ replies[pane[p].sidecar] \in Lives
    BY BoundsAssumption DEF Typing, ChannelTyped, PaneRings, Connected, Lives
  <1>. QED BY <1>1 DEF Released, Sends

LEMMA OldRingTyped ==
  ASSUME Typing, NEW p \in Panes
  PROVE  /\ OldRing(p) \in Seq(Sends)
         /\ \A k \in DOMAIN OldRing(p) :
              OldRing(p)[k].surface \in SurfacesOf(pane[p].ring) /\ OldRing(p)[k].to = pane[p].sidecar
  <1>1. CASE pane[p].ring # 0 /\ Connected(p)
    <2> DEFINE n == Cardinality(Slots)
    <2> HIDE DEF n
    <2>1. n \in Nat /\ \A k \in 1 .. n : k - 1 \in Slots
      BY SlotsCounted DEF n
    <2>2. OldRing(p) = [k \in 1 .. n |-> Released(p, <<pane[p].ring, k - 1>>)]
      BY <1>1 DEF OldRing, n
    <2>3. pane[p].ring \in Rings
      BY <1>1, BoundsAssumption DEF Typing, ChannelTyped, PaneRings, Rings
    <2>4. ASSUME NEW k \in 1 .. n
          PROVE  /\ <<pane[p].ring, k - 1>> \in Surfaces
                 /\ <<pane[p].ring, k - 1>> \in SurfacesOf(pane[p].ring)
      BY <2>1, <2>3 DEF Surfaces, SurfacesOf
    <2>5. ASSUME NEW k \in 1 .. n
          PROVE  /\ Released(p, <<pane[p].ring, k - 1>>) \in Sends
                 /\ Released(p, <<pane[p].ring, k - 1>>).surface \in SurfacesOf(pane[p].ring)
                 /\ Released(p, <<pane[p].ring, k - 1>>).to = pane[p].sidecar
      <3>1. /\ Released(p, <<pane[p].ring, k - 1>>) \in Sends
            /\ Released(p, <<pane[p].ring, k - 1>>).surface = <<pane[p].ring, k - 1>>
        BY <1>1, <2>4, ReleasedTyped
      <3>. QED BY <2>4, <3>1 DEF Released
    <2>6. DOMAIN OldRing(p) = 1 .. n
      BY <2>2
    <2>7. \A k \in 1 .. n : OldRing(p)[k] = Released(p, <<pane[p].ring, k - 1>>)
      BY <2>2
    <2>8. OldRing(p) \in [1 .. n -> Sends]
      BY <2>2, <2>5
    <2>9. OldRing(p) \in Seq(Sends)
      <3> DEFINE o == OldRing(p)
      <3>1. o \in [1 .. n -> Sends]
        BY <2>8
      <3> HIDE DEF o
      <3>2. o \in Seq(Sends)
        BY <2>1, <3>1
      <3>. QED BY <3>2 DEF o
    <2>10. \A k \in 1 .. n :
             OldRing(p)[k].surface \in SurfacesOf(pane[p].ring) /\ OldRing(p)[k].to = pane[p].sidecar
      BY <2>5, <2>7
    <2>. QED BY <2>6, <2>9, <2>10
  <1>2. CASE ~(pane[p].ring # 0 /\ Connected(p))
    BY <1>2 DEF OldRing
  <1>. QED BY <1>1, <1>2

LEMMA PreviousTyped ==
  ASSUME Typing, NEW p \in Panes, pane[p].ring # 0, NEW i \in Slots
  PROVE  /\ Previous(p, i) \in Seq(Sends)
         /\ \A k \in DOMAIN Previous(p, i) :
              /\ Previous(p, i)[k].surface = <<pane[p].ring, pane[p].displayed>>
              /\ pane[p].displayed # i
              /\ Previous(p, i)[k].to = pane[p].sidecar
  <1>1. CASE pane[p].displayed # None /\ pane[p].displayed # i /\ Connected(p)
    <2> DEFINE x == <<pane[p].ring, pane[p].displayed>>
    <2>1. x \in Surfaces
      BY <1>1, BoundsAssumption DEF Typing, ChannelTyped, PaneRings, Rings, Surfaces
    <2>2. Released(p, x) \in Sends /\ Released(p, x).surface = x /\ Released(p, x).to = pane[p].sidecar
      BY <1>1, <2>1, ReleasedTyped DEF Released
    <2>3. Previous(p, i) = <<Released(p, x)>>
      BY <1>1 DEF Previous
    <2> HIDE DEF x
    <2>4. Previous(p, i) \in Seq(Sends) /\ DOMAIN Previous(p, i) = {1} /\ Previous(p, i)[1] = Released(p, x)
      BY <2>2, <2>3
    <2>. QED BY <1>1, <2>2, <2>4 DEF x
  <1>2. CASE ~(pane[p].displayed # None /\ pane[p].displayed # i /\ Connected(p))
    BY <1>2 DEF Previous
  <1>. QED BY <1>1, <1>2

\* The receive thread is done with its message without a surface to show.
LEMMA SettleTyping ==
  ASSUME Typing, Threading, Settle
  PROVE  ThreadsTyped' /\ Threading'
  <1>1. /\ Moves(Receiver, "held", "idle") /\ mu' = Free /\ taken' = <<>> /\ UNCHANGED <<job, sends, lease>>
    BY DEF Settle, Unlock, Moves
  <1>2. /\ at' \in [Threads -> {"idle", "lock", "held", "sends", "show", "read"}]
        /\ mu' \in Threads \cup {Free} /\ at[Receiver] = "held"
        /\ at'[Receiver] = "idle" /\ \A u \in Threads : u # Receiver => at'[u] = at[u]
        /\ \A u \in Threads : at'[u] = "held" <=> mu' = u
    BY <1>1, LockKept, ThreadsApart DEF Moves
  <1>3. ThreadsTyped'
    BY <1>1, <1>2 DEF Typing, ThreadsTyped
  <1>4. Threading'
    BY <1>1, <1>2, ThreadsApart DEF Threading
  <1>. QED BY <1>3, <1>4

LEMMA RefusedTyped ==
  ASSUME Typing, NEW more, more \subseteq Rings, refused' = refused \cup more, UNCHANGED spent
  PROVE  HistoryTyped'
  BY DEF Typing, HistoryTyped

\* Each step of the receive thread under the lock.
LEMMA ConsumeTyping ==
  ASSUME Typing, Threading, Consume PROVE Typing' /\ Threading'
  <1> DEFINE p == taken.pane
  <1>1. /\ at[Receiver] = "held" /\ taken \in Messages /\ Beside
        /\ UNCHANGED <<layer, inbox, returned, life, rings, current, away, spent>>
    <2>1. at[Receiver] = "held" /\ Beside
      BY DEF Consume, ConsumeHello, ConsumeGap, ConsumeRing, ConsumeBrokenRing, RefuseRing, ConsumeFrame,
             RefuseFrame, ConsumeEnded, Consuming
    <2>. QED BY <2>1 DEF Threading, Beside, sidecarVars
  <1>2. /\ taken.kind = "hello" => taken.sidecar \in Sidecars /\ taken.life \in Lives
        /\ taken.kind # "hello" => taken.pane \in Panes /\ taken.ring \in Rings
        /\ taken.kind = "frame" => taken.slot \in Slots
    BY <1>1, MessageFields
  <1>3. SidecarsTyped' /\ layer' \in [Views -> Surfaces \cup {NoSurface}]
    BY <1>1 DEF Typing, SidecarsTyped, SurfacesTyped
  <1>4. UNCHANGED refused => HistoryTyped'
    BY <1>1 DEF Typing, HistoryTyped
  <1>5. CASE ConsumeHello
    <2>1. /\ replies' = [replies EXCEPT ![taken.sidecar] = taken.life] /\ UNCHANGED <<pane, open, refs, refused>>
          /\ Settle /\ taken.kind = "hello"
      BY <1>5 DEF ConsumeHello, Consuming
    <2>2. ChannelTyped'
      BY <1>2, <2>1 DEF Typing, ChannelTyped, Lives
    <2>. QED BY <1>3, <1>4, <2>1, <2>2, SettleTyping DEF Typing, SurfacesTyped
  <1>6. CASE ConsumeGap
    BY <1>3, <1>4, <1>6, SettleTyping DEF ConsumeGap, channelVars, Typing, SurfacesTyped, ChannelTyped
  <1>7. CASE RefuseFrame
    BY <1>3, <1>4, <1>7, SettleTyping DEF RefuseFrame, channelVars, Typing, SurfacesTyped, ChannelTyped
  <1>8. CASE RefuseRing
    <2>1. taken.ring \in Rings /\ refused' = refused \cup {taken.ring} /\ UNCHANGED spent
      BY <1>1, <1>2, <1>8 DEF RefuseRing, Consuming
    <2>2. HistoryTyped'
      BY <2>1, RefusedTyped
    <2>. QED BY <1>3, <1>8, <2>2, SettleTyping DEF RefuseRing, channelVars, Typing, SurfacesTyped, ChannelTyped
  <1>9. CASE ConsumeEnded \/ ConsumeBrokenRing
    <2>1. p \in Panes /\ ReleaseRing(p, 0) /\ Settle /\ UNCHANGED <<replies, open>>
      BY <1>2, <1>9 DEF ConsumeEnded, ConsumeBrokenRing, Consuming
    <2>2. 0 \in 0 .. MaxRings
      BY BoundsAssumption
    <2>3. pane' \in [Panes -> PaneRings] /\ refs' \in [Surfaces -> Int]
      BY <2>1, <2>2, ReleaseRingTyped
    <2>4. HistoryTyped'
      <3>1. CASE ConsumeEnded
        BY <1>4, <3>1 DEF ConsumeEnded
      <3>2. CASE ConsumeBrokenRing
        <4>1. pane[p].ring \in 0 .. MaxRings
          BY <2>1 DEF Typing, ChannelTyped, PaneRings
        <4>2. {taken.ring, pane[p].ring} \ {0} \subseteq Rings
          BY <1>2, <3>2, <4>1, BoundsAssumption DEF ConsumeBrokenRing, Consuming, Rings
        <4>3. refused' = refused \cup ({taken.ring, pane[p].ring} \ {0}) /\ UNCHANGED spent
          BY <1>1, <3>2 DEF ConsumeBrokenRing
        <4>. QED BY <4>2, <4>3, RefusedTyped
      <3>. QED BY <1>9, <3>1, <3>2
    <2>. QED BY <1>3, <2>1, <2>3, <2>4, SettleTyping DEF Typing, SurfacesTyped, ChannelTyped
  <1>10. ASSUME Unlock(Receiver, "sends"), UNCHANGED <<job, taken>>, sends' \in Seq(Sends),
                lease' \in [Threads -> Leases], \A u \in Threads : u # Receiver => lease'[u] = lease[u],
                lease'[Receiver] # NoLease
                  => lease'[Receiver].view \in Views /\ lease'[Receiver].surface \in Surfaces
         PROVE  ThreadsTyped' /\ Threading'
    <2>1. Moves(Receiver, "held", "sends") /\ mu' = Free
      BY <1>10 DEF Unlock, Moves
    <2>2. /\ at' \in [Threads -> {"idle", "lock", "held", "sends", "show", "read"}]
          /\ mu' \in Threads \cup {Free} /\ at[Receiver] = "held"
          /\ at'[Receiver] = "sends" /\ \A u \in Threads : u # Receiver => at'[u] = at[u]
          /\ \A u \in Threads : at'[u] = "held" <=> mu' = u
      BY <2>1, LockKept, ThreadsApart DEF Moves
    <2>3. ThreadsTyped'
      BY <1>10, <2>2 DEF Typing, ThreadsTyped
    <2>4. Threading'
      BY <1>1, <1>10, <2>2, ThreadsApart DEF Threading
    <2>. QED BY <2>3, <2>4
  <1>11. CASE ConsumeRing
    <2>1. /\ p \in Panes /\ taken.ring \in 0 .. MaxRings /\ ReleaseRing(p, taken.ring)
          /\ sends' = OldRing(p) /\ Unlock(Receiver, "sends")
          /\ UNCHANGED <<job, taken, lease, replies, open, refused>>
      BY <1>2, <1>11 DEF ConsumeRing, Consuming, Rings
    <2>2. pane' \in [Panes -> PaneRings] /\ refs' \in [Surfaces -> Int]
      BY <2>1, ReleaseRingTyped
    <2>3. lease' \in [Threads -> Leases] /\ lease'[Receiver] = NoLease
      BY <1>1, <2>1, ThreadsApart DEF Typing, ThreadsTyped, Threading
    <2>4. ThreadsTyped' /\ Threading'
      BY <1>10, <2>1, <2>3, OldRingTyped
    <2>. QED BY <1>3, <1>4, <2>1, <2>2, <2>4 DEF Typing, SurfacesTyped, ChannelTyped
  <1>12. CASE ConsumeFrame
    <2> DEFINE x == <<pane[p].ring, taken.slot>>
    <2>1. /\ p \in Panes /\ taken.slot \in Slots /\ pane[p].ring # 0
          /\ pane' = [pane EXCEPT ![p].displayed = taken.slot]
          /\ HoldDisplay(Receiver, pane[p].view, x)
          /\ sends' = Previous(p, taken.slot) /\ Unlock(Receiver, "sends")
          /\ UNCHANGED <<job, taken, replies, open, refused>>
      BY <1>2, <1>12 DEF ConsumeFrame, Consuming
    <2>2. pane[p].view \in Views \cup {NoView} /\ x \in Surfaces
      BY <2>1, BoundsAssumption DEF Typing, ChannelTyped, PaneRings, Surfaces, Rings
    <2>3. pane' \in [Panes -> PaneRings]
      BY <2>1 DEF Typing, ChannelTyped, PaneRings
    <2> HIDE DEF x
    <2>4. /\ lease' \in [Threads -> Leases] /\ refs' \in [Surfaces -> Int]
          /\ lease'[Receiver] = IF pane[p].view = NoView THEN NoLease
                                ELSE [view |-> pane[p].view, surface |-> x]
          /\ \A u \in Threads : u # Receiver => lease'[u] = lease[u]
      BY <2>1, <2>2, HoldDisplayTyped, ThreadsApart
    <2>5. sends' \in Seq(Sends)
      BY <2>1, PreviousTyped
    <2>6. lease'[Receiver] # NoLease
            => lease'[Receiver].view \in Views /\ lease'[Receiver].surface \in Surfaces
      BY <2>2, <2>4
    <2>7. ThreadsTyped' /\ Threading'
      BY <1>10, <2>1, <2>4, <2>5, <2>6
    <2>. QED BY <1>3, <1>4, <2>1, <2>3, <2>4, <2>7 DEF Typing, SurfacesTyped, ChannelTyped
  <1>. QED BY <1>5, <1>6, <1>7, <1>8, <1>9, <1>11, <1>12 DEF Consume

\* A caller that is no longer held leaves the lock free.
LEMMA ReturnTyping ==
  ASSUME Typing, Threading, NEW t \in Callers, Return(t)
  PROVE  ThreadsTyped' /\ Threading' /\ at[t] = "held" /\ UNCHANGED <<taken, sends, lease>>
  <1>1. Moves(t, "held", "idle") /\ mu' = Free /\ UNCHANGED <<taken, sends, lease>>
        /\ job' = [job EXCEPT ![t] = NoJob]
    BY DEF Return, Unlock, Moves
  <1>2. /\ at' \in [Threads -> {"idle", "lock", "held", "sends", "show", "read"}]
        /\ mu' \in Threads \cup {Free} /\ at[t] = "held"
        /\ at'[t] = "idle" /\ \A u \in Threads : u # t => at'[u] = at[u]
        /\ \A u \in Threads : at'[u] = "held" <=> mu' = u
    BY <1>1, LockKept, ThreadsApart DEF Moves
  <1>3. job' \in [Callers -> Jobs] /\ \A c \in Callers : c # t => job'[c] = job[c]
    BY <1>1 DEF Typing, ThreadsTyped, Jobs, NoJob
  <1>4. ThreadsTyped'
    BY <1>1, <1>2, <1>3 DEF Typing, ThreadsTyped
  <1>5. Threading'
    BY <1>1, <1>2, <1>3, ThreadsApart DEF Threading
  <1>. QED BY <1>1, <1>2, <1>4, <1>5

LEMMA BeginTyped ==
  ASSUME Typing, Threading, NEW t \in Callers,
         NEW op \in {"bind", "bindView", "unbindView", "snapshot", "close"},
         NEW p \in Panes \cup {0}, NEW s \in Sidecars \cup {Nobody}, NEW v \in Views \cup {NoView},
         Begin(t, op, p, s, v), op # "close" => p \in Panes, op = "bindView" => t = Committer
  PROVE  /\ ThreadsTyped' /\ Threading' /\ HistoryTyped'
         /\ at[t] = "idle" /\ at'[t] = "lock" /\ \A u \in Threads : u # t => at'[u] = at[u]
         /\ job'[t].op = op /\ job'[t].pane = p /\ job'[t].view = v
         /\ \A c \in Callers : c # t => job'[c] = job[c]
         /\ UNCHANGED <<replies, pane, mu, taken, sends, lease, refs, layer, inbox, returned, life, rings,
                        current, away, refused>>
  <1>1. /\ Moves(t, "idle", "lock")
        /\ job' = [job EXCEPT ![t] = [op |-> op, pane |-> p, sidecar |-> s, view |-> v,
                                         surface |-> NoSurface]]
        /\ UNCHANGED <<replies, pane, mu, taken, sends, lease, refs, layer, inbox, returned, life, rings,
                       current, away, refused>>
    BY DEF Begin, Moves, sidecarVars
  <1>2. /\ at' \in [Threads -> {"idle", "lock", "held", "sends", "show", "read"}]
        /\ mu' \in Threads \cup {Free} /\ at[t] = "idle"
        /\ at'[t] = "lock" /\ \A u \in Threads : u # t => at'[u] = at[u]
        /\ \A u \in Threads : at'[u] = "held" <=> mu' = u
    BY <1>1, LockKept, ThreadsApart DEF Moves
  <1>3. [op |-> op, pane |-> p, sidecar |-> s, view |-> v, surface |-> NoSurface] \in Jobs
    BY DEF Jobs
  <1>4. /\ job' \in [Callers -> Jobs] /\ \A c \in Callers : c # t => job'[c] = job[c]
        /\ job'[t].op = op /\ job'[t].pane = p /\ job'[t].view = v
    BY <1>1, <1>3 DEF Typing, ThreadsTyped
  <1>5. ThreadsTyped'
    BY <1>1, <1>2, <1>4 DEF Typing, ThreadsTyped
  <1>6. Threading'
    BY <1>1, <1>2, <1>4, ThreadsApart DEF Threading
  <1>7. HistoryTyped'
    BY <1>1, BoundsAssumption DEF Begin, Typing, HistoryTyped
  <1>. QED BY <1>1, <1>2, <1>4, <1>5, <1>6, <1>7

LEMMA BeginTyping ==
  ASSUME Typing, Threading, NEW t \in Callers, BeginCall(t)
  PROVE  /\ Typing' /\ Threading'
         /\ at[t] = "idle" /\ at'[t] = "lock" /\ \A u \in Threads : u # t => at'[u] = at[u]
         /\ \A c \in Callers : c # t => job'[c] = job[c]
         /\ job'[t].op = "bindView" => /\ t = Committer /\ layer[job'[t].view] = NoSurface
                                       /\ job'[t].view \in Views
                                       /\ \A q \in Panes : pane[q].view # job'[t].view
                                       /\ \A u \in Threads : lease[u].view # job'[t].view
         /\ UNCHANGED <<replies, pane, mu, taken, sends, lease, refs, layer, inbox, returned, life, rings,
                        current, away, refused>>
  <1> DEFINE
    Began(op, p, v) ==
      /\ ThreadsTyped' /\ Threading' /\ HistoryTyped'
      /\ at[t] = "idle" /\ at'[t] = "lock" /\ \A u \in Threads : u # t => at'[u] = at[u]
      /\ job'[t].op = op /\ job'[t].pane = p /\ job'[t].view = v
      /\ \A c \in Callers : c # t => job'[c] = job[c]
      /\ UNCHANGED <<replies, pane, mu, taken, sends, lease, refs, layer, inbox, returned, life, rings,
                     current, away, refused>>
  <1>1. \/ \E p \in Panes : BeginUnbindView(t, p)
        \/ \E p \in Panes : BeginSnapshot(t, p)
        \/ \E p \in Panes, s \in Sidecars : BeginBind(t, p, s)
        \/ \E p \in Panes, v \in Views : BeginBindView(t, p, v)
        \/ BeginClose(t)
    BY DEF BeginCall
  <1>2. ASSUME NEW op, NEW p, NEW v, Began(op, p, v), open' \in [registered : BOOLEAN, port : BOOLEAN]
        PROVE  Typing'
    BY <1>2 DEF Typing, ChannelTyped, SurfacesTyped, SidecarsTyped
  <1>3. open \in [registered : BOOLEAN, port : BOOLEAN]
    BY DEF Typing, ChannelTyped
  <1>4. CASE \E p \in Panes : BeginUnbindView(t, p)
    <2>1. PICK p \in Panes : BeginUnbindView(t, p)
      BY <1>4
    <2>2. Began("unbindView", p, NoView) /\ open' = open
      BY <2>1, BeginTyped DEF BeginUnbindView
    <2>. QED BY <1>2, <1>3, <2>2
  <1>5. CASE \E p \in Panes : BeginSnapshot(t, p)
    <2>1. PICK p \in Panes : BeginSnapshot(t, p)
      BY <1>5
    <2>2. Began("snapshot", p, NoView) /\ open' = open
      BY <2>1, BeginTyped DEF BeginSnapshot
    <2>. QED BY <1>2, <1>3, <2>2
  <1>6. CASE \E p \in Panes, s \in Sidecars : BeginBind(t, p, s)
    <2>1. PICK p \in Panes, s \in Sidecars : BeginBind(t, p, s)
      BY <1>6
    <2>2. Began("bind", p, NoView) /\ open' = open
      BY <2>1, BeginTyped DEF BeginBind
    <2>. QED BY <1>2, <1>3, <2>2
  <1>7. CASE \E p \in Panes, v \in Views : BeginBindView(t, p, v)
    <2>1. PICK p \in Panes, v \in Views : BeginBindView(t, p, v)
      BY <1>7
    <2>2. Began("bindView", p, v) /\ open' = open
      BY <2>1, BeginTyped DEF BeginBindView
    <2>3. /\ t = Committer /\ layer[v] = NoSurface /\ v \in Views
          /\ \A q \in Panes : pane[q].view # v
          /\ \A u \in Threads : lease[u].view # v
      BY <2>1 DEF BeginBindView
    <2>. QED BY <1>2, <1>3, <2>2, <2>3
  <1>8. CASE BeginClose(t)
    <2>1. Began("close", 0, NoView) /\ open' = [open EXCEPT !.registered = FALSE]
      BY <1>8, BeginTyped DEF BeginClose
    <2>2. open' \in [registered : BOOLEAN, port : BOOLEAN]
      BY <1>3, <2>1
    <2>. QED BY <1>2, <2>1, <2>2
  <1>. QED BY <1>1, <1>4, <1>5, <1>6, <1>7, <1>8

\* Each step of a caller under the lock, and the reader's.
LEMMA CallTyping ==
  ASSUME Typing, Threading, NEW t \in Callers, Call(t) PROVE Typing' /\ Threading'
  <1> DEFINE p == job[t].pane
  <1>1. t \in Threads /\ t # Receiver /\ job[t] \in Jobs
    BY ThreadsApart DEF Typing, ThreadsTyped
  <1>2. at[t] \in {"held", "read"} /\ (at[t] = "held" => job[t].op # "none")
    BY DEF Call, Bind, BindView, UnbindView, Snapshot, ReadPixels, Close
  <1>3. job[t].op # "close" => p \in Panes
    BY <1>2 DEF Threading
  <1>4. lease[t] = NoLease
    BY <1>1, <1>2 DEF Threading
  <1>5. pane \in [Panes -> PaneRings] /\ Beside => SidecarsTyped' /\ UNCHANGED layer
    BY DEF Beside, sidecarVars, Typing, SidecarsTyped
  <1>6. Beside /\ UNCHANGED refused => HistoryTyped'
    BY DEF Beside, Typing, HistoryTyped
  <1>7. pane \in [Panes -> PaneRings] /\ replies \in [Sidecars -> 0 .. MaxLives]
    BY DEF Typing, ChannelTyped
  <1>8. CASE Bind(t) \/ UnbindView(t)
    <2>1. /\ p \in Panes /\ Return(t) /\ Beside /\ UNCHANGED <<replies, open, refs, refused>>
          /\ \/ pane' = [pane EXCEPT ![p].sidecar = job[t].sidecar]
             \/ pane' = [pane EXCEPT ![p].view = NoView]
      BY <1>3, <1>8 DEF Bind, UnbindView
    <2>2. job[t].sidecar \in Sidecars \cup {Nobody}
      BY <1>1 DEF Jobs
    <2>3. pane' \in [Panes -> PaneRings]
      BY <1>7, <2>1, <2>2 DEF PaneRings
    <2>. QED BY <1>5, <1>6, <1>7, <2>1, <2>3, ReturnTyping DEF Typing, ChannelTyped, SurfacesTyped
  <1>9. CASE BindView(t)
    <2>1. /\ p \in Panes /\ Moves(t, "held", "show") /\ mu' = Free /\ Beside /\ t = Committer
          /\ UNCHANGED <<job, taken, sends, replies, open, refused>>
          /\ pane' = [pane EXCEPT ![p].view = job[t].view]
          /\ \/ /\ pane[p].ring # 0 /\ pane[p].displayed # None
                /\ HoldDisplay(t, job[t].view, <<pane[p].ring, pane[p].displayed>>)
             \/ UNCHANGED <<lease, refs>>
      BY <1>3, <1>9 DEF BindView, Unlock, Moves, Threading
    <2>2. job[t].view \in Views \cup {NoView}
      BY <1>1 DEF Jobs
    <2>3. pane' \in [Panes -> PaneRings]
      BY <1>7, <2>1, <2>2 DEF PaneRings
    <2>4. /\ at' \in [Threads -> {"idle", "lock", "held", "sends", "show", "read"}]
          /\ mu' \in Threads \cup {Free} /\ at[t] = "held"
          /\ at'[t] = "show" /\ \A u \in Threads : u # t => at'[u] = at[u]
          /\ \A u \in Threads : at'[u] = "held" <=> mu' = u
      BY <1>1, <2>1, LockKept DEF Moves
    <2>5. /\ lease' \in [Threads -> Leases] /\ refs' \in [Surfaces -> Int]
          /\ \A u \in Threads : u # t => lease'[u] = lease[u]
          /\ lease'[t] # NoLease => lease'[t].view \in Views /\ lease'[t].surface \in Surfaces
      <3>1. CASE UNCHANGED <<lease, refs>>
        BY <1>4, <3>1 DEF Typing, ThreadsTyped, SurfacesTyped
      <3>2. CASE /\ pane[p].ring # 0 /\ pane[p].displayed # None
                 /\ HoldDisplay(t, job[t].view, <<pane[p].ring, pane[p].displayed>>)
        <4> DEFINE x == <<pane[p].ring, pane[p].displayed>>
        <4>1. x \in Surfaces
          BY <1>7, <2>1, <3>2, BoundsAssumption DEF PaneRings, Rings, Surfaces
        <4> HIDE DEF x
        <4>2. HoldDisplay(t, job[t].view, x)
          BY <3>2 DEF x
        <4>3. /\ lease' \in [Threads -> Leases] /\ refs' \in [Surfaces -> Int]
              /\ lease'[t] = IF job[t].view = NoView THEN NoLease
                             ELSE [view |-> job[t].view, surface |-> x]
              /\ \A u \in Threads : u # t => lease'[u] = lease[u]
          BY <1>1, <2>2, <4>1, <4>2, HoldDisplayTyped
        <4>. QED BY <2>2, <4>1, <4>3
      <3>. QED BY <2>1, <3>1, <3>2
    <2>6. ThreadsTyped'
      BY <2>1, <2>4, <2>5 DEF Typing, ThreadsTyped
    <2>7. Threading'
      BY <2>1, <2>4, <2>5, ThreadsApart DEF Threading
    <2>. QED BY <1>5, <1>6, <1>7, <2>1, <2>3, <2>5, <2>6, <2>7 DEF Typing, ChannelTyped, SurfacesTyped
  <1>10. CASE Snapshot(t)
    <2>1. /\ p \in Panes /\ Beside /\ UNCHANGED <<replies, pane, open, refs, refused>>
          /\ \/ /\ pane[p].ring # 0 /\ pane[p].displayed # None
                /\ Moves(t, "held", "read") /\ mu' = Free
                /\ job' = [job EXCEPT ![t].surface = <<pane[p].ring, pane[p].displayed>>]
                /\ UNCHANGED <<taken, sends, lease>>
             \/ Return(t)
      BY <1>3, <1>10 DEF Snapshot, Unlock, Moves, channelVars
    <2>2. ThreadsTyped' /\ Threading'
      <3>1. CASE Return(t)
        BY <3>1, ReturnTyping
      <3>2. CASE /\ pane[p].ring # 0 /\ pane[p].displayed # None
                 /\ Moves(t, "held", "read") /\ mu' = Free
                 /\ job' = [job EXCEPT ![t].surface = <<pane[p].ring, pane[p].displayed>>]
                 /\ UNCHANGED <<taken, sends, lease>>
        <4>1. <<pane[p].ring, pane[p].displayed>> \in Surfaces
          BY <1>7, <2>1, <3>2, BoundsAssumption DEF PaneRings, Rings, Surfaces
        <4>2. /\ at' \in [Threads -> {"idle", "lock", "held", "sends", "show", "read"}]
              /\ mu' \in Threads \cup {Free} /\ at[t] = "held"
              /\ at'[t] = "read" /\ \A u \in Threads : u # t => at'[u] = at[u]
              /\ \A u \in Threads : at'[u] = "held" <=> mu' = u
          BY <1>1, <3>2, LockKept DEF Moves
        <4>3. /\ job' \in [Callers -> Jobs] /\ \A c \in Callers : c # t => job'[c] = job[c]
              /\ job'[t].pane = p
          BY <3>2, <4>1 DEF Typing, ThreadsTyped, Jobs
        <4>4. ThreadsTyped'
          BY <3>2, <4>2, <4>3 DEF Typing, ThreadsTyped
        <4>5. Threading'
          BY <2>1, <3>2, <4>2, <4>3, ThreadsApart DEF Threading
        <4>. QED BY <4>4, <4>5
      <3>. QED BY <2>1, <3>1, <3>2
    <2>. QED BY <1>5, <1>6, <1>7, <2>1, <2>2 DEF Typing, ChannelTyped, SurfacesTyped
  <1>11. CASE ReadPixels(t)
    <2>1. /\ Beside /\ UNCHANGED <<replies, pane, open, refs, refused, mu, taken, sends, lease>>
          /\ Moves(t, "read", "idle") /\ job' = [job EXCEPT ![t] = NoJob]
      BY <1>11 DEF ReadPixels, Moves, channelVars
    <2>2. /\ at' \in [Threads -> {"idle", "lock", "held", "sends", "show", "read"}]
          /\ mu' \in Threads \cup {Free} /\ at[t] = "read"
          /\ at'[t] = "idle" /\ \A u \in Threads : u # t => at'[u] = at[u]
          /\ \A u \in Threads : at'[u] = "held" <=> mu' = u
      BY <1>1, <2>1, LockKept DEF Moves
    <2>3. job' \in [Callers -> Jobs] /\ \A c \in Callers : c # t => job'[c] = job[c]
      BY <2>1 DEF Typing, ThreadsTyped, Jobs, NoJob
    <2>4. ThreadsTyped'
      BY <2>1, <2>2, <2>3 DEF Typing, ThreadsTyped
    <2>5. Threading'
      BY <2>1, <2>2, <2>3, ThreadsApart DEF Threading
    <2>. QED BY <1>5, <1>6, <1>7, <2>1, <2>4, <2>5 DEF Typing, ChannelTyped, SurfacesTyped
  <1>12. CASE Close(t)
    <2>1. /\ open' = [open EXCEPT !.port = FALSE] /\ inbox' = <<>> /\ replies' = [s \in Sidecars |-> 0]
          /\ Count(UNION {SurfacesOf(pane[q].ring) : q \in Panes}, {})
          /\ pane' = [q \in Panes |-> [pane[q] EXCEPT !.ring = 0, !.displayed = None]]
          /\ Return(t) /\ UNCHANGED <<layer, returned, life, rings, current, away, refused, spent>>
      BY <1>12 DEF Close
    <2>2. pane' \in [Panes -> PaneRings] /\ replies' \in [Sidecars -> 0 .. MaxLives]
      <3>1. \A q \in Panes : [pane[q] EXCEPT !.ring = 0, !.displayed = None] \in PaneRings
        <4>1. 0 \in 0 .. MaxRings
          BY BoundsAssumption
        <4>. QED BY <1>7, <4>1 DEF PaneRings
      <3>2. replies' \in [Sidecars -> 0 .. MaxLives]
        <4>1. 0 \in 0 .. MaxLives
          BY BoundsAssumption
        <4>2. replies' = [s \in Sidecars |-> 0]
          BY <2>1
        <4>. QED BY <4>1, <4>2
      <3>. QED BY <2>1, <3>1, <3>2
    <2>3. refs' \in [Surfaces -> Int]
      BY <2>1, CountTyped DEF Typing, SurfacesTyped
    <2>4. ThreadsTyped' /\ Threading'
      BY <2>1, ReturnTyping
    <2>5. ChannelTyped' /\ SurfacesTyped'
      BY <2>1, <2>2, <2>3 DEF Typing, ChannelTyped, SurfacesTyped
    <2>6. SidecarsTyped' /\ HistoryTyped'
      <3>1. inbox' \in Seq(Messages)
        <4>1. inbox' = <<>>
          BY <2>1
        <4>2. <<>> \in Seq(Messages)
          OBVIOUS
        <4>. QED BY <4>1, <4>2
      <3>2. UNCHANGED <<returned, life, rings, current, away, refused, spent>>
        BY <2>1
      <3>. QED BY <3>1, <3>2 DEF Typing, SidecarsTyped, HistoryTyped
    <2>. QED BY <2>4, <2>5, <2>6 DEF Typing
  <1>. QED BY <1>8, <1>9, <1>10, <1>11, <1>12 DEF Call

LEMMA NextTyping == Typing /\ Threading /\ [Next]_vars => Typing' /\ Threading'
  <1> SUFFICES ASSUME Typing, Threading, [Next]_vars PROVE Typing' /\ Threading'
    OBVIOUS
  <1>1. CASE UNCHANGED vars
    BY <1>1 DEF vars, Typing, ChannelTyped, ThreadsTyped, SurfacesTyped, SidecarsTyped, HistoryTyped,
                Threading
  <1>2. CASE Next
    <2>1. ASSUME NEW t \in Callers, BeginCall(t) \/ CallerStep(t) PROVE Typing' /\ Threading'
      BY <2>1, BeginTyping, LockTyping, CallTyping, ShowTyping, ThreadsApart DEF CallerStep
    <2>2. CASE ReceiverStep
      BY <2>2, ReceiveTyping, LockTyping, ConsumeTyping, ShowTyping, ThreadsApart DEF ReceiverStep
    <2>. QED BY <1>1, <1>2, <2>1, <2>2, SidecarTyping DEF Next, Rest
  <1>. QED BY <1>1, <1>2

-----------------------------------------------------------------------------
(* Rings and messages about them *)

Announced(n, p) == n \in DOMAIN rings /\ rings[n].pane = p
Knows(message) == message.kind # "hello" => Announced(message.ring, message.pane)

\* Every ring a pane holds, a message names or a sidecar draws in was sent for
\* that pane; and a sidecar draws in its own.
RingsKnown ==
  /\ \A p \in Panes : pane[p].ring # 0 => Announced(pane[p].ring, p)
  /\ \A k \in DOMAIN inbox : Knows(inbox[k])
  /\ taken # <<>> => Knows(taken)
  /\ \A s \in Sidecars, p \in Panes : current[s][p] # 0 =>
       Announced(current[s][p], p) /\ rings[current[s][p]].sidecar = s

\* A step of the application.
Application == ReceiverStep \/ \E t \in Callers : BeginCall(t) \/ CallerStep(t)

LEMMA NextSplits ==
  ASSUME [Next]_vars
  PROVE  (\E s \in Sidecars : Sidecar(s)) \/ Application \/ UNCHANGED vars
  BY DEF Next, Rest, Application

\* What steps of the application do to the rings of panes and to messages.
LEMMA ApplicationRings ==
  ASSUME Typing, Threading, Application
  PROVE  /\ UNCHANGED <<rings, current>>
         /\ \A p \in Panes : \/ pane'[p].ring \in {0, pane[p].ring}
                             \/ /\ pane'[p].ring = taken.ring /\ p = taken.pane
                                /\ taken # <<>> /\ taken.kind = "ring"
         /\ \/ taken' = taken \/ taken' = <<>>
            \/ inbox # <<>> /\ taken' = Head(inbox)
         /\ inbox' = inbox \/ inbox' = <<>> \/ (inbox # <<>> /\ inbox' = Tail(inbox))
  <1> DEFINE
    Same == UNCHANGED <<rings, current, inbox>>
    PaneKept == \A p \in Panes : pane'[p].ring = pane[p].ring
    Taken == taken' = taken \/ taken' = <<>>
  <1>1. ASSUME NEW t \in Threads, Lock(t) \/ Show(t) PROVE Same /\ PaneKept /\ Taken
    BY <1>1 DEF Lock, Show, channelVars, sidecarVars
  <1>2. ASSUME Receive
        PROVE  /\ UNCHANGED <<rings, current, pane>> /\ inbox # <<>> /\ inbox' = Tail(inbox)
               /\ taken' = Head(inbox) \/ taken' = taken
    BY <1>2 DEF Receive, channelVars
  <1>3. ASSUME SendReleased \/ Sent PROVE Same /\ PaneKept /\ Taken
    BY <1>3 DEF SendReleased, Sent, channelVars, sidecarVars
  <1>4. ASSUME NEW t \in Callers, BeginCall(t) PROVE Same /\ PaneKept /\ Taken
    BY <1>4, BeginTyping
  <1>5. ASSUME NEW t \in Callers, Call(t)
        PROVE  /\ UNCHANGED <<rings, current>> /\ taken' = taken
               /\ inbox' = inbox \/ inbox' = <<>>
               /\ \A p \in Panes : pane'[p].ring \in {0, pane[p].ring}
    <2>1. pane \in [Panes -> PaneRings]
      BY DEF Typing, ChannelTyped
    <2>2. CASE Close(t)
      <3>1. pane' = [p \in Panes |-> [pane[p] EXCEPT !.ring = 0, !.displayed = None]]
        BY <2>2 DEF Close
      <3>2. \A p \in Panes : pane'[p].ring = 0
        BY <2>1, <3>1 DEF PaneRings
      <3>. QED BY <2>2, <3>2 DEF Close, Return
    <2>3. CASE Bind(t) \/ UnbindView(t) \/ BindView(t)
      <3>1. \/ pane' = [pane EXCEPT ![job[t].pane].sidecar = job[t].sidecar]
            \/ pane' = [pane EXCEPT ![job[t].pane].view = NoView]
            \/ pane' = [pane EXCEPT ![job[t].pane].view = job[t].view]
        BY <2>3 DEF Bind, UnbindView, BindView
      <3>2. \A p \in Panes : pane'[p].ring = pane[p].ring
        BY <2>1, <3>1 DEF PaneRings
      <3>. QED BY <2>3, <3>2 DEF Bind, UnbindView, BindView, Return, Beside, sidecarVars
    <2>4. CASE Snapshot(t) \/ ReadPixels(t)
      BY <2>4 DEF Snapshot, ReadPixels, Return, Beside, sidecarVars, channelVars
    <2>. QED BY <1>5, <2>2, <2>3, <2>4 DEF Call
  <1>6. ASSUME Consume
        PROVE  /\ Same /\ Taken
               /\ \A p \in Panes : \/ pane'[p].ring \in {0, pane[p].ring}
                                   \/ /\ pane'[p].ring = taken.ring /\ p = taken.pane
                                      /\ taken # <<>> /\ taken.kind = "ring"
    <2>1. at[Receiver] = "held" /\ Beside
      BY <1>6 DEF Consume, ConsumeHello, ConsumeGap, ConsumeRing, ConsumeBrokenRing, RefuseRing, ConsumeFrame,
                  RefuseFrame, ConsumeEnded, Consuming
    <2>2. taken \in Messages /\ Same
      BY <2>1 DEF Threading, Beside, sidecarVars
    <2>3. pane \in [Panes -> PaneRings] /\ taken # <<>>
      BY <2>2, MessageFields DEF Typing, ChannelTyped
    <2>4. /\ taken.kind # "hello" => taken.pane \in Panes /\ taken.ring \in Rings
          /\ 0 \in 0 .. MaxRings /\ Rings \subseteq 0 .. MaxRings
      BY <2>2, MessageFields, BoundsAssumption DEF Rings
    <2>5. CASE ConsumeHello \/ ConsumeGap \/ RefuseRing \/ RefuseFrame
      BY <2>2, <2>5 DEF ConsumeHello, ConsumeGap, RefuseRing, RefuseFrame, Settle, channelVars
    <2>6. CASE ConsumeFrame
      <3>1. pane' = [pane EXCEPT ![taken.pane].displayed = taken.slot] /\ taken' = taken
        BY <2>6 DEF ConsumeFrame
      <3>. QED BY <2>2, <2>3, <3>1 DEF PaneRings
    <2>7. CASE ConsumeRing
      <3>1. /\ taken.kind = "ring" /\ ReleaseRing(taken.pane, taken.ring) /\ taken' = taken
            /\ taken.ring \in 0 .. MaxRings /\ taken.pane \in Panes
        BY <2>4, <2>7 DEF ConsumeRing, Consuming
      <3>2. /\ pane'[taken.pane] = [pane[taken.pane] EXCEPT !.ring = taken.ring, !.displayed = None]
            /\ \A q \in Panes : q # taken.pane => pane'[q] = pane[q]
        BY <3>1, ReleaseRingTyped
      <3>3. pane'[taken.pane].ring = taken.ring
        BY <2>3, <3>1, <3>2 DEF PaneRings
      <3>. QED BY <2>2, <2>3, <3>1, <3>2, <3>3
    <2>8. CASE ConsumeBrokenRing \/ ConsumeEnded
      <3>1. /\ ReleaseRing(taken.pane, 0) /\ taken' = <<>> /\ taken.pane \in Panes
        BY <2>4, <2>8 DEF ConsumeBrokenRing, ConsumeEnded, Consuming, Settle
      <3>2. /\ pane'[taken.pane] = [pane[taken.pane] EXCEPT !.ring = 0, !.displayed = None]
            /\ \A q \in Panes : q # taken.pane => pane'[q] = pane[q]
        BY <2>4, <3>1, ReleaseRingTyped
      <3>3. pane'[taken.pane].ring = 0
        BY <2>3, <3>1, <3>2 DEF PaneRings
      <3>. QED BY <2>2, <3>1, <3>2, <3>3
    <2>. QED BY <1>6, <2>5, <2>6, <2>7, <2>8 DEF Consume
  <1>7. CASE ReceiverStep
    BY <1>1, <1>2, <1>3, <1>6, <1>7, ThreadsApart DEF ReceiverStep
  <1>8. CASE \E t \in Callers : BeginCall(t) \/ CallerStep(t)
    BY <1>1, <1>4, <1>5, <1>8, ThreadsApart DEF CallerStep
  <1>. QED BY <1>7, <1>8 DEF Application

LEMMA AppendKeeps ==
  ASSUME NEW S, NEW q \in Seq(S), NEW e \in S
  PROVE  /\ \A k \in DOMAIN q : k \in DOMAIN Append(q, e) /\ Append(q, e)[k] = q[k]
         /\ Append(q, e)[Len(q) + 1] = e /\ Len(q) + 1 \in DOMAIN Append(q, e)
         /\ \A k \in DOMAIN Append(q, e) : k \in DOMAIN q \/ k = Len(q) + 1
         /\ Len(q) + 1 \notin DOMAIN q
  OBVIOUS

\* What a sidecar's step does to rings and messages: at most one message is added,
\* about the ring the sidecar draws in.
LEMMA SidecarRings ==
  ASSUME Typing, RingsKnown, NEW s \in Sidecars, Sidecar(s)
  PROVE  /\ \A n \in DOMAIN rings : n \in DOMAIN rings' /\ rings'[n] = rings[n]
         /\ UNCHANGED <<pane, taken>>
         /\ \A k \in DOMAIN inbox' : \/ k \in DOMAIN inbox /\ inbox'[k] = inbox[k]
                                     \/ Knows(inbox[k])'
         /\ \A r \in Sidecars, p \in Panes :
              \/ current'[r][p] \in {0, current[r][p]}
              \/ /\ r = s /\ current'[r][p] \in DOMAIN rings' /\ rings'[current'[r][p]].pane = p
                 /\ rings'[current'[r][p]].sidecar = s
  <1>1. UNCHANGED <<pane, taken>>
    BY DEF Sidecar, SendHello, TakeReleased, SendRing, SendGap, SendEnded, SendFrame, Send,
           channelVars, threadVars
  <1>2. /\ inbox \in Seq(Messages) /\ rings \in Seq([pane : Panes, sidecar : Sidecars])
        /\ current \in [Sidecars -> [Panes -> 0 .. MaxRings]]
    BY DEF Typing, SidecarsTyped
  <1>3. CASE TakeReleased(s)
    BY <1>1, <1>3 DEF TakeReleased
  <1>4. CASE SendHello(s)
    <2> DEFINE m == [kind |-> "hello", sidecar |-> s, life |-> life[s] + 1]
    <2>1. /\ UNCHANGED rings /\ current' = [current EXCEPT ![s] = [p \in Panes |-> 0]]
          /\ inbox' = Append(inbox, m) /\ m.kind = "hello"
      BY <1>4 DEF SendHello
    <2>2. m \in Messages
      BY <1>4, BoundsAssumption DEF SendHello, Typing, SidecarsTyped, Messages, Lives
    <2> HIDE DEF m
    <2>3. \A k \in DOMAIN inbox' : (k \in DOMAIN inbox /\ inbox'[k] = inbox[k]) \/ inbox'[k] = m
      BY <1>2, <2>1, <2>2, AppendKeeps
    <2>4. \A r \in Sidecars, p \in Panes : current'[r][p] \in {0, current[r][p]}
      BY <1>2, <2>1
    <2>5. \A k \in DOMAIN inbox' : (k \in DOMAIN inbox /\ inbox'[k] = inbox[k]) \/ Knows(inbox[k])'
      BY <2>1, <2>3 DEF Knows
    <2>. QED BY <1>1, <2>1, <2>4, <2>5
  <1>5. ASSUME NEW m \in Messages, Send(m), m.kind # "hello",
               m.ring \in DOMAIN rings' /\ rings'[m.ring].pane = m.pane
        PROVE  \A k \in DOMAIN inbox' : \/ k \in DOMAIN inbox /\ inbox'[k] = inbox[k]
                                        \/ Knows(inbox[k])'
    <2>1. inbox' = Append(inbox, m)
      BY <1>5 DEF Send
    <2>2. \A k \in DOMAIN inbox' : (k \in DOMAIN inbox /\ inbox'[k] = inbox[k]) \/ inbox'[k] = m
      BY <1>2, <2>1, AppendKeeps
    <2>. QED BY <1>5, <2>2 DEF Knows, Announced
  <1>6. ASSUME NEW p \in Panes, SendRing(s, p)
        PROVE  /\ \A n \in DOMAIN rings : n \in DOMAIN rings' /\ rings'[n] = rings[n]
               /\ \A k \in DOMAIN inbox' : \/ k \in DOMAIN inbox /\ inbox'[k] = inbox[k]
                                           \/ Knows(inbox[k])'
               /\ \A r \in Sidecars, q \in Panes :
                    \/ current'[r][q] \in {0, current[r][q]}
                    \/ /\ r = s /\ current'[r][q] \in DOMAIN rings' /\ rings'[current'[r][q]].pane = q
                       /\ rings'[current'[r][q]].sidecar = s
    <2> DEFINE n == Len(rings) + 1
               m == [kind |-> "ring", pane |-> p, ring |-> n]
               g == [pane |-> p, sidecar |-> s]
    <2>1. /\ Send(m) /\ rings' = Append(rings, g) /\ current' = [current EXCEPT ![s][p] = n]
      BY <1>6 DEF SendRing
    <2>2. /\ \A k \in DOMAIN rings : k \in DOMAIN rings' /\ rings'[k] = rings[k]
          /\ n \in DOMAIN rings' /\ rings'[n] = g
      BY <1>2, <2>1, AppendKeeps
    <2>3. n \in Rings
      BY <1>2, <1>6, BoundsAssumption DEF SendRing, Rings
    <2>4. m \in Messages /\ m.kind # "hello" /\ m.ring = n /\ m.pane = p
      BY <2>3 DEF Messages
    <2>5. \A k \in DOMAIN inbox' : \/ k \in DOMAIN inbox /\ inbox'[k] = inbox[k]
                                   \/ Knows(inbox[k])'
      BY <1>5, <2>1, <2>2, <2>4
    <2> HIDE DEF n
    <2>6. \A r \in Sidecars, q \in Panes : current'[r][q] = current[r][q] \/ (r = s /\ q = p /\ current'[r][q] = n)
      BY <1>2, <2>1
    <2>. QED BY <2>2, <2>5, <2>6
  <1>7. ASSUME NEW p \in Panes,
               SendGap(s, p) \/ SendEnded(s, p) \/ \E i \in Slots : SendFrame(s, p, i)
        PROVE  /\ UNCHANGED rings
               /\ \A k \in DOMAIN inbox' : \/ k \in DOMAIN inbox /\ inbox'[k] = inbox[k]
                                           \/ Knows(inbox[k])'
               /\ \A r \in Sidecars, q \in Panes : current'[r][q] \in {0, current[r][q]}
    <2> DEFINE n == current[s][p]
    <2>1. UNCHANGED rings /\ n # 0
      BY <1>7 DEF SendGap, SendEnded, SendFrame
    <2>2. \A r \in Sidecars, q \in Panes : current'[r][q] \in {0, current[r][q]}
      <3>1. current' = current \/ current' = [current EXCEPT ![s][p] = 0]
        BY <1>7 DEF SendGap, SendEnded, SendFrame
      <3>. QED BY <1>2, <3>1
    <2>3. n \in Rings /\ n \in DOMAIN rings /\ rings[n].pane = p
      BY <1>2, <2>1, BoundsAssumption DEF Rings, RingsKnown, Announced
    <2>4. \E m \in Messages : Send(m) /\ m.kind # "hello" /\ m.ring = n /\ m.pane = p
      <3>1. CASE SendGap(s, p)
        <4>1. [kind |-> "gap", pane |-> p, ring |-> n] \in Messages
          BY <2>3 DEF Messages
        <4>. QED BY <3>1, <4>1 DEF SendGap
      <3>2. CASE SendEnded(s, p)
        <4>1. [kind |-> "ended", pane |-> p, ring |-> n] \in Messages
          BY <2>3 DEF Messages
        <4>. QED BY <3>2, <4>1 DEF SendEnded
      <3>3. CASE \E i \in Slots : SendFrame(s, p, i)
        <4>1. PICK i \in Slots : SendFrame(s, p, i)
          BY <3>3
        <4>2. [kind |-> "frame", pane |-> p, ring |-> n, slot |-> i] \in Messages
          BY <2>3 DEF Messages
        <4>. QED BY <4>1, <4>2 DEF SendFrame
      <3>. QED BY <1>7, <3>1, <3>2, <3>3
    <2>5. PICK m \in Messages : Send(m) /\ m.kind # "hello" /\ m.ring = n /\ m.pane = p
      BY <2>4
    <2>6. \A k \in DOMAIN inbox' : \/ k \in DOMAIN inbox /\ inbox'[k] = inbox[k]
                                   \/ Knows(inbox[k])'
      BY <1>5, <2>1, <2>3, <2>5
    <2>. QED BY <2>1, <2>2, <2>6
  <1>8. CASE \E p \in Panes : SendRing(s, p)
    BY <1>1, <1>6, <1>8
  <1>9. CASE \E p \in Panes : SendGap(s, p) \/ SendEnded(s, p) \/ \E i \in Slots : SendFrame(s, p, i)
    BY <1>1, <1>7, <1>9
  <1>. QED BY <1>3, <1>4, <1>8, <1>9 DEF Sidecar

LEMMA NextKnows ==
  Typing /\ Threading /\ RingsKnown /\ [Next]_vars => RingsKnown'
  <1> SUFFICES ASSUME Typing, Threading, RingsKnown, [Next]_vars PROVE RingsKnown'
    OBVIOUS
  <1>1. CASE UNCHANGED vars
    BY <1>1 DEF vars, RingsKnown, Knows, Announced
  <1>2. CASE \E s \in Sidecars : Sidecar(s)
    <2>1. PICK s \in Sidecars : Sidecar(s)
      BY <1>2
    <2>2. /\ \A n \in DOMAIN rings : n \in DOMAIN rings' /\ rings'[n] = rings[n]
          /\ UNCHANGED <<pane, taken>>
          /\ \A k \in DOMAIN inbox' : \/ k \in DOMAIN inbox /\ inbox'[k] = inbox[k]
                                      \/ Knows(inbox[k])'
          /\ \A r \in Sidecars, p \in Panes :
               \/ current'[r][p] \in {0, current[r][p]}
               \/ /\ r = s /\ current'[r][p] \in DOMAIN rings' /\ rings'[current'[r][p]].pane = p
                  /\ rings'[current'[r][p]].sidecar = s
      BY <2>1, SidecarRings
    <2>3. \A p \in Panes : pane'[p].ring # 0 => Announced(pane[p].ring, p)'
      BY <2>2 DEF RingsKnown, Announced
    <2>4. (taken # <<>> => Knows(taken))'
      BY <2>2 DEF RingsKnown, Knows, Announced
    <2>5. \A k \in DOMAIN inbox' : Knows(inbox[k])'
      BY <2>2 DEF RingsKnown, Knows, Announced
    <2>6. \A r \in Sidecars, p \in Panes : current'[r][p] # 0 =>
            current'[r][p] \in DOMAIN rings' /\ rings'[current'[r][p]].pane = p
              /\ rings'[current'[r][p]].sidecar = r
      BY <2>2 DEF RingsKnown, Announced
    <2>. QED BY <2>3, <2>4, <2>5, <2>6 DEF RingsKnown, Announced
  <1>3. CASE Application
    <2>1. /\ UNCHANGED <<rings, current>>
          /\ \A p \in Panes : \/ pane'[p].ring \in {0, pane[p].ring}
                              \/ /\ pane'[p].ring = taken.ring /\ p = taken.pane
                                 /\ taken # <<>> /\ taken.kind = "ring"
          /\ \/ taken' = taken \/ taken' = <<>>
             \/ inbox # <<>> /\ taken' = Head(inbox)
          /\ inbox' = inbox \/ inbox' = <<>> \/ (inbox # <<>> /\ inbox' = Tail(inbox))
      BY <1>3, ApplicationRings
    <2>2. inbox \in Seq(Messages)
      BY DEF Typing, SidecarsTyped
    <2>3. inbox # <<>> => 1 \in DOMAIN inbox /\ Head(inbox) = inbox[1]
      BY <2>2
    <2>4. \A k \in DOMAIN inbox' : \E j \in DOMAIN inbox : inbox'[k] = inbox[j]
      <3>1. CASE inbox' = inbox
        BY <3>1
      <3>2. CASE inbox' = <<>>
        BY <3>2
      <3>3. CASE inbox # <<>> /\ inbox' = Tail(inbox)
        <4>1. \A k \in DOMAIN Tail(inbox) : k + 1 \in DOMAIN inbox /\ Tail(inbox)[k] = inbox[k + 1]
          BY <2>2, <3>3
        <4>. QED BY <3>3, <4>1
      <3>. QED BY <2>1, <3>1, <3>2, <3>3
    <2>5. \A p \in Panes : pane'[p].ring # 0 => Announced(pane[p].ring, p)'
      BY <2>1 DEF RingsKnown, Knows, Announced
    <2>6. (taken # <<>> => Knows(taken))'
      BY <2>1, <2>3 DEF RingsKnown, Knows, Announced
    <2>7. \A k \in DOMAIN inbox' : Knows(inbox[k])'
      BY <2>1, <2>4 DEF RingsKnown, Knows, Announced
    <2>. QED BY <2>1, <2>5, <2>6, <2>7 DEF RingsKnown, Announced
  <1>. QED BY <1>1, <1>2, <1>3, NextSplits

LEMMA InitKnows == Init => RingsKnown
  BY DEF Init, RingsKnown

-----------------------------------------------------------------------------
(* References *)

\* A ring belongs to one pane and only two threads borrow, so what is held of a
\* surface can be told without counting: a ring's reference, and a lease's each.
Holding(x) == IF \E p \in Panes : pane[p].ring = x[1] THEN 1 ELSE 0
Borrowing(t, x) == IF lease[t].surface = x THEN 1 ELSE 0
Tallied ==
  \A x \in Surfaces :
    refs[x] = Holding(x) + Borrowing(Receiver, x) + Borrowing(Committer, x)

LEMMA SurfaceFields ==
  ASSUME NEW x \in Surfaces
  PROVE  /\ x[1] \in Rings /\ x[1] # 0 /\ x[2] \in Slots /\ x # NoSurface /\ x = <<x[1], x[2]>>
         /\ \A n : x \in SurfacesOf(n) <=> x[1] = n
  BY DEF Surfaces, Rings, NoSurface, SurfacesOf

LEMMA BorrowersKnown ==
  ASSUME Threading, NEW t \in Threads, t \notin {Receiver, Committer}, NEW x \in Surfaces
  PROVE  lease[t] = NoLease /\ lease[t].surface # x
  BY SurfaceFields DEF Threading, NoLease

LEMMA TalliesAreCounts ==
  ASSUME RingsKnown, Threading, Typing
  PROVE  Tallied <=> ReferencesBalanced
  <1>1. ASSUME NEW x \in Surfaces
        PROVE  Cardinality({p \in Panes : pane[p].ring = x[1]}) = Holding(x)
    <2> DEFINE Holders == {p \in Panes : pane[p].ring = x[1]}
    <2>1. CASE \E p \in Panes : pane[p].ring = x[1]
      <3>1. PICK p \in Panes : pane[p].ring = x[1]
        BY <2>1
      <3>2. \A q \in Holders : q = p
        BY <3>1, SurfaceFields DEF RingsKnown, Announced
      <3>3. Holders = {p}
        BY <3>1, <3>2
      <3> HIDE DEF Holders
      <3>4. Cardinality(Holders) = 1
        BY <3>3, FS_Singleton
      <3>5. Holding(x) = 1
        BY <2>1 DEF Holding
      <3>. QED BY <3>4, <3>5 DEF Holders
    <2>2. CASE ~\E p \in Panes : pane[p].ring = x[1]
      <3>1. Holders = {}
        BY <2>2
      <3> HIDE DEF Holders
      <3>2. Cardinality(Holders) = 0
        BY <3>1, FS_EmptySet
      <3>3. Holding(x) = 0
        BY <2>2 DEF Holding
      <3>. QED BY <3>2, <3>3 DEF Holders
    <2>. QED BY <2>1, <2>2
  <1>2. ASSUME NEW x \in Surfaces
        PROVE  Cardinality({t \in Threads : lease[t].surface = x})
                 = Borrowing(Receiver, x) + Borrowing(Committer, x)
    <2> DEFINE Borrowers == {t \in Threads : lease[t].surface = x}
    <2>1. Receiver \in Threads /\ Committer \in Threads /\ Receiver # Committer
      BY ThreadsApart
    <2>2. \A t \in Borrowers : t = Receiver \/ t = Committer
      BY BorrowersKnown
    <2>3. CASE lease[Receiver].surface = x /\ lease[Committer].surface = x
      <3>1. Borrowers = {Receiver} \cup {Committer}
        BY <2>1, <2>2, <2>3
      <3>2. /\ IsFiniteSet({Receiver}) /\ Cardinality({Receiver}) = 1
            /\ Committer \notin {Receiver}
        BY <2>1, FS_Singleton
      <3>3. Cardinality({Receiver} \cup {Committer}) = 2
        BY <3>2, FS_AddElement
      <3> HIDE DEF Borrowers
      <3>4. Cardinality(Borrowers) = 2
        BY <3>1, <3>3
      <3>5. Borrowing(Receiver, x) = 1 /\ Borrowing(Committer, x) = 1
        BY <2>3 DEF Borrowing
      <3>. QED BY <3>4, <3>5 DEF Borrowers
    <2>4. CASE lease[Receiver].surface = x /\ lease[Committer].surface # x
      <3>1. Borrowers = {Receiver}
        BY <2>1, <2>2, <2>4
      <3> HIDE DEF Borrowers
      <3>2. Cardinality(Borrowers) = 1
        BY <3>1, FS_Singleton
      <3>3. Borrowing(Receiver, x) = 1 /\ Borrowing(Committer, x) = 0
        BY <2>4 DEF Borrowing
      <3>. QED BY <3>2, <3>3 DEF Borrowers
    <2>5. CASE lease[Receiver].surface # x /\ lease[Committer].surface = x
      <3>1. Borrowers = {Committer}
        BY <2>1, <2>2, <2>5
      <3> HIDE DEF Borrowers
      <3>2. Cardinality(Borrowers) = 1
        BY <3>1, FS_Singleton
      <3>3. Borrowing(Receiver, x) = 0 /\ Borrowing(Committer, x) = 1
        BY <2>5 DEF Borrowing
      <3>. QED BY <3>2, <3>3 DEF Borrowers
    <2>6. CASE lease[Receiver].surface # x /\ lease[Committer].surface # x
      <3>1. Borrowers = {}
        BY <2>2, <2>6
      <3> HIDE DEF Borrowers
      <3>2. Cardinality(Borrowers) = 0
        BY <3>1, FS_EmptySet
      <3>3. Borrowing(Receiver, x) = 0 /\ Borrowing(Committer, x) = 0
        BY <2>6 DEF Borrowing
      <3>. QED BY <3>2, <3>3 DEF Borrowers
    <2>. QED BY <2>3, <2>4, <2>5, <2>6
  <1> DEFINE held(x) == Cardinality({p \in Panes : pane[p].ring = x[1]})
             lent(x) == Cardinality({t \in Threads : lease[t].surface = x})
  <1>3. ReferencesBalanced <=> \A x \in Surfaces : refs[x] = held(x) + lent(x)
    BY DEF ReferencesBalanced
  <1>4. \A x \in Surfaces : /\ held(x) = Holding(x) /\ Holding(x) \in {0, 1}
                            /\ lent(x) = Borrowing(Receiver, x) + Borrowing(Committer, x)
                            /\ Borrowing(Receiver, x) \in {0, 1} /\ Borrowing(Committer, x) \in {0, 1}
    BY <1>1, <1>2 DEF Holding, Borrowing
  <1> HIDE DEF held, lent
  <1>5. \A x \in Surfaces : held(x) + lent(x) = Holding(x) + Borrowing(Receiver, x) + Borrowing(Committer, x)
    BY <1>4
  <1>. QED BY <1>3, <1>5 DEF Tallied

\* A ring goes and one, or none, comes in its place.
LEMMA ReleaseRingTally ==
  ASSUME Typing, RingsKnown, Tallied, NEW p \in Panes, NEW n \in 0 .. MaxRings,
         n # 0 => Announced(n, p), ReleaseRing(p, n), UNCHANGED lease
  PROVE  Tallied'
  <1>1. /\ pane'[p] = [pane[p] EXCEPT !.ring = n, !.displayed = None]
        /\ \A q \in Panes : q # p => pane'[q] = pane[q]
        /\ \A x \in Surfaces :
             refs'[x] = refs[x] - (IF x \in SurfacesOf(pane[p].ring) THEN 1 ELSE 0)
                                + (IF x \in SurfacesOf(n) THEN 1 ELSE 0)
    BY ReleaseRingTyped
  <1>2. pane'[p].ring = n /\ \A q \in Panes : q # p => pane'[q].ring = pane[q].ring
    BY <1>1 DEF Typing, ChannelTyped, PaneRings
  <1>3. \A m, q \in Panes : m # q /\ pane[q].ring # 0 => pane[m].ring # pane[q].ring
    BY DEF RingsKnown, Announced
  <1>4. ASSUME NEW x \in Surfaces
        PROVE  Holding(x)' = Holding(x) - (IF x[1] = pane[p].ring THEN 1 ELSE 0)
                                        + (IF x[1] = n THEN 1 ELSE 0)
    <2>1. x[1] # 0
      BY SurfaceFields
    <2>2. Holding(x)' = IF \E q \in Panes : pane'[q].ring = x[1] THEN 1 ELSE 0
      BY DEF Holding
    <2>3. CASE x[1] = n
      <3>1. Holding(x)' = 1
        BY <1>2, <2>2, <2>3
      <3>2. \A q \in Panes : pane[q].ring = x[1] => q = p
        BY <2>1, <2>3 DEF RingsKnown, Announced
      <3>3. Holding(x) = IF x[1] = pane[p].ring THEN 1 ELSE 0
        BY <3>2 DEF Holding
      <3>. QED BY <2>3, <3>1, <3>3
    <2>4. CASE x[1] # n /\ x[1] = pane[p].ring
      <3>1. Holding(x) = 1
        BY <2>4 DEF Holding
      <3>2. Holding(x)' = 0
        BY <1>2, <1>3, <2>1, <2>2, <2>4
      <3>. QED BY <2>4, <3>1, <3>2
    <2>5. CASE x[1] # n /\ x[1] # pane[p].ring
      <3>1. (\E q \in Panes : pane'[q].ring = x[1]) <=> \E q \in Panes : pane[q].ring = x[1]
        BY <1>2, <2>5
      <3>2. Holding(x)' = Holding(x) /\ Holding(x) \in {0, 1}
        BY <2>2, <3>1 DEF Holding
      <3>. QED BY <2>5, <3>2
    <2>. QED BY <2>3, <2>4, <2>5
  <1>5. \A x \in Surfaces : /\ Borrowing(Receiver, x)' = Borrowing(Receiver, x)
                            /\ Borrowing(Committer, x)' = Borrowing(Committer, x)
                            /\ Borrowing(Receiver, x) \in {0, 1} /\ Borrowing(Committer, x) \in {0, 1}
                            /\ Holding(x) \in {0, 1}
    BY DEF Borrowing, Holding
  <1>6. ASSUME NEW x \in Surfaces
        PROVE  refs'[x] = Holding(x)' + Borrowing(Receiver, x)' + Borrowing(Committer, x)'
    <2>1. refs[x] = Holding(x) + Borrowing(Receiver, x) + Borrowing(Committer, x)
      BY DEF Tallied
    <2>2. /\ x \in SurfacesOf(pane[p].ring) <=> x[1] = pane[p].ring
          /\ x \in SurfacesOf(n) <=> x[1] = n
      BY SurfaceFields
    <2>3. refs'[x] = refs[x] - (IF x[1] = pane[p].ring THEN 1 ELSE 0) + (IF x[1] = n THEN 1 ELSE 0)
      BY <1>1, <2>2
    <2> DEFINE h == Holding(x)  r == Borrowing(Receiver, x)  c == Borrowing(Committer, x)
    <2>4. h \in Int /\ r \in Int /\ c \in Int
      BY <1>5
    <2>5. /\ Holding(x)' = h - (IF x[1] = pane[p].ring THEN 1 ELSE 0) + (IF x[1] = n THEN 1 ELSE 0)
          /\ Borrowing(Receiver, x)' = r /\ Borrowing(Committer, x)' = c
          /\ refs[x] = h + r + c
      BY <1>4, <1>5, <2>1
    <2> HIDE DEF h, r, c
    <2>. QED BY <2>3, <2>4, <2>5
  <1>. QED BY <1>6 DEF Tallied

\* A surface is borrowed by a thread that had borrowed none.
LEMMA HoldDisplayTally ==
  ASSUME Typing, Tallied, NEW t \in {Receiver, Committer}, lease[t] = NoLease,
         NEW view \in Views \cup {NoView}, NEW surface \in Surfaces, HoldDisplay(t, view, surface),
         \A p \in Panes : pane'[p].ring = pane[p].ring
  PROVE  Tallied'
  <1>1. t \in Threads /\ Receiver \in Threads /\ Committer \in Threads /\ Receiver # Committer
    BY ThreadsApart
  <1>2. /\ lease'[t] = IF view = NoView THEN NoLease ELSE [view |-> view, surface |-> surface]
        /\ \A u \in Threads : u # t => lease'[u] = lease[u]
        /\ \A x \in Surfaces : refs'[x] = refs[x] + (IF view # NoView /\ x = surface THEN 1 ELSE 0)
    BY <1>1, HoldDisplayTyped
  <1>3. ASSUME NEW x \in Surfaces
        PROVE  refs'[x] = Holding(x)' + Borrowing(Receiver, x)' + Borrowing(Committer, x)'
    <2>1. refs[x] = Holding(x) + Borrowing(Receiver, x) + Borrowing(Committer, x)
      BY DEF Tallied
    <2>2. Holding(x)' = Holding(x) /\ Holding(x) \in {0, 1}
      BY DEF Holding
    <2>3. /\ Borrowing(t, x) = 0
          /\ Borrowing(t, x)' = IF view # NoView /\ x = surface THEN 1 ELSE 0
      <3>1. x # NoSurface
        BY SurfaceFields
      <3>. QED BY <1>2, <3>1 DEF Borrowing, NoLease
    <2>4. \A u \in {Receiver, Committer} : /\ u # t => Borrowing(u, x)' = Borrowing(u, x)
                                           /\ Borrowing(u, x) \in {0, 1}
      BY <1>1, <1>2 DEF Borrowing
    <2>5. refs'[x] = refs[x] + (IF view # NoView /\ x = surface THEN 1 ELSE 0)
      BY <1>2
    <2>6. CASE t = Receiver
      BY <1>1, <2>1, <2>2, <2>3, <2>4, <2>5, <2>6
    <2>7. CASE t = Committer
      BY <1>1, <2>1, <2>2, <2>3, <2>4, <2>5, <2>7
    <2>. QED BY <2>6, <2>7
  <1>. QED BY <1>3 DEF Tallied

\* What was borrowed is shown and given back.
LEMMA ShowTally ==
  ASSUME Typing, Threading, Tallied, NEW t \in Threads, Show(t) PROVE Tallied'
  <1>1. /\ Receiver \in Threads /\ Committer \in Threads /\ Receiver # Committer
        /\ lease' = [lease EXCEPT ![t] = NoLease] /\ UNCHANGED pane /\ Count({lease[t].surface}, {})
    BY ThreadsApart DEF Show, channelVars
  <1>2. /\ lease'[t] = NoLease /\ \A u \in Threads : u # t => lease'[u] = lease[u]
        /\ \A x \in Surfaces : refs'[x] = refs[x] - (IF x = lease[t].surface THEN 1 ELSE 0)
    BY <1>1, CountTyped DEF Typing, ThreadsTyped, SurfacesTyped
  <1>3. ASSUME NEW x \in Surfaces
        PROVE  refs'[x] = Holding(x)' + Borrowing(Receiver, x)' + Borrowing(Committer, x)'
    <2>1. refs[x] = Holding(x) + Borrowing(Receiver, x) + Borrowing(Committer, x)
      BY DEF Tallied
    <2>2. Holding(x)' = Holding(x) /\ Holding(x) \in {0, 1}
      BY <1>1 DEF Holding
    <2>3. /\ Borrowing(t, x) = IF x = lease[t].surface THEN 1 ELSE 0
          /\ Borrowing(t, x)' = 0
      BY <1>2, SurfaceFields DEF Borrowing, NoLease
    <2>4. \A u \in {Receiver, Committer} : /\ u # t => Borrowing(u, x)' = Borrowing(u, x)
                                           /\ Borrowing(u, x) \in {0, 1}
      BY <1>1, <1>2 DEF Borrowing
    <2>5. refs'[x] = refs[x] - (IF x = lease[t].surface THEN 1 ELSE 0)
      BY <1>2
    <2>6. CASE t = Receiver
      BY <1>1, <2>1, <2>2, <2>3, <2>4, <2>5, <2>6
    <2>7. CASE t = Committer
      BY <1>1, <2>1, <2>2, <2>3, <2>4, <2>5, <2>7
    <2>8. CASE t \notin {Receiver, Committer}
      <3>1. lease[t].surface # x
        BY <2>8, BorrowersKnown
      <3>. QED BY <2>1, <2>2, <2>4, <2>5, <2>8, <3>1
    <2>. QED BY <2>6, <2>7, <2>8
  <1>. QED BY <1>3 DEF Tallied

\* Every ring goes.
LEMMA CloseTally ==
  ASSUME Typing, Tallied, NEW t \in Callers, Close(t) PROVE Tallied'
  <1>1. /\ Count(UNION {SurfacesOf(pane[p].ring) : p \in Panes}, {}) /\ UNCHANGED lease
        /\ pane' = [p \in Panes |-> [pane[p] EXCEPT !.ring = 0, !.displayed = None]]
    BY DEF Close, Return
  <1>2. \A p \in Panes : pane'[p].ring = 0
    BY <1>1 DEF Typing, ChannelTyped, PaneRings
  <1>3. ASSUME NEW x \in Surfaces
        PROVE  refs'[x] = Holding(x)' + Borrowing(Receiver, x)' + Borrowing(Committer, x)'
    <2>1. refs[x] = Holding(x) + Borrowing(Receiver, x) + Borrowing(Committer, x)
      BY DEF Tallied
    <2>2. Holding(x)' = 0
      BY <1>2, SurfaceFields DEF Holding
    <2>3. x \in UNION {SurfacesOf(pane[p].ring) : p \in Panes} <=> \E p \in Panes : pane[p].ring = x[1]
      BY SurfaceFields
    <2>4. refs'[x] = refs[x] - Holding(x)
      <3> DEFINE dropped == UNION {SurfacesOf(pane[p].ring) : p \in Panes}
      <3>0. Count(dropped, {})
        BY <1>1
      <3> HIDE DEF dropped
      <3>1. refs'[x] = refs[x] - (IF x \in dropped THEN 1 ELSE 0) + 0
        BY <3>0, CountTyped DEF Typing, SurfacesTyped
      <3>2. refs[x] \in Int
        BY DEF Typing, SurfacesTyped
      <3>. QED BY <2>3, <3>1, <3>2 DEF Holding, dropped
    <2>5. /\ Borrowing(Receiver, x)' = Borrowing(Receiver, x)
          /\ Borrowing(Committer, x)' = Borrowing(Committer, x)
          /\ Borrowing(Receiver, x) \in {0, 1} /\ Borrowing(Committer, x) \in {0, 1}
          /\ Holding(x) \in {0, 1}
      BY <1>1 DEF Borrowing, Holding
    <2>. QED BY <2>1, <2>2, <2>4, <2>5
  <1>. QED BY <1>3 DEF Tallied

\* Every other step leaves rings, leases and references alone.
LEMMA KeptTally ==
  ASSUME Tallied, UNCHANGED <<refs, lease>>, \A p \in Panes : pane'[p].ring = pane[p].ring
  PROVE  Tallied'
  BY DEF Tallied, Holding, Borrowing

LEMMA NextTally ==
  Typing /\ Threading /\ RingsKnown /\ Tallied /\ [Next]_vars => Tallied'
  <1> SUFFICES ASSUME Typing, Threading, RingsKnown, Tallied, [Next]_vars PROVE Tallied'
    OBVIOUS
  <1>1. CASE UNCHANGED vars
    BY <1>1, KeptTally DEF vars
  <1>2. ASSUME NEW s \in Sidecars, Sidecar(s) PROVE Tallied'
    <2>1. UNCHANGED <<refs, lease, pane>>
      BY <1>2 DEF Sidecar, SendHello, TakeReleased, SendRing, SendGap, SendEnded, SendFrame, Send,
                  channelVars, threadVars
    <2>. QED BY <2>1, KeptTally
  <1>3. ASSUME NEW t \in Threads, Lock(t) PROVE Tallied'
    BY <1>3, KeptTally DEF Lock, channelVars
  <1>4. ASSUME Receive \/ SendReleased \/ Sent PROVE Tallied'
    BY <1>4, KeptTally DEF Receive, SendReleased, Sent, channelVars
  <1>5. ASSUME NEW t \in Callers, BeginCall(t) PROVE Tallied'
    <2>1. UNCHANGED <<refs, lease, pane>>
      BY <1>5, BeginTyping
    <2>. QED BY <2>1, KeptTally
  <1>6. pane \in [Panes -> PaneRings]
    BY DEF Typing, ChannelTyped
  <1>7. ASSUME NEW t \in Callers, Call(t) PROVE Tallied'
    <2> DEFINE p == job[t].pane
    <2>1. CASE Close(t)
      BY <2>1, CloseTally
    <2>2. CASE Bind(t) \/ UnbindView(t)
      <3>1. /\ UNCHANGED <<refs, lease>>
            /\ \/ pane' = [pane EXCEPT ![p].sidecar = job[t].sidecar]
               \/ pane' = [pane EXCEPT ![p].view = NoView]
        BY <2>2 DEF Bind, UnbindView, Return
      <3>2. \A q \in Panes : pane'[q].ring = pane[q].ring
        BY <1>6, <3>1 DEF PaneRings
      <3>. QED BY <3>1, <3>2, KeptTally
    <2>3. CASE Snapshot(t) \/ ReadPixels(t)
      <3>1. UNCHANGED <<refs, lease, pane>>
        BY <2>3 DEF Snapshot, ReadPixels, Return, channelVars
      <3>. QED BY <3>1, KeptTally
    <2>4. CASE BindView(t)
      <3>1. /\ at[t] = "held" /\ job[t].op = "bindView"
            /\ pane' = [pane EXCEPT ![p].view = job[t].view]
            /\ \/ UNCHANGED <<lease, refs>>
               \/ /\ pane[p].ring # 0 /\ pane[p].displayed # None
                  /\ HoldDisplay(t, job[t].view, <<pane[p].ring, pane[p].displayed>>)
        BY <2>4 DEF BindView
      <3>2. t = Committer /\ lease[t] = NoLease /\ p \in Panes /\ job[t].view \in Views \cup {NoView}
        BY <3>1, ThreadsApart DEF Threading, Typing, ThreadsTyped, Jobs
      <3>3. \A q \in Panes : pane'[q].ring = pane[q].ring
        BY <1>6, <3>1 DEF PaneRings
      <3>4. CASE UNCHANGED <<lease, refs>>
        BY <3>3, <3>4, KeptTally
      <3>5. CASE /\ pane[p].ring # 0 /\ pane[p].displayed # None
                 /\ HoldDisplay(t, job[t].view, <<pane[p].ring, pane[p].displayed>>)
        <4> DEFINE x == <<pane[p].ring, pane[p].displayed>>
        <4>1. x \in Surfaces
          BY <1>6, <3>2, <3>5, BoundsAssumption DEF PaneRings, Rings, Surfaces
        <4> HIDE DEF x
        <4>2. HoldDisplay(t, job[t].view, x)
          BY <3>5 DEF x
        <4>. QED BY <3>2, <3>3, <4>1, <4>2, HoldDisplayTally
      <3>. QED BY <3>1, <3>4, <3>5
    <2>. QED BY <1>7, <2>1, <2>2, <2>3, <2>4 DEF Call
  <1>8. ASSUME Consume PROVE Tallied'
    <2> DEFINE p == taken.pane
    <2>1. at[Receiver] = "held"
      BY <1>8 DEF Consume, ConsumeHello, ConsumeGap, ConsumeRing, ConsumeBrokenRing, RefuseRing, ConsumeFrame,
                  RefuseFrame, ConsumeEnded, Consuming
    <2>2. taken \in Messages /\ lease[Receiver] = NoLease
      BY <2>1, ThreadsApart DEF Threading
    <2>3. /\ taken # <<>>
          /\ taken.kind # "hello" => taken.pane \in Panes /\ taken.ring \in Rings
          /\ taken.kind = "frame" => taken.slot \in Slots
      BY <2>2, MessageFields
    <2>4. CASE ConsumeHello \/ ConsumeGap \/ RefuseRing \/ RefuseFrame
      <3>1. UNCHANGED <<refs, lease, pane>>
        BY <2>4 DEF ConsumeHello, ConsumeGap, RefuseRing, RefuseFrame, Settle, channelVars
      <3>. QED BY <3>1, KeptTally
    <2>5. CASE ConsumeRing
      <3>1. /\ taken.kind = "ring" /\ ReleaseRing(p, taken.ring) /\ UNCHANGED lease
            /\ p \in Panes /\ taken.ring \in 0 .. MaxRings /\ Announced(taken.ring, p)
        BY <2>3, <2>5 DEF ConsumeRing, Consuming, RingsKnown, Knows, Rings
      <3>. QED BY <3>1, ReleaseRingTally
    <2>6. CASE ConsumeBrokenRing \/ ConsumeEnded
      <3>1. ReleaseRing(p, 0) /\ UNCHANGED lease /\ p \in Panes
        BY <2>3, <2>6 DEF ConsumeBrokenRing, ConsumeEnded, Consuming, Settle
      <3>2. 0 \in 0 .. MaxRings
        BY BoundsAssumption
      <3>. QED BY <3>1, <3>2, ReleaseRingTally
    <2>7. CASE ConsumeFrame
      <3> DEFINE x == <<pane[p].ring, taken.slot>>
      <3>1. /\ p \in Panes /\ taken.slot \in Slots /\ pane[p].ring # 0
            /\ pane' = [pane EXCEPT ![p].displayed = taken.slot]
            /\ HoldDisplay(Receiver, pane[p].view, x)
        BY <2>3, <2>7 DEF ConsumeFrame, Consuming
      <3>2. x \in Surfaces /\ pane[p].view \in Views \cup {NoView}
        BY <1>6, <3>1, BoundsAssumption DEF PaneRings, Rings, Surfaces
      <3>3. \A q \in Panes : pane'[q].ring = pane[q].ring
        BY <1>6, <3>1 DEF PaneRings
      <3> HIDE DEF x
      <3>. QED BY <2>2, <3>1, <3>2, <3>3, HoldDisplayTally
    <2>. QED BY <1>8, <2>4, <2>5, <2>6, <2>7 DEF Consume
  <1>9. CASE ReceiverStep
    BY <1>3, <1>4, <1>8, <1>9, ShowTally, ThreadsApart DEF ReceiverStep
  <1>10. CASE \E t \in Callers : BeginCall(t) \/ CallerStep(t)
    BY <1>3, <1>5, <1>7, <1>10, ShowTally, ThreadsApart DEF CallerStep
  <1>. QED BY <1>1, <1>2, <1>9, <1>10, NextSplits DEF Application

LEMMA InitTally == Init => Tallied
  <1> SUFFICES ASSUME Init, NEW x \in Surfaces
      PROVE refs[x] = Holding(x) + Borrowing(Receiver, x) + Borrowing(Committer, x)
    BY DEF Tallied
  <1>1. refs[x] = 0
    BY DEF Init
  <1>2. Holding(x) = 0
    BY SurfaceFields DEF Init, Holding
  <1>3. Borrowing(Receiver, x) = 0 /\ Borrowing(Committer, x) = 0
    BY SurfaceFields, ThreadsApart DEF Init, Borrowing, NoLease
  <1>. QED BY <1>1, <1>2, <1>3

\* What the channel's threads keep between them.
Keeping == Typing /\ Threading /\ RingsKnown /\ Tallied

LEMMA SpecKeeps == Spec => []Keeping
  <1>1. Init => Keeping
    BY InitTyping, InitKnows, InitTally DEF Keeping
  <1>2. Keeping /\ [Next]_vars => Keeping'
    BY NextTyping, NextKnows, NextTally DEF Keeping
  <1>. QED BY <1>1, <1>2, PTL DEF Spec

\* Every variable keeps its type; in particular no surface is released more often
\* than it was retained (channel.go:70-90).
THEOREM TypeCorrect == Spec => []TypeOK
  <1>1. Keeping => TypeOK
    <2> SUFFICES ASSUME Keeping PROVE TypeOK
      OBVIOUS
    <2>1. \A x \in Surfaces : refs[x] \in Nat
      BY DEF Keeping, Tallied, Holding, Borrowing
    <2>2. refs \in [Surfaces -> Nat]
      BY <2>1 DEF Keeping, Typing, SurfacesTyped
    <2>. QED BY <2>2 DEF Keeping, Typing, TypeOK, ChannelTyped, ThreadsTyped, SurfacesTyped, SidecarsTyped,
                         HistoryTyped
  <1>. QED BY <1>1, SpecKeeps, PTL

\* Whatever the receive thread, the callers and the sidecars do in whatever order,
\* each reference the application holds is a ring's or a lease's, and each of those
\* holds one (channel.go:70-90, 140-150, 222-233, 311-357).
THEOREM ReferencesAreBalanced == Spec => []ReferencesBalanced
  <1>1. Keeping => ReferencesBalanced
    BY TalliesAreCounts DEF Keeping
  <1>. QED BY <1>1, SpecKeeps, PTL

-----------------------------------------------------------------------------
(* What the views show *)

\* Commits are taken on the main thread, where surfaces are shown.
CommitsOnMain == Committer = Main

Picture(p) == <<pane[p].ring, pane[p].displayed>>
Fresh(v) == /\ \A p \in Panes : pane[p].view # v
            /\ \A t \in Threads : lease[t].view # v
Binding == at[Committer] \in {"lock", "held"} /\ job[Committer].op = "bindView"

\* What a view will show once what is borrowed for it has been shown: the receive
\* thread's surface is the newer, for the committer borrows for a view no frame has
\* been shown in yet.
Shown(v) == IF lease[Receiver].view = v THEN lease[Receiver].surface
            ELSE IF lease[Committer].view = v THEN lease[Committer].surface
            ELSE layer[v]

\* A bound view shows, or will, its pane's picture; no two panes have the same
\* view, and the view about to be bound is new.
Screen ==
  /\ \A p \in Panes : Picture(p) \in Surfaces /\ pane[p].view # NoView => Shown(pane[p].view) = Picture(p)
  /\ \A p, q \in Panes : p # q /\ pane[p].view # NoView => pane[q].view # pane[p].view
  /\ Binding => job[Committer].view \in Views /\ Fresh(job[Committer].view)

LEMMA PictureOf ==
  ASSUME NEW r \in PaneRings
  PROVE  <<r.ring, r.displayed>> \in Surfaces <=> r.ring # 0 /\ r.displayed # None
  <1>1. r.ring \in 0 .. MaxRings /\ r.displayed \in Slots \cup {None}
    BY DEF PaneRings
  <1>2. None \notin Slots
    <2> DEFINE n == Cardinality(Slots)
    <2>1. n \in Nat /\ Slots = 0 .. n - 1
      BY SlotsAssumption, FS_CardinalityType
    <2> HIDE DEF n
    <2>. QED BY <2>1 DEF None
  <1>. QED BY <1>1, <1>2, BoundsAssumption DEF Surfaces, Rings

\* Steps that show and bind nothing.
LEMMA ScreenKept ==
  ASSUME Typing, Typing', Screen, UNCHANGED <<layer, lease>>,
         \A p \in Panes : /\ pane'[p].view \in {NoView, pane[p].view}
                          /\ Picture(p)' = Picture(p) \/ pane'[p].displayed = None,
         Binding' => \/ job'[Committer].view = job[Committer].view /\ Binding
                     \/ job'[Committer].view \in Views /\ Fresh(job'[Committer].view)
  PROVE  Screen'
  <1>1. ASSUME NEW p \in Panes, Picture(p)' \in Surfaces, pane'[p].view # NoView
        PROVE  Shown(pane[p].view)' = Picture(p)'
    <2>1. Picture(p)' = Picture(p) /\ pane'[p].view = pane[p].view
      <3>1. pane'[p] \in PaneRings
        BY DEF Typing, ChannelTyped
      <3>2. Picture(p)' = <<pane'[p].ring, pane'[p].displayed>>
        BY DEF Picture
      <3>. QED BY <1>1, <3>1, <3>2, PictureOf
    <2>2. Shown(pane[p].view) = Picture(p)
      BY <1>1, <2>1 DEF Screen
    <2>3. Shown(pane[p].view)' = Shown(pane[p].view)
      BY <2>1 DEF Shown
    <2>. QED BY <2>1, <2>2, <2>3
  <1>2. \A p, q \in Panes : p # q /\ pane'[p].view # NoView => pane'[q].view # pane'[p].view
    BY DEF Screen
  <1>3. ASSUME NEW v \in Views, Fresh(v) PROVE Fresh(v)'
    BY <1>3, NobodyAssumption DEF Fresh
  <1>4. Binding' => job'[Committer].view \in Views /\ Fresh(job[Committer].view)'
    <2>1. ASSUME Binding' PROVE job'[Committer].view \in Views /\ Fresh(job'[Committer].view)
      BY <2>1 DEF Screen
    <2>2. ASSUME NEW v \in Views, Fresh(v), v = job'[Committer].view PROVE Fresh(job[Committer].view)'
      BY <1>3, <2>2 DEF Fresh
    <2>. QED BY <2>1, <2>2
  <1>. QED BY <1>1, <1>2, <1>4 DEF Screen

\* A lease of no surface is of no view.
LEMMA NothingLent ==
  ASSUME NEW t, lease[t] = NoLease, NEW v \in Views PROVE lease[t].view # v
  BY NobodyAssumption DEF NoLease

\* A frame is borrowed for the view it is to be shown in.
LEMMA ScreenFrame ==
  ASSUME Typing, Threading, Screen, ConsumeFrame PROVE Screen'
  <1>0. PICK p : p = taken.pane
    OBVIOUS
  <1> DEFINE x == <<pane[p].ring, taken.slot>>
  <1>1. /\ at[Receiver] = "held" /\ taken.kind = "frame" /\ pane[p].ring # 0
        /\ pane' = [pane EXCEPT ![p].displayed = taken.slot]
        /\ HoldDisplay(Receiver, pane[p].view, x)
        /\ UNCHANGED <<job, layer>> /\ at' = [at EXCEPT ![Receiver] = "sends"]
    BY <1>0 DEF ConsumeFrame, Consuming, Unlock, Beside
  <1>2. /\ Receiver \in Threads /\ Committer \in Threads /\ Receiver # Committer
        /\ taken \in Messages /\ lease[Receiver] = NoLease
    BY <1>1, ThreadsApart DEF Threading
  <1>3. p \in Panes /\ taken.slot \in Slots
    BY <1>0, <1>1, <1>2, MessageFields
  <1>4. x \in Surfaces /\ pane[p].view \in Views \cup {NoView}
    BY <1>1, <1>3, BoundsAssumption DEF Typing, ChannelTyped, PaneRings, Rings, Surfaces
  <1>5. /\ lease'[Receiver] = IF pane[p].view = NoView THEN NoLease ELSE [view |-> pane[p].view, surface |-> x]
        /\ \A u \in Threads : u # Receiver => lease'[u] = lease[u]
    <2> HIDE DEF x
    <2>1. Typing /\ Receiver \in Threads /\ pane[p].view \in Views \cup {NoView} /\ x \in Surfaces
      BY <1>2, <1>4
    <2>. QED BY <1>1, <2>1, HoldDisplayTyped
  <1>6. /\ \A q \in Panes : pane'[q].view = pane[q].view
        /\ \A q \in Panes : q # p => Picture(q)' = Picture(q)
        /\ Picture(p)' = x
    <2>1. /\ \A q \in Panes : pane'[q].view = pane[q].view
          /\ \A q \in Panes : q # p => pane'[q] = pane[q]
          /\ pane'[p].ring = pane[p].ring /\ pane'[p].displayed = taken.slot
      BY <1>1, <1>3 DEF Typing, ChannelTyped, PaneRings
    <2>. QED BY <2>1 DEF Picture
  <1> HIDE DEF x
  <1>7. ASSUME NEW v \in Views
        PROVE  Shown(v)' = IF pane[p].view = v THEN x ELSE Shown(v)
    <2>1. lease[Receiver].view # v
      BY <1>2, NothingLent
    <2>2. CASE pane[p].view = v
      <3>1. lease'[Receiver].view = v /\ lease'[Receiver].surface = x
        BY <1>5, <2>2, NobodyAssumption
      <3>. QED BY <2>2, <3>1 DEF Shown
    <2>3. CASE pane[p].view # v
      <3>1. lease'[Receiver].view # v
        BY <1>5, <2>3, NobodyAssumption DEF NoLease
      <3>2. lease'[Committer] = lease[Committer] /\ layer' = layer
        BY <1>1, <1>2, <1>5
      <3>. QED BY <2>1, <2>3, <3>1, <3>2 DEF Shown
    <2>. QED BY <2>2, <2>3
  <1>8. ASSUME NEW q \in Panes, Picture(q)' \in Surfaces, pane'[q].view # NoView
        PROVE  Shown(pane[q].view)' = Picture(q)'
    <2>1. PICK v \in Views : v = pane[q].view /\ v = pane'[q].view
      BY <1>6, <1>8 DEF Typing, ChannelTyped, PaneRings
    <2>2. Shown(v)' = Picture(q)'
      <3>1. CASE q = p
        BY <1>6, <1>7, <2>1, <3>1
      <3>2. CASE q # p
        <4>1. pane[p].view # v
          BY <1>3, <2>1, <3>2, NobodyAssumption DEF Screen
        <4>2. Shown(v) = Picture(q)
          BY <1>6, <1>8, <2>1, <3>2 DEF Screen
        <4>. QED BY <1>6, <1>7, <3>2, <4>1, <4>2
      <3>. QED BY <3>1, <3>2
    <2>. QED BY <2>1, <2>2 DEF Shown
  <1>9. \A q, r \in Panes : q # r /\ pane'[q].view # NoView => pane'[r].view # pane'[q].view
    BY <1>6 DEF Screen
  <1>10. Binding' => Binding /\ job'[Committer].view = job[Committer].view
    BY <1>1, <1>2 DEF Binding, Typing, ThreadsTyped
  <1>11. ASSUME NEW v \in Views, Fresh(v) PROVE Fresh(v)'
    <2>1. \A q \in Panes : pane'[q].view # v
      BY <1>6, <1>11 DEF Fresh
    <2>2. lease'[Receiver].view # v
      BY <1>3, <1>5, <1>11, NobodyAssumption DEF Fresh, NoLease
    <2>3. \A t \in Threads : lease'[t].view # v
      BY <1>5, <1>11, <2>2 DEF Fresh
    <2>. QED BY <2>1, <2>3 DEF Fresh
  <1>12. Binding' => job'[Committer].view \in Views /\ Fresh(job[Committer].view)'
    <2>1. ASSUME Binding' PROVE \E v \in Views : v = job[Committer].view /\ v = job'[Committer].view /\ Fresh(v)
      BY <1>10, <2>1 DEF Screen
    <2>2. ASSUME NEW v \in Views, v = job[Committer].view, v = job'[Committer].view, Fresh(v)
          PROVE  job'[Committer].view \in Views /\ Fresh(job[Committer].view)'
      BY <1>11, <2>2 DEF Fresh
    <2>. QED BY <2>1, <2>2
  <1>. QED BY <1>8, <1>9, <1>12 DEF Screen

\* What was displayed in a pane before is borrowed for its new view.
LEMMA ScreenBindView ==
  ASSUME Typing, Typing', Threading, Screen, NEW t \in Callers, BindView(t) PROVE Screen'
  <1>0. PICK p, v, x : p = job[t].pane /\ v = job[t].view /\ x = Picture(p)
    OBVIOUS
  <1>1. /\ at[t] = "held" /\ job[t].op = "bindView"
        /\ pane' = [pane EXCEPT ![p].view = v]
        /\ IF pane[p].ring # 0 /\ pane[p].displayed # None
           THEN HoldDisplay(t, v, x) ELSE UNCHANGED <<lease, refs>>
        /\ UNCHANGED <<job, layer>> /\ at' = [at EXCEPT ![t] = "show"]
    BY <1>0 DEF BindView, Unlock, Beside, Picture
  <1>2. /\ Receiver \in Threads /\ Committer \in Threads /\ Receiver # Committer
        /\ t = Committer /\ lease[t] = NoLease /\ p \in Panes
    BY <1>0, <1>1, ThreadsApart DEF Threading
  <1>3. v \in Views /\ Fresh(v)
    BY <1>0, <1>1, <1>2 DEF Screen, Binding
  <1>4. pane[p].ring # 0 /\ pane[p].displayed # None <=> x \in Surfaces
    BY <1>0, <1>2, PictureOf DEF Typing, ChannelTyped, Picture
  <1>5. /\ \A q \in Panes : q # p => pane'[q].view = pane[q].view
        /\ \A q \in Panes : Picture(q)' = Picture(q)
        /\ pane'[p].view = v
    BY <1>1, <1>2 DEF Typing, ChannelTyped, PaneRings, Picture
  <1>6. /\ lease'[t] = IF x \in Surfaces THEN [view |-> v, surface |-> x] ELSE NoLease
        /\ \A u \in Threads : u # t => lease'[u] = lease[u]
    <2>1. CASE x \in Surfaces
      <3>1. HoldDisplay(t, v, x) /\ v # NoView /\ t \in Threads
        BY <1>1, <1>2, <1>3, <1>4, <2>1, NobodyAssumption
      <3>. QED BY <1>3, <2>1, <3>1, HoldDisplayTyped
    <2>2. CASE x \notin Surfaces
      BY <1>1, <1>2, <1>4, <2>2
    <2>. QED BY <2>1, <2>2
  <1>7. ASSUME NEW w \in Views, w # v PROVE Shown(w)' = Shown(w)
    <2>1. lease[Committer].view # w /\ lease'[Committer].view # w
      BY <1>2, <1>6, <1>7, NobodyAssumption DEF NoLease
    <2>2. lease'[Receiver] = lease[Receiver] /\ layer' = layer
      BY <1>1, <1>2, <1>6
    <2>. QED BY <2>1, <2>2 DEF Shown
  <1>8. x \in Surfaces => Shown(v)' = x
    <2>1. lease'[Receiver].view # v
      BY <1>2, <1>3, <1>6 DEF Fresh
    <2>2. x \in Surfaces => lease'[Committer].view = v /\ lease'[Committer].surface = x
      BY <1>2, <1>6
    <2>. QED BY <2>1, <2>2 DEF Shown
  <1>9. ASSUME NEW q \in Panes, Picture(q)' \in Surfaces, pane'[q].view # NoView
        PROVE  Shown(pane[q].view)' = Picture(q)'
    <2>1. PICK w \in Views : w = pane'[q].view
      BY <1>3, <1>5, <1>9 DEF Typing, ChannelTyped, PaneRings
    <2>2. Shown(w)' = Picture(q)'
      <3>1. CASE q = p
        BY <1>0, <1>5, <1>8, <1>9, <2>1, <3>1
      <3>2. CASE q # p
        <4>1. w = pane[q].view /\ w # v /\ w # NoView
          BY <1>3, <1>5, <2>1, <3>2, NobodyAssumption DEF Fresh
        <4>2. Shown(w) = Picture(q)
          BY <1>5, <1>9, <4>1 DEF Screen
        <4>. QED BY <1>5, <1>7, <4>1, <4>2
      <3>. QED BY <3>1, <3>2
    <2>. QED BY <2>1, <2>2 DEF Shown
  <1>10. ASSUME NEW q \in Panes, NEW r \in Panes, q # r, pane'[q].view # NoView
         PROVE  pane'[r].view # pane'[q].view
    <2>1. pane[q].view # v /\ pane[r].view # v
      BY <1>3 DEF Fresh
    <2>. QED BY <1>5, <1>10, <2>1 DEF Screen
  <1>11. ~Binding'
    BY <1>1, <1>2 DEF Binding, Typing, ThreadsTyped
  <1>. QED BY <1>9, <1>10, <1>11 DEF Screen

\* What is shown is what the view was to show: the receive thread waits until the
\* main thread, where views are bound, has shown what it had borrowed.
LEMMA ScreenShow ==
  ASSUME CommitsOnMain, Typing, Threading, Screen, NEW t \in Threads, Show(t) PROVE Screen'
  <1>1. /\ UNCHANGED pane
        /\ lease[t] = NoLease \/ t = Main \/ at[Main] = "idle"
        /\ layer' = [v \in Views |-> IF v = lease[t].view THEN lease[t].surface ELSE layer[v]]
        /\ lease' = [lease EXCEPT ![t] = NoLease]
        /\ at' = [at EXCEPT ![t] = "idle"]
        /\ job' = [c \in Callers |-> IF c = t THEN NoJob ELSE job[c]]
    BY DEF Show, channelVars
  <1>2. /\ Receiver \in Threads /\ Committer \in Threads /\ Receiver # Committer /\ Committer \in Callers
    BY ThreadsApart
  <1>3. lease'[t] = NoLease /\ \A u \in Threads : u # t => lease'[u] = lease[u]
    BY <1>1 DEF Typing, ThreadsTyped
  <1>4. ASSUME NEW v \in Views PROVE Shown(v)' = Shown(v)
    <2>1. lease'[t].view # v
      BY <1>3, NothingLent, NobodyAssumption DEF NoLease
    <2>2. CASE t = Receiver
      <3>1. lease'[Committer] = lease[Committer] /\ lease'[Receiver].view # v
        BY <1>2, <1>3, <2>1, <2>2
      <3>2. lease[Receiver] = NoLease \/ lease[Committer] = NoLease
        <4>1. lease[Receiver] = NoLease \/ at[Committer] = "idle"
          BY <1>1, <1>2, <2>2 DEF CommitsOnMain
        <4>. QED BY <1>2, <4>1 DEF Threading
      <3>3. layer'[v] = IF v = lease[Receiver].view THEN lease[Receiver].surface ELSE layer[v]
        BY <1>1, <2>2
      <3>4. lease[Receiver] = NoLease => lease[Receiver].view # v
        BY NothingLent
      <3>5. lease[Committer] = NoLease => lease[Committer].view # v
        BY NothingLent
      <3>. QED BY <3>1, <3>2, <3>3, <3>4, <3>5 DEF Shown
    <2>3. CASE t = Committer
      <3>1. lease'[Receiver] = lease[Receiver] /\ lease'[Committer].view # v
        BY <1>2, <1>3, <2>1, <2>3
      <3>2. layer'[v] = IF v = lease[Committer].view THEN lease[Committer].surface ELSE layer[v]
        BY <1>1, <2>3
      <3>. QED BY <3>1, <3>2 DEF Shown
    <2>4. CASE t \notin {Receiver, Committer}
      <3>1. lease[t] = NoLease
        BY <2>4 DEF Threading
      <3>2. lease[t].view # v
        BY <3>1, NothingLent
      <3>3. /\ lease'[Receiver] = lease[Receiver] /\ lease'[Committer] = lease[Committer]
            /\ layer'[v] = layer[v]
        BY <1>1, <1>2, <1>3, <2>4, <3>2
      <3>. QED BY <3>3 DEF Shown
    <2>. QED BY <2>2, <2>3, <2>4
  <1>5. ASSUME NEW p \in Panes, Picture(p)' \in Surfaces, pane'[p].view # NoView
        PROVE  Shown(pane[p].view)' = Picture(p)'
    <2>1. Picture(p)' = Picture(p)
      BY <1>1 DEF Picture
    <2>2. PICK v \in Views : v = pane[p].view /\ v = pane'[p].view
      BY <1>1, <1>5 DEF Typing, ChannelTyped, PaneRings
    <2>3. Shown(v)' = Picture(p)'
      BY <1>4, <1>5, <2>1, <2>2, NobodyAssumption DEF Screen
    <2>. QED BY <2>2, <2>3 DEF Shown
  <1>6. \A p, q \in Panes : p # q /\ pane'[p].view # NoView => pane'[q].view # pane'[p].view
    BY <1>1 DEF Screen
  <1>7. Binding' => Binding /\ job'[Committer].view = job[Committer].view
    BY <1>1, <1>2 DEF Binding, Typing, ThreadsTyped
  <1>8. ASSUME NEW v \in Views, Fresh(v) PROVE Fresh(v)'
    BY <1>1, <1>3, <1>8, NobodyAssumption DEF Fresh, NoLease
  <1>9. Binding' => job'[Committer].view \in Views /\ Fresh(job[Committer].view)'
    <2>1. ASSUME Binding' PROVE \E v \in Views : v = job[Committer].view /\ v = job'[Committer].view /\ Fresh(v)
      BY <1>7, <2>1 DEF Screen
    <2>2. ASSUME NEW v \in Views, v = job[Committer].view, v = job'[Committer].view, Fresh(v)
          PROVE  job'[Committer].view \in Views /\ Fresh(job[Committer].view)'
      BY <1>8, <2>2 DEF Fresh
    <2>. QED BY <2>1, <2>2
  <1>. QED BY <1>5, <1>6, <1>9 DEF Screen

LEMMA NextScreen ==
  ASSUME CommitsOnMain PROVE Keeping /\ Keeping' /\ Screen /\ [Next]_vars => Screen'
  <1> SUFFICES ASSUME Keeping, Keeping', Screen, [Next]_vars PROVE Screen'
    OBVIOUS
  <1>1. Typing /\ Typing' /\ Threading
    BY DEF Keeping
  <1>2. /\ Receiver \in Threads /\ Committer \in Threads /\ Receiver # Committer /\ Committer \in Callers
        /\ Receiver \notin Callers
    BY ThreadsApart
  <1>3. pane \in [Panes -> PaneRings]
    BY <1>1 DEF Typing, ChannelTyped
  <1>4. ASSUME UNCHANGED <<layer, lease, pane>>,
               Binding' => \/ job'[Committer].view = job[Committer].view /\ Binding
                           \/ job'[Committer].view \in Views /\ Fresh(job'[Committer].view)
        PROVE  Screen'
    <2>1. \A p \in Panes : /\ pane'[p].view \in {NoView, pane[p].view}
                           /\ Picture(p)' = Picture(p) \/ pane'[p].displayed = None
      BY <1>4 DEF Picture
    <2>. QED BY <1>1, <1>4, <2>1, ScreenKept
  <1>5. CASE UNCHANGED vars
    BY <1>4, <1>5 DEF vars, Binding
  <1>6. ASSUME NEW s \in Sidecars, Sidecar(s) PROVE Screen'
    <2>1. UNCHANGED <<layer, lease, pane, at, job>>
      BY <1>6 DEF Sidecar, SendHello, TakeReleased, SendRing, SendGap, SendEnded, SendFrame, Send,
                  channelVars, threadVars
    <2>. QED BY <1>4, <2>1 DEF Binding
  <1>7. ASSUME NEW t \in Threads, Lock(t) PROVE Screen'
    <2>1. UNCHANGED <<layer, lease, pane, job>> /\ at' = [at EXCEPT ![t] = "held"] /\ at[t] = "lock"
      BY <1>7 DEF Lock, channelVars
    <2>2. Binding' => Binding
      BY <1>1, <1>2, <2>1 DEF Binding, Typing, ThreadsTyped
    <2>. QED BY <1>4, <2>1, <2>2
  <1>8. ASSUME Receive \/ SendReleased \/ Sent PROVE Screen'
    <2>1. /\ UNCHANGED <<layer, lease, pane, job>>
          /\ at' = at \/ at' = [at EXCEPT ![Receiver] = "lock"] \/ at' = [at EXCEPT ![Receiver] = "show"]
      BY <1>8 DEF Receive, SendReleased, Sent, channelVars
    <2>2. Binding' => Binding
      BY <1>1, <1>2, <2>1 DEF Binding, Typing, ThreadsTyped
    <2>. QED BY <1>4, <2>1, <2>2
  <1>9. ASSUME NEW t \in Callers, BeginCall(t) PROVE Screen'
    <2>1. /\ at[t] = "idle" /\ at'[t] = "lock" /\ \A u \in Threads : u # t => at'[u] = at[u]
          /\ \A c \in Callers : c # t => job'[c] = job[c]
          /\ job'[t].op = "bindView" => /\ job'[t].view \in Views
                                        /\ \A q \in Panes : pane[q].view # job'[t].view
                                        /\ \A u \in Threads : lease[u].view # job'[t].view
          /\ UNCHANGED <<layer, lease, pane>>
      BY <1>1, <1>9, BeginTyping
    <2>2. CASE t = Committer
      BY <1>4, <2>1, <2>2 DEF Binding, Fresh
    <2>3. CASE t # Committer
      BY <1>2, <1>4, <2>1, <2>3 DEF Binding
    <2>. QED BY <2>2, <2>3
  <1>10. ASSUME NEW t \in Callers, Call(t), ~BindView(t) PROVE Screen'
    <2> DEFINE p == job[t].pane
    <2>1. UNCHANGED <<layer, lease>> /\ (at' = [at EXCEPT ![t] = "idle"] \/ at' = [at EXCEPT ![t] = "read"])
      BY <1>10 DEF Call, Bind, UnbindView, Snapshot, ReadPixels, Close, Return, Unlock, Beside
    <2>2. job' = [job EXCEPT ![t] = NoJob] \/ \E x : job' = [job EXCEPT ![t].surface = x]
      BY <1>10 DEF Call, Bind, UnbindView, Snapshot, ReadPixels, Close, Return
    <2>3. Binding' => Binding /\ job'[Committer].view = job[Committer].view
      <3>1. t = Committer => ~Binding'
        BY <1>1, <1>2, <2>1 DEF Binding, Typing, ThreadsTyped
      <3>2. t # Committer => at'[Committer] = at[Committer] /\ job'[Committer] = job[Committer]
        BY <1>1, <1>2, <2>1, <2>2 DEF Typing, ThreadsTyped
      <3>. QED BY <3>1, <3>2 DEF Binding
    <2>4. \/ pane' = pane
          \/ pane' = [pane EXCEPT ![p].sidecar = job[t].sidecar]
          \/ pane' = [pane EXCEPT ![p].view = NoView]
          \/ pane' = [q \in Panes |-> [pane[q] EXCEPT !.ring = 0, !.displayed = None]]
      BY <1>10 DEF Call, Bind, UnbindView, Snapshot, ReadPixels, Close, channelVars
    <2>5. \A q \in Panes : /\ pane'[q].view \in {NoView, pane[q].view}
                           /\ \/ pane'[q].ring = pane[q].ring /\ pane'[q].displayed = pane[q].displayed
                              \/ pane'[q].displayed = None
      <3>1. CASE pane' = [q \in Panes |-> [pane[q] EXCEPT !.ring = 0, !.displayed = None]]
        <4>1. \A q \in Panes : pane'[q] = [pane[q] EXCEPT !.ring = 0, !.displayed = None]
          BY <3>1
        <4>. QED BY <1>3, <4>1 DEF PaneRings
      <3>2. CASE pane' = pane
        BY <3>2
      <3>3. CASE pane' = [pane EXCEPT ![p].sidecar = job[t].sidecar]
        BY <1>3, <3>3 DEF PaneRings
      <3>4. CASE pane' = [pane EXCEPT ![p].view = NoView]
        BY <1>3, <3>4 DEF PaneRings
      <3>. QED BY <2>4, <3>1, <3>2, <3>3, <3>4
    <2>6. \A q \in Panes : /\ pane'[q].view \in {NoView, pane[q].view}
                           /\ Picture(q)' = Picture(q) \/ pane'[q].displayed = None
      BY <2>5 DEF Picture
    <2>. QED BY <1>1, <2>1, <2>3, <2>6, ScreenKept
  <1>11. ASSUME Consume, ~ConsumeFrame PROVE Screen'
    <2> DEFINE p == taken.pane
    <2>1. /\ UNCHANGED <<layer, lease, job>>
          /\ at' = [at EXCEPT ![Receiver] = "idle"] \/ at' = [at EXCEPT ![Receiver] = "sends"]
      BY <1>11 DEF Consume, ConsumeHello, ConsumeGap, ConsumeRing, ConsumeBrokenRing, RefuseRing,
                   RefuseFrame, ConsumeEnded, Settle, Unlock, Beside
    <2>2. Binding' => Binding /\ job'[Committer].view = job[Committer].view
      BY <1>1, <1>2, <2>1 DEF Binding, Typing, ThreadsTyped
    <2>3. pane' = pane \/ \E n : pane' = [pane EXCEPT ![p].ring = n, ![p].displayed = None]
      BY <1>11 DEF Consume, ConsumeHello, ConsumeGap, ConsumeRing, ConsumeBrokenRing, RefuseRing,
                   RefuseFrame, ConsumeEnded, ReleaseRing, channelVars
    <2>4. \A q \in Panes : /\ pane'[q].view = pane[q].view
                           /\ pane'[q] = pane[q] \/ pane'[q].displayed = None
      <3>1. ASSUME NEW n, pane' = [pane EXCEPT ![p].ring = n, ![p].displayed = None]
            PROVE  \A q \in Panes : /\ pane'[q].view = pane[q].view
                                    /\ pane'[q] = pane[q] \/ pane'[q].displayed = None
        <4>1. \A q \in Panes : q # p => pane'[q] = pane[q]
          BY <1>3, <3>1
        <4>2. p \in Panes => pane'[p] = [pane[p] EXCEPT !.ring = n, !.displayed = None]
          BY <1>3, <3>1
        <4>. QED BY <1>3, <4>1, <4>2 DEF PaneRings
      <3>. QED BY <2>3, <3>1
    <2>5. \A q \in Panes : /\ pane'[q].view \in {NoView, pane[q].view}
                           /\ Picture(q)' = Picture(q) \/ pane'[q].displayed = None
      BY <2>4 DEF Picture
    <2>. QED BY <1>1, <2>1, <2>2, <2>5, ScreenKept
  <1>12. CASE ReceiverStep
    BY <1>1, <1>2, <1>7, <1>8, <1>11, <1>12, ScreenFrame, ScreenShow DEF ReceiverStep
  <1>13. CASE \E t \in Callers : BeginCall(t) \/ CallerStep(t)
    BY <1>1, <1>7, <1>9, <1>10, <1>13, ScreenBindView, ScreenShow, ThreadsApart DEF CallerStep
  <1>. QED BY <1>5, <1>6, <1>12, <1>13, NextSplits DEF Application

\* With commits on the main thread, a bound view shows the surface its pane's newest
\* frame named whenever no message and no call is under way: neither a frame that
\* comes while a view is bound, nor a view bound while a frame is shown, is overtaken
\* by an older surface (channel.go:6-7, 138-150, 357, 395-398).
THEOREM NewestStaysShown == CommitsOnMain => (Spec => []NewestIsShown)
  <1> SUFFICES ASSUME CommitsOnMain PROVE Spec => []NewestIsShown
    OBVIOUS
  <1>1. Init => Screen
    BY ThreadsApart DEF Init, Screen, Binding, Picture, Surfaces, Rings
  <1>2. Keeping /\ Keeping' /\ Screen /\ [Next]_vars => Screen'
    BY NextScreen
  <1>3. Keeping /\ Screen => NewestIsShown
    <2> SUFFICES ASSUME Keeping, Screen, Idle, NEW p \in Panes, Picture(p) \in Surfaces,
                        pane[p].view # NoView
                 PROVE  layer[pane[p].view] = Picture(p)
      BY DEF NewestIsShown, Picture
    <2>1. lease[Receiver] = NoLease /\ lease[Committer] = NoLease
      BY ThreadsApart DEF Keeping, Threading, Idle
    <2>2. Shown(pane[p].view) = layer[pane[p].view]
      BY <2>1 DEF Shown, NoLease
    <2>. QED BY <2>2 DEF Screen
  <1>. QED BY <1>1, <1>2, <1>3, SpecKeeps, PTL DEF Spec

=============================================================================
