------------------------------- MODULE Channel -------------------------------
(***************************************************************************)
(* The surface channel of channel.go: one receive thread takes what render *)
(* sidecars send (a ring of surfaces for a pane, then frames, each naming  *)
(* a surface of the ring), shows the newest surface in the pane's view and *)
(* gives the one shown before back.  Other threads bind sidecars and views *)
(* and close the channel meanwhile.                                        *)
(*                                                                         *)
(* The steps are those at which a thread can be overtaken: before it takes *)
(* Channel.mu, while it holds it, before each message it sends and before  *)
(* it shows a surface, which only the main thread can do.                  *)
(*                                                                         *)
(* A surface is a pair <<ring, index>>.  The wire names an index without   *)
(* its ring; the ring here says which surface a message is about.          *)
(***************************************************************************)
EXTENDS Integers, Sequences, FiniteSets

CONSTANTS
  Panes,        \* numbers other than 0
  Sidecars,     \* render sidecars
  Hosts,        \* <<pane, sidecar>>: which sidecar may come to draw a pane
  Slots,        \* the indices of a ring
  Views,        \* native host views
  Callers,      \* threads of the application other than the receive thread
  Main,         \* the one of them that is the main thread
  Committer,    \* the one of them that binds and unbinds views
  Receiver,     \* the receive thread
  Free,         \* who holds a lock that nobody holds
  Nobody,       \* the sidecar of a pane that Bind never named
  NoView,       \* the view of a pane that has none
  LookupFails,  \* may a surface's right fail to resolve?
  QueueSize,    \* bound: messages a mach port queues
  MaxLives,     \* bound: processes of one sidecar, one after the other
  MaxRings,     \* bound: rings
  MaxMessages,  \* bound: messages sidecars send
  MaxCalls      \* bound: calls of the application

ASSUME PanesAssumption == Panes \subseteq Nat \ {0}
ASSUME HostsAssumption == Hosts \subseteq Panes \X Sidecars
ASSUME SlotsAssumption == IsFiniteSet(Slots) /\ Slots = 0 .. Cardinality(Slots) - 1
ASSUME ThreadsAssumption == /\ {Main, Committer} \subseteq Callers
                            /\ Receiver \notin Callers
                            /\ Free \notin Callers \cup {Receiver}
ASSUME NobodyAssumption == Nobody \notin Sidecars /\ NoView \notin Views
ASSUME LookupAssumption == LookupFails \in BOOLEAN
ASSUME BoundsAssumption == /\ {QueueSize, MaxLives, MaxRings, MaxMessages, MaxCalls} \subseteq Nat

VARIABLES
  replies,   \* Channel.replies: the process each sidecar's reply right reaches, 0 if none
  pane,      \* Channel.panes: the paneRing of each pane
  open,      \* is the channel registered, and its receive right alive
  mu,        \* who holds Channel.mu
  at,        \* where each thread stands
  job,       \* the call each caller is in, with its arguments
  taken,     \* the message the receive thread is at work on
  sends,     \* what the receive thread has yet to send
  lease,     \* what each thread has yet to show
  refs,      \* how many references the application holds to each surface
  layer,     \* the surface each view's layer shows
  inbox,     \* messages on the channel's port
  returned,  \* Released messages on each sidecar's reply port
  life,      \* the current process of each sidecar, 0 before it connects
  rings,     \* every ring sent: its pane and its sidecar
  current,   \* the ring each sidecar draws a pane in, 0 if none
  away,      \* surfaces signaled and not given back, as the sidecars know
  refused,   \* history: rings the channel did not accept, or lost to one it did not
  spent      \* how much of each bound is used

channelVars == <<replies, pane, open>>
threadVars == <<mu, at, job, taken, sends, lease>>
sidecarVars == <<inbox, returned, life, rings, current, away>>
vars == <<replies, pane, open, mu, at, job, taken, sends, lease, refs, layer,
          inbox, returned, life, rings, current, away, refused, spent>>

-----------------------------------------------------------------------------
(* Surfaces, messages and frames *)

Threads == Callers \cup {Receiver}
Rings == 1 .. MaxRings
Lives == 1 .. MaxLives
Surfaces == Rings \X Slots
NoSurface == <<0, 0>>
SurfacesOf(n) == {n} \X Slots

\* `ring' stands for the surfaces of a paneRing, all of one ring or all nil,
\* and for `held', which says which.
None == -1
PaneRings == [sidecar : Sidecars \cup {Nobody}, view : Views \cup {NoView},
              ring : 0 .. MaxRings, displayed : Slots \cup {None}]

Messages ==
  [kind : {"hello"}, sidecar : Sidecars, life : Lives]
    \cup [kind : {"ring", "gap", "ended"}, pane : Panes, ring : Rings]
    \cup [kind : {"frame"}, pane : Panes, ring : Rings, slot : Slots]

Sends == [to : Sidecars, life : Lives, surface : Surfaces]
Leases == [view : Views \cup {NoView}, surface : Surfaces \cup {NoSurface}]
NoLease == [view |-> NoView, surface |-> NoSurface]

\* A call with its arguments, and the surface a snapshot reads.
Jobs == [op : {"none", "bind", "bindView", "unbindView", "snapshot", "close"},
         pane : Panes \cup {0}, sidecar : Sidecars \cup {Nobody}, view : Views \cup {NoView},
         surface : Surfaces \cup {NoSurface}]
NoJob == [op |-> "none", pane |-> 0, sidecar |-> Nobody, view |-> NoView, surface |-> NoSurface]

TypeOK ==
  /\ replies \in [Sidecars -> 0 .. MaxLives]
  /\ pane \in [Panes -> PaneRings]
  /\ open \in [registered : BOOLEAN, port : BOOLEAN]
  /\ mu \in Threads \cup {Free}
  /\ at \in [Threads -> {"idle", "lock", "held", "sends", "show", "read"}]
  /\ job \in [Callers -> Jobs]
  /\ taken \in Messages \cup {<<>>}
  /\ sends \in Seq(Sends)
  /\ lease \in [Threads -> Leases]
  /\ refs \in [Surfaces -> Nat]
  /\ layer \in [Views -> Surfaces \cup {NoSurface}]
  /\ inbox \in Seq(Messages)
  /\ returned \in [Sidecars -> Seq(Surfaces)]
  /\ life \in [Sidecars -> 0 .. MaxLives]
  /\ rings \in Seq([pane : Panes, sidecar : Sidecars])
  /\ current \in [Sidecars -> [Panes -> 0 .. MaxRings]]
  /\ away \subseteq Surfaces
  /\ refused \subseteq Rings
  /\ spent \in [messages : 0 .. MaxMessages, calls : 0 .. MaxCalls]

Init ==
  /\ replies = [s \in Sidecars |-> 0]
  /\ pane = [p \in Panes |-> [sidecar |-> Nobody, view |-> NoView, ring |-> 0, displayed |-> None]]
  /\ open = [registered |-> TRUE, port |-> TRUE]
  /\ mu = Free
  /\ at = [t \in Threads |-> "idle"]
  /\ job = [t \in Callers |-> NoJob]
  /\ taken = <<>>
  /\ sends = <<>>
  /\ lease = [t \in Threads |-> NoLease]
  /\ refs = [x \in Surfaces |-> 0]
  /\ layer = [v \in Views |-> NoSurface]
  /\ inbox = <<>>
  /\ returned = [s \in Sidecars |-> <<>>]
  /\ life = [s \in Sidecars |-> 0]
  /\ rings = <<>>
  /\ current = [s \in Sidecars |-> [p \in Panes |-> 0]]
  /\ away = {}
  /\ refused = {}
  /\ spent = [messages |-> 0, calls |-> 0]

-----------------------------------------------------------------------------
(* Render sidecars: a sidecar draws only in surfaces it has not signaled,  *)
(* or has had back since.                                                  *)

Owned(s) == UNION {SurfacesOf(n) : n \in {m \in DOMAIN rings : rings[m].sidecar = s}}

Send(message) ==
  /\ open.port
  /\ Len(inbox) < QueueSize
  /\ spent.messages < MaxMessages
  /\ inbox' = Append(inbox, message)
  /\ spent' = [spent EXCEPT !.messages = @ + 1]
  /\ UNCHANGED <<channelVars, threadVars, refs, layer, returned, refused>>

\* A process of the sidecar comes up, in the place of one that died.
SendHello(s) ==
  /\ life[s] < MaxLives
  /\ life' = [life EXCEPT ![s] = @ + 1]
  /\ returned' = [returned EXCEPT ![s] = <<>>]
  /\ current' = [current EXCEPT ![s] = [p \in Panes |-> 0]]
  /\ away' = away \ Owned(s)
  /\ open.port /\ Len(inbox) < QueueSize /\ spent.messages < MaxMessages
  /\ inbox' = Append(inbox, [kind |-> "hello", sidecar |-> s, life |-> life[s] + 1])
  /\ spent' = [spent EXCEPT !.messages = @ + 1]
  /\ UNCHANGED <<channelVars, threadVars, refs, layer, rings, refused>>

SendRing(s, p) ==
  LET n == Len(rings) + 1 IN
  /\ life[s] # 0 /\ <<p, s>> \in Hosts /\ n <= MaxRings
  /\ Send([kind |-> "ring", pane |-> p, ring |-> n])
  /\ rings' = Append(rings, [pane |-> p, sidecar |-> s])
  /\ current' = [current EXCEPT ![s][p] = n]
  /\ UNCHANGED <<life, away>>

SendFrame(s, p, i) ==
  LET n == current[s][p] IN
  /\ n # 0 /\ <<n, i>> \notin away
  /\ Send([kind |-> "frame", pane |-> p, ring |-> n, slot |-> i])
  /\ away' = away \cup {<<n, i>>}
  /\ UNCHANGED <<life, rings, current>>

SendGap(s, p) ==
  /\ current[s][p] # 0
  /\ Send([kind |-> "gap", pane |-> p, ring |-> current[s][p]])
  /\ UNCHANGED <<life, rings, current, away>>

SendEnded(s, p) ==
  /\ current[s][p] # 0
  /\ Send([kind |-> "ended", pane |-> p, ring |-> current[s][p]])
  /\ current' = [current EXCEPT ![s][p] = 0]
  /\ away' = away \ SurfacesOf(current[s][p])
  /\ UNCHANGED <<life, rings>>

TakeReleased(s) ==
  /\ returned[s] # <<>>
  /\ returned' = [returned EXCEPT ![s] = Tail(@)]
  /\ away' = away \ ({Head(returned[s])} \cap Owned(s))
  /\ UNCHANGED <<channelVars, threadVars, refs, layer, inbox, life, rings, current, refused, spent>>

Sidecar(s) == \/ SendHello(s) \/ TakeReleased(s)
              \/ \E p \in Panes : \/ SendRing(s, p) \/ SendGap(s, p) \/ SendEnded(s, p)
                                  \/ \E i \in Slots : SendFrame(s, p, i)

-----------------------------------------------------------------------------
(* Locks, references and leases *)

Lock(t) ==
  /\ at[t] = "lock" /\ mu = Free
  /\ mu' = t
  /\ at' = [at EXCEPT ![t] = "held"]
  /\ UNCHANGED <<channelVars, job, taken, sends, lease, refs, layer, sidecarVars, refused, spent>>

Unlock(t, next) ==
  /\ at[t] = "held" /\ mu = t
  /\ mu' = Free
  /\ at' = [at EXCEPT ![t] = next]

\* References dropped, and references taken.
Count(dropped, retained) ==
  refs' = [x \in Surfaces |-> refs[x] - (IF x \in dropped THEN 1 ELSE 0)
                                      + (IF x \in retained THEN 1 ELSE 0)]

\* Wrong: the lease borrows the surface without retaining it.
HoldDisplayBorrowed(t, view, surface) ==
  /\ lease' = [lease EXCEPT ![t] = IF view = NoView THEN NoLease
                                   ELSE [view |-> view, surface |-> surface]]
  /\ UNCHANGED refs

\* What nativeDisplayLease retains until it is shown.
HoldDisplay(t, view, surface) ==
  /\ lease' = [lease EXCEPT ![t] = IF view = NoView THEN NoLease
                                   ELSE [view |-> view, surface |-> surface]]
  /\ Count({}, IF view = NoView THEN {} ELSE {surface})

\* Wrong: the lease is shown and never given back.
ShowKeepingLease(t) ==
  /\ at[t] = "show"
  /\ lease[t] = NoLease \/ t = Main \/ at[Main] = "idle"
  /\ layer' = [v \in Views |-> IF v = lease[t].view THEN lease[t].surface ELSE layer[v]]
  /\ at' = [at EXCEPT ![t] = "idle"]
  /\ lease' = [lease EXCEPT ![t] = NoLease]
  /\ job' = [c \in Callers |-> IF c = t THEN NoJob ELSE job[c]]
  /\ taken' = IF t = Receiver THEN <<>> ELSE taken
  /\ UNCHANGED <<channelVars, mu, sends, refs, sidecarVars, refused, spent>>

\* The main thread shows at once; any other waits for it to be idle.
Show(t) ==
  /\ at[t] = "show"
  /\ lease[t] = NoLease \/ t = Main \/ at[Main] = "idle"
  /\ layer' = [v \in Views |-> IF v = lease[t].view THEN lease[t].surface ELSE layer[v]]
  /\ Count({lease[t].surface}, {})
  /\ at' = [at EXCEPT ![t] = "idle"]
  /\ lease' = [lease EXCEPT ![t] = NoLease]
  /\ job' = [c \in Callers |-> IF c = t THEN NoJob ELSE job[c]]
  /\ taken' = IF t = Receiver THEN <<>> ELSE taken
  /\ UNCHANGED <<channelVars, mu, sends, sidecarVars, refused, spent>>

-----------------------------------------------------------------------------
(* The receive thread *)

\* goSoksakChannelMessage looks the channel up; a closed one drops the message.
Receive ==
  /\ at[Receiver] = "idle" /\ open.port /\ inbox # <<>>
  /\ inbox' = Tail(inbox)
  /\ \/ /\ open.registered
        /\ taken' = Head(inbox)
        /\ at' = [at EXCEPT ![Receiver] = "lock"]
     \/ ~open.registered /\ UNCHANGED <<taken, at>>
  /\ UNCHANGED <<channelVars, mu, job, sends, lease, refs, layer, returned, life, rings, current,
                 away, refused, spent>>

Consuming(kind) == at[Receiver] = "held" /\ taken.kind = kind

\* Everything is refused, reported or recorded without a surface to show.
Settle ==
  /\ Unlock(Receiver, "idle")
  /\ taken' = <<>>
  /\ UNCHANGED <<job, sends, lease>>

Beside == UNCHANGED <<layer, sidecarVars, spent>>

ConsumeHello ==
  /\ Consuming("hello")
  /\ replies' = [replies EXCEPT ![taken.sidecar] = taken.life]
  /\ Settle
  /\ Beside /\ UNCHANGED <<pane, open, refs, refused>>

ConsumeGap ==
  /\ Consuming("gap")
  /\ Settle
  /\ Beside /\ UNCHANGED <<channelVars, refs, refused>>

Released(p, surface) ==
  [to |-> pane[p].sidecar, life |-> replies[pane[p].sidecar], surface |-> surface]
Connected(p) == pane[p].sidecar # Nobody /\ replies[pane[p].sidecar] # 0

\* Wrong: the surfaces of the ring that goes are not given back.
OldRingKept(p) == <<>>

\* A new ring gives back every surface of the old one.
OldRing(p) ==
  IF pane[p].ring # 0 /\ Connected(p)
  THEN [k \in 1 .. Cardinality(Slots) |-> Released(p, <<pane[p].ring, k - 1>>)]
  ELSE <<>>

\* Wrong: the references are dropped and the ring still counts as held.
ReleaseRingAgain(p, ring) ==
  /\ pane' = [pane EXCEPT ![p].ring = IF ring = 0 THEN @ ELSE ring, ![p].displayed = None]
  /\ Count(SurfacesOf(pane[p].ring), SurfacesOf(ring))

\* releaseRingLocked, and the references of the ring in its place, 0 for none.
ReleaseRing(p, ring) ==
  /\ pane' = [pane EXCEPT ![p].ring = ring, ![p].displayed = None]
  /\ Count(SurfacesOf(pane[p].ring), SurfacesOf(ring))

ConsumeRing ==
  LET p == taken.pane IN
  /\ Consuming("ring") /\ pane[p].sidecar # Nobody
  /\ sends' = OldRing(p)
  /\ ReleaseRing(p, taken.ring)
  /\ Unlock(Receiver, "sends")
  /\ UNCHANGED <<job, taken, lease, replies, open, refused>>
  /\ Beside

\* Wrong: the early return leaves Channel.mu locked.
ConsumeBrokenRingLocked ==
  LET p == taken.pane IN
  /\ LookupFails
  /\ Consuming("ring") /\ pane[p].sidecar # Nobody
  /\ ReleaseRing(p, 0)
  /\ at' = [at EXCEPT ![Receiver] = "idle"] /\ taken' = <<>>
  /\ refused' = refused \cup ({taken.ring, pane[p].ring} \ {0})
  /\ Beside /\ UNCHANGED <<mu, job, sends, lease, replies, open>>

\* A surface does not resolve: those looked up before it are released, and
\* what was to be given back of the old ring is not.
ConsumeBrokenRing ==
  LET p == taken.pane IN
  /\ LookupFails
  /\ Consuming("ring") /\ pane[p].sidecar # Nobody
  /\ ReleaseRing(p, 0)
  /\ Settle
  /\ refused' = refused \cup ({taken.ring, pane[p].ring} \ {0})
  /\ Beside /\ UNCHANGED <<replies, open>>

RefuseRing ==
  /\ Consuming("ring") /\ pane[taken.pane].sidecar = Nobody
  /\ Settle
  /\ refused' = refused \cup {taken.ring}
  /\ Beside /\ UNCHANGED <<channelVars, refs>>

\* Wrong: the surface just signaled is given back.
PreviousIsNewest(p, i) ==
  IF pane[p].displayed # None /\ pane[p].displayed # i /\ Connected(p)
  THEN <<Released(p, <<pane[p].ring, i>>)>> ELSE <<>>

\* What a new frame gives back: the surface displayed before it.
Previous(p, i) ==
  IF pane[p].displayed # None /\ pane[p].displayed # i /\ Connected(p)
  THEN <<Released(p, <<pane[p].ring, pane[p].displayed>>)>> ELSE <<>>

ConsumeFrame ==
  LET p == taken.pane IN
  /\ Consuming("frame") /\ pane[p].ring # 0
  /\ pane' = [pane EXCEPT ![p].displayed = taken.slot]
  /\ HoldDisplay(Receiver, pane[p].view, <<pane[p].ring, taken.slot>>)
  /\ sends' = Previous(p, taken.slot)
  /\ Unlock(Receiver, "sends")
  /\ UNCHANGED <<job, taken, replies, open, refused>>
  /\ Beside

\* Wrong: the early return leaves Channel.mu locked.
RefuseFrameLocked ==
  /\ Consuming("frame") /\ pane[taken.pane].ring = 0
  /\ at' = [at EXCEPT ![Receiver] = "idle"] /\ taken' = <<>>
  /\ Beside /\ UNCHANGED <<mu, job, sends, lease, channelVars, refs, refused>>

\* A frame for no ring; the contract keeps the index within the ring.
RefuseFrame ==
  /\ Consuming("frame") /\ pane[taken.pane].ring = 0
  /\ Settle
  /\ Beside /\ UNCHANGED <<channelVars, refs, refused>>

ConsumeEnded ==
  /\ Consuming("ended")
  /\ ReleaseRing(taken.pane, 0)
  /\ Settle
  /\ Beside /\ UNCHANGED <<replies, open, refused>>

\* A message for a process that is gone, or over a right Close has given up,
\* is lost; one for a full port waits.
Reaches(out) == out.life = life[out.to] /\ out.life = replies[out.to]

SendReleased ==
  LET out == Head(sends) IN
  /\ at[Receiver] = "sends" /\ sends # <<>>
  /\ sends' = Tail(sends)
  /\ \/ /\ Reaches(out) /\ Len(returned[out.to]) < QueueSize
        /\ returned' = [returned EXCEPT ![out.to] = Append(@, out.surface)]
     \/ ~Reaches(out) /\ UNCHANGED returned
  /\ UNCHANGED <<channelVars, mu, at, job, taken, lease, refs, layer, inbox, life, rings, current,
                 away, refused, spent>>

Sent ==
  /\ at[Receiver] = "sends" /\ sends = <<>>
  /\ at' = [at EXCEPT ![Receiver] = "show"]
  /\ UNCHANGED <<channelVars, mu, job, taken, sends, lease, refs, layer, sidecarVars, refused, spent>>

Consume == \/ ConsumeHello \/ ConsumeGap \/ ConsumeRing \/ ConsumeBrokenRing \/ RefuseRing
           \/ ConsumeFrame \/ RefuseFrame \/ ConsumeEnded

-----------------------------------------------------------------------------
(* Calls of the application *)

\* Nobody calls a channel that is being closed.
Begin(t, op, p, s, v) ==
  /\ at[t] = "idle" /\ open.registered
  /\ spent.calls < MaxCalls
  /\ spent' = [spent EXCEPT !.calls = @ + 1]
  /\ at' = [at EXCEPT ![t] = "lock"]
  /\ job' = [job EXCEPT ![t] = [op |-> op, pane |-> p, sidecar |-> s, view |-> v,
                                   surface |-> NoSurface]]
  /\ UNCHANGED <<replies, pane, mu, taken, sends, lease, refs, layer, sidecarVars, refused>>

BeginBind(t, p, s) == <<p, s>> \in Hosts /\ Begin(t, "bind", p, s, NoView) /\ UNCHANGED open

\* A pane's view is new: no pane had it and nothing has been shown in it.
BeginBindView(t, p, v) ==
  /\ t = Committer /\ layer[v] = NoSurface
  /\ \A q \in Panes : pane[q].view # v
  /\ \A u \in Threads : lease[u].view # v
  /\ Begin(t, "bindView", p, Nobody, v) /\ UNCHANGED open

BeginUnbindView(t, p) ==
  /\ t = Committer
  /\ Begin(t, "unbindView", p, Nobody, NoView) /\ UNCHANGED open

BeginSnapshot(t, p) == Begin(t, "snapshot", p, Nobody, NoView) /\ UNCHANGED open

\* Close first takes the channel out of the registry.
BeginClose(t) ==
  /\ Begin(t, "close", 0, Nobody, NoView)
  /\ open' = [open EXCEPT !.registered = FALSE]

Return(t) ==
  /\ Unlock(t, "idle")
  /\ job' = [job EXCEPT ![t] = NoJob]
  /\ UNCHANGED <<taken, sends, lease>>

Bind(t) ==
  /\ at[t] = "held" /\ job[t].op = "bind"
  /\ pane' = [pane EXCEPT ![job[t].pane].sidecar = job[t].sidecar]
  /\ Return(t)
  /\ Beside /\ UNCHANGED <<replies, open, refs, refused>>

\* Wrong: a frame displayed before is not shown in the new view.
BindViewDark(t) ==
  /\ at[t] = "held" /\ job[t].op = "bindView"
  /\ pane' = [pane EXCEPT ![job[t].pane].view = job[t].view]
  /\ UNCHANGED <<lease, refs>>
  /\ Unlock(t, "show")
  /\ UNCHANGED <<job, taken, sends, replies, open, refused>>
  /\ Beside

BindView(t) ==
  LET p == job[t].pane IN
  /\ at[t] = "held" /\ job[t].op = "bindView"
  /\ pane' = [pane EXCEPT ![p].view = job[t].view]
  /\ IF pane[p].ring # 0 /\ pane[p].displayed # None
     THEN HoldDisplay(t, job[t].view, <<pane[p].ring, pane[p].displayed>>)
     ELSE UNCHANGED <<lease, refs>>
  /\ Unlock(t, "show")
  /\ UNCHANGED <<job, taken, sends, replies, open, refused>>
  /\ Beside

UnbindView(t) ==
  /\ at[t] = "held" /\ job[t].op = "unbindView"
  /\ pane' = [pane EXCEPT ![job[t].pane].view = NoView]
  /\ Return(t)
  /\ Beside /\ UNCHANGED <<replies, open, refs, refused>>

\* SnapshotPNG takes the pointer under the lock, without a reference of its own,
\* and reads the pixels after it.
Snapshot(t) ==
  LET p == job[t].pane IN
  /\ at[t] = "held" /\ job[t].op = "snapshot"
  /\ IF pane[p].ring # 0 /\ pane[p].displayed # None
     THEN /\ Unlock(t, "read")
          /\ job' = [job EXCEPT ![t].surface = <<pane[p].ring, pane[p].displayed>>]
          /\ UNCHANGED <<taken, sends, lease>>
     ELSE Return(t)
  /\ Beside /\ UNCHANGED <<channelVars, refs, refused>>

ReadPixels(t) ==
  /\ at[t] = "read"
  /\ at' = [at EXCEPT ![t] = "idle"]
  /\ job' = [job EXCEPT ![t] = NoJob]
  /\ UNCHANGED <<channelVars, mu, taken, sends, lease, refs, refused>> /\ Beside

\* The receive right and what is queued on it, the reply rights, the rings.
Close(t) ==
  /\ at[t] = "held" /\ job[t].op = "close"
  /\ open' = [open EXCEPT !.port = FALSE]
  /\ inbox' = <<>>
  /\ replies' = [s \in Sidecars |-> 0]
  /\ Count(UNION {SurfacesOf(pane[p].ring) : p \in Panes}, {})
  /\ pane' = [p \in Panes |-> [pane[p] EXCEPT !.ring = 0, !.displayed = None]]
  /\ Return(t)
  /\ UNCHANGED <<layer, returned, life, rings, current, away, refused, spent>>

-----------------------------------------------------------------------------
(* The specification *)

BeginCall(t) == \/ \E p \in Panes : \/ BeginUnbindView(t, p) \/ BeginSnapshot(t, p)
                                    \/ \E s \in Sidecars : BeginBind(t, p, s)
                                    \/ \E v \in Views : BeginBindView(t, p, v)
                \/ BeginClose(t)

Call(t) == \/ Bind(t) \/ BindView(t) \/ UnbindView(t) \/ Snapshot(t) \/ ReadPixels(t)
           \/ Close(t)

ReceiverStep == Receive \/ Lock(Receiver) \/ Consume \/ SendReleased \/ Sent \/ Show(Receiver)
CallerStep(t) == Lock(t) \/ Call(t) \/ Show(t)

Idle == \A t \in Threads : at[t] = "idle"
Quiet == Idle /\ inbox = <<>> /\ \A s \in Sidecars : returned[s] = <<>>

\* Nothing is left to do: the system waits for a sidecar or a caller.
Rest == Quiet /\ UNCHANGED vars

Next == \/ \E s \in Sidecars : Sidecar(s)
        \/ ReceiverStep
        \/ \E t \in Callers : BeginCall(t) \/ CallerStep(t)
        \/ Rest

Spec == Init /\ [][Next]_vars

\* Threads are scheduled and a Go mutex is handed to its waiters.  Nothing is
\* assumed of the sidecars: one may never take what is sent to it.
FairSpec == /\ Spec
            /\ WF_vars(ReceiverStep)
            /\ \A t \in Callers : WF_vars(CallerStep(t)) /\ SF_vars(Lock(t))

-----------------------------------------------------------------------------
(* Safety *)

\* Every reference the application holds is held by a pane's ring or by a
\* lease yet to be shown, and either holds one: nothing leaks and nothing
\* in use has been let go (channel.go:70-90, 140-150, 222-233, 311-357).
ReferencesBalanced ==
  \A x \in Surfaces :
    refs[x] = Cardinality({p \in Panes : pane[p].ring = x[1]})
                + Cardinality({t \in Threads : lease[t].surface = x})

\* The surface a pane displays is not on its way back to the sidecar: no
\* order of rings and frames has the sidecar draw where the application
\* looks (channel.go:6-7, 320-330, 354-365).
DisplayedIsKept ==
  \A p \in Panes : LET x == <<pane[p].ring, pane[p].displayed>> IN
    x \in Surfaces =>
      /\ \A k \in DOMAIN sends : sends[k].surface # x
      /\ \A s \in Sidecars : \A k \in DOMAIN returned[s] : returned[s][k] # x

Signaled(message, x) == message # <<>> /\ message.kind = "frame" /\ <<message.ring, message.slot>> = x

\* A surface the sidecar is waiting for is in the application's hands, or on
\* its way to them or from them, so a ring never runs dry (channel.go:320-330,
\* 354-365).  Excepted are rings refused, rings a refused one was to replace,
\* whose surface is not given back (channel.go:333-337), and a closed channel.
EveryIndexGoesBack ==
  \A x \in away :
    \/ x[1] \in refused \/ ~open.registered
    \/ \E k \in DOMAIN inbox : Signaled(inbox[k], x)
    \/ Signaled(taken, x)
    \/ \E k \in DOMAIN sends : sends[k].surface = x
    \/ \E k \in DOMAIN returned[rings[x[1]].sidecar] : returned[rings[x[1]].sidecar][k] = x
    \/ \E p \in Panes : x = <<pane[p].ring, pane[p].displayed>>

\* Between messages and calls, a bound view shows the surface its pane's newest
\* frame named (channel.go:6-7, 138-150, 357, 395-398).
NewestIsShown ==
  Idle => \A p \in Panes : LET x == <<pane[p].ring, pane[p].displayed>> IN
    x \in Surfaces /\ pane[p].view # NoView => layer[pane[p].view] = x

\* A closed channel at rest holds no reference to a surface (channel.go:196-211).
ClosedHoldsNothing == ~open.port /\ Idle => \A x \in Surfaces : refs[x] = 0

\* The surface a snapshot reads is still held: its pixels are those displayed
\* (channel.go:173-191).
SnapshotReadsHeld == \A t \in Callers : at[t] = "read" => refs[job[t].surface] > 0

-----------------------------------------------------------------------------
(* What a step may never do *)

OnScreen(x) == \E p \in Panes : pane[p].view # NoView /\ layer[pane[p].view] = x

\* No surface is given back while a bound view shows it (channel.go:6-7).
NeverReleasesOnScreen ==
  [][\A s \in Sidecars : Len(returned'[s]) > Len(returned[s]) =>
       ~OnScreen(returned'[s][Len(returned'[s])])]_vars

-----------------------------------------------------------------------------
(* Liveness *)

\* A call returns though no sidecar ever takes its messages: neither the lock
\* nor the main thread waits on the receive thread (channel.go:291-293).
CallsReturn == \A t \in Callers : at[t] # "idle" ~> at[t] = "idle"

\* The receive thread comes back for the next message, if sidecars take
\* theirs (channel.go:291-401).
ReceiverReturns ==
  (\A s \in Sidecars : []<>(Len(returned[s]) < QueueSize))
    => (at[Receiver] # "idle" ~> at[Receiver] = "idle")
=============================================================================
