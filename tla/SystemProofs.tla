---------------------------- MODULE SystemProofs ----------------------------
(***************************************************************************)
(* Theorems about System: it implements Backend and Channel, for any       *)
(* declarations, panes, sidecars, threads and bounds.                      *)
(***************************************************************************)
EXTENDS System, ChannelProofs

\* What is proved of Backend, of the backend in this system.
BP == INSTANCE BackendProofs WITH bound <- [p \in Panes |-> pane[p].view], spent <- budget

LEMMA BackendAssumptions ==
  /\ BP!PanesAssumption /\ BP!DeclarableAssumption /\ BP!HeightsAssumption
  /\ BP!ViewAssumption /\ BP!BoundsAssumption
  BY PanesAssumption, DeclarableAssumption, HeightsAssumption, CommitsAssumption, CommitterAssumption
     DEF BP!PanesAssumption, BP!DeclarableAssumption, BP!HeightsAssumption, BP!ViewAssumption,
         BP!BoundsAssumption, BP!Frames

-----------------------------------------------------------------------------
(* One backend: what BackendProofs is about is what System is built of *)

LEMMA SamePlans ==
  /\ \A operations : B!First(operations) = BP!First(operations)
  /\ \A s : B!Plan(s) = BP!Plan(s)
  /\ B!Snapshots = BP!Snapshots
  /\ \A S : B!Cardinality(S) = BP!Cardinality(S)
  <1>1. \A operations : B!First(operations) = BP!First(operations)
    BY DEF B!First, BP!First, B!Precedes, BP!Precedes
  <1>2. \A s : B!Plan(s) = BP!Plan(s)
    BY DEF B!Plan, BP!Plan, B!Held, BP!Held, B!PlacementEqual, BP!PlacementEqual, B!Removal,
           BP!Removal, B!Creation, BP!Creation, B!Update, BP!Update
  <1>3. B!Snapshots = BP!Snapshots
    BY DEF B!Snapshots, BP!Snapshots, B!IsFiniteSet, BP!IsFiniteSet
  <1>4. \A S : B!Cardinality(S) = BP!Cardinality(S)
    BY DEF B!Cardinality, BP!Cardinality
  <1>. QED BY <1>1, <1>2, <1>3, <1>4

LEMMA SameCommits ==
  /\ B!Init <=> BP!Init
  /\ \A s : B!Commit(s) <=> BP!Commit(s)
  /\ B!Unbound <=> BP!Unbound
  /\ B!Record <=> BP!Record
  /\ B!Return <=> BP!Return
  <1>1. B!Init <=> BP!Init
    BY DEF B!Init, BP!Init, B!Idle, BP!Idle
  <1>2. \A s : B!Commit(s) <=> BP!Commit(s)
    BY SamePlans DEF B!Commit, BP!Commit, B!Idle, BP!Idle, B!Naming, BP!Naming, B!Removals,
                     BP!Removals, B!hostVars, BP!hostVars
  <1>3. B!Unbound <=> BP!Unbound
    BY DEF B!Unbound, BP!Unbound, B!Goto, BP!Goto, B!hostVars, BP!hostVars
  <1>4. B!Record <=> BP!Record
    BY SamePlans DEF B!Record, BP!Record, B!Removals, BP!Removals, B!Naming, BP!Naming, B!Dropped,
                     BP!Dropped, B!Owner, BP!Owner, B!Ranked, BP!Ranked, B!Precedes, BP!Precedes,
                     B!hostVars, BP!hostVars
  <1>5. B!Return <=> BP!Return
    BY DEF B!Return, BP!Return, B!Idle, BP!Idle, B!hostVars, BP!hostVars
  <1>. QED BY <1>1, <1>2, <1>3, <1>4, <1>5

LEMMA SameOperations ==
  ASSUME NEW op
  PROVE  /\ B!Unbind(op) <=> BP!Unbind(op)
         /\ B!Drive(op) <=> BP!Drive(op)
         /\ B!ReportCreated(op) <=> BP!ReportCreated(op)
         /\ B!ReportRemoved(op) <=> BP!ReportRemoved(op)
  <1>1. B!Unbind(op) <=> BP!Unbind(op)
    BY SamePlans DEF B!Unbind, BP!Unbind, B!Doing, BP!Doing, B!Goto, BP!Goto, B!hostVars, BP!hostVars
  <1>2. B!HostOf(op.surface) = BP!HostOf(op.surface)
    BY DEF B!HostOf, BP!HostOf, B!PlaceRect, BP!PlaceRect
  <1>3. B!DriveCreate(op) <=> BP!DriveCreate(op)
    BY <1>2, SamePlans DEF B!DriveCreate, BP!DriveCreate, B!Put, BP!Put, B!hostVars, BP!hostVars
  <1>4. B!CreateFails(op) <=> BP!CreateFails(op)
    BY SamePlans DEF B!CreateFails, BP!CreateFails, B!Idle, BP!Idle, B!Removals, BP!Removals,
                     B!hostVars, BP!hostVars
  <1>5. B!DriveUpdate(op) <=> BP!DriveUpdate(op)
    BY <1>2, SamePlans DEF B!DriveUpdate, BP!DriveUpdate, B!Doing, BP!Doing, B!Goto, BP!Goto,
                           B!hostVars, BP!hostVars
  <1>6. B!DriveRemove(op) <=> BP!DriveRemove(op)
    BY SamePlans DEF B!DriveRemove, BP!DriveRemove, B!Doing, BP!Doing, B!Goto, BP!Goto,
                     B!Restrict, BP!Restrict, B!hostVars, BP!hostVars
  <1>7. B!Crash(op) <=> BP!Crash(op)
    BY SamePlans DEF B!Crash, BP!Crash, B!hostVars, BP!hostVars
  <1>8. B!ReportCreated(op) <=> BP!ReportCreated(op)
    BY SamePlans DEF B!ReportCreated, BP!ReportCreated, B!Doing, BP!Doing, B!Goto, BP!Goto
  <1>9. B!ReportRemoved(op) <=> BP!ReportRemoved(op)
    BY SamePlans DEF B!ReportRemoved, BP!ReportRemoved, B!Doing, BP!Doing, B!Goto, BP!Goto
  <1>. QED BY <1>1, <1>3, <1>4, <1>5, <1>6, <1>7, <1>8, <1>9 DEF B!Drive, BP!Drive

-----------------------------------------------------------------------------
(* Steps of the channel that leave every view where it is *)

\* Whoever else is in a call binds a sidecar or closes the channel.
OthersBindNoView ==
  \A t \in Others : at[t] \in {"lock", "held"} => job[t].op \notin {"bindView", "unbindView"}

ViewsKept == \A p \in Panes : pane'[p].view = pane[p].view

LEMMA RingKeepsView ==
  ASSUME Typing, NEW p, NEW n, pane' = [pane EXCEPT ![p].ring = n, ![p].displayed = None]
  PROVE  ViewsKept
  <1>1. pane \in [Panes -> PaneRings]
    BY DEF Typing, ChannelTyped
  <1>2. \A q \in Panes : q # p => pane'[q] = pane[q]
    BY <1>1
  <1>3. p \in Panes => pane'[p] = [pane[p] EXCEPT !.ring = n, !.displayed = None]
    BY <1>1
  <1>. QED BY <1>1, <1>2, <1>3 DEF PaneRings, ViewsKept

LEMMA ReceiverKeepsViews == ASSUME Typing, ReceiverStep PROVE ViewsKept
  <1> DEFINE p == taken.pane
  <1>1. CASE Receive \/ Lock(Receiver) \/ SendReleased \/ Sent \/ Show(Receiver)
    BY <1>1 DEF Receive, Lock, SendReleased, Sent, Show, channelVars, ViewsKept
  <1>2. CASE ConsumeFrame
    <2>1. pane' = [pane EXCEPT ![p].displayed = taken.slot] /\ pane \in [Panes -> PaneRings]
      BY <1>2 DEF ConsumeFrame, Typing, ChannelTyped
    <2>. QED BY <2>1 DEF PaneRings, ViewsKept
  <1>3. CASE ConsumeHello \/ ConsumeGap \/ RefuseRing \/ RefuseFrame
    BY <1>3 DEF ConsumeHello, ConsumeGap, RefuseRing, RefuseFrame, channelVars, ViewsKept
  <1>4. CASE ConsumeRing \/ ConsumeBrokenRing \/ ConsumeEnded
    <2>1. \E n : pane' = [pane EXCEPT ![p].ring = n, ![p].displayed = None]
      BY <1>4 DEF ConsumeRing, ConsumeBrokenRing, ConsumeEnded, ReleaseRing
    <2>. QED BY <2>1, RingKeepsView
  <1>. QED BY <1>1, <1>2, <1>3, <1>4 DEF ReceiverStep, Consume

LEMMA CallKeepsViews ==
  ASSUME Typing, NEW t, \/ BeginCall(t) \/ Lock(t) \/ Show(t)
                        \/ Call(t) /\ (at[t] = "held" => job[t].op \notin {"bindView", "unbindView"})
  PROVE  ViewsKept
  <1>1. CASE BeginCall(t) \/ Lock(t) \/ Show(t) \/ Snapshot(t) \/ ReadPixels(t)
    BY <1>1 DEF BeginCall, BeginBind, BeginBindView, BeginUnbindView, BeginSnapshot, BeginClose, Begin,
                Lock, Show, Snapshot, ReadPixels, channelVars, ViewsKept
  <1>2. CASE Bind(t)
    <2>1. pane' = [pane EXCEPT ![job[t].pane].sidecar = job[t].sidecar] /\ pane \in [Panes -> PaneRings]
      BY <1>2 DEF Bind, Typing, ChannelTyped
    <2>. QED BY <2>1 DEF PaneRings, ViewsKept
  <1>3. CASE Close(t)
    <2>1. pane' = [p \in Panes |-> [pane[p] EXCEPT !.ring = 0, !.displayed = None]]
          /\ pane \in [Panes -> PaneRings]
      BY <1>3 DEF Close, Typing, ChannelTyped
    <2>2. \A p \in Panes : pane'[p] = [pane[p] EXCEPT !.ring = 0, !.displayed = None]
      BY <2>1
    <2>. QED BY <2>1, <2>2 DEF PaneRings, ViewsKept
  <1>4. CASE BindView(t) \/ UnbindView(t)
    BY <1>4 DEF BindView, UnbindView, BeginCall, Lock, Show, Call, BeginBind, BeginBindView, BeginUnbindView,
                BeginSnapshot, BeginClose, Begin
  <1>. QED BY <1>1, <1>2, <1>3, <1>4 DEF Call

LEMMA SidecarKeepsViews == ASSUME NEW s, Sidecar(s) PROVE ViewsKept
  BY DEF Sidecar, SendHello, TakeReleased, SendRing, SendGap, SendEnded, SendFrame, Send, channelVars,
         ViewsKept

LEMMA BackendRests ==
  ASSUME ViewsKept, UNCHANGED backend PROVE UNCHANGED BP!vars
  <1>1. [p \in Panes |-> pane'[p].view] = [p \in Panes |-> pane[p].view]
    BY DEF ViewsKept
  <1>. QED BY <1>1 DEF BP!vars, backend

-----------------------------------------------------------------------------
(* What is left of a commit *)

BackendHolds == BP!Typing /\ BP!Distinct /\ BP!InOrder

LEMMA NextLeft ==
  ASSUME BackendHolds, commit.left # {} PROVE B!First(commit.left) \in commit.left
  BY BackendAssumptions, SamePlans, BP!FirstLeft DEF BackendHolds

\* An operation of a batch at its first call of the channel names a pane.
LEMMA PaneNamed ==
  ASSUME BackendHolds, commit.at = "unbind", NEW op \in commit.left
  PROVE  op.surface.pane \in Panes
  <1>1. op \in BP!Operations /\ op.surface.pane # 0
    BY DEF BackendHolds, BP!Typing, BP!CommitTyped, BP!Batch, BP!Naming, BP!Removals
  <1>2. op.surface \in Declarable
    BY <1>1 DEF BP!Operations
  <1>. QED BY <1>1, <1>2, DeclarableAssumption

\* A view that is to be bound is one of the channel's, of a pane.
LEMMA ViewMade ==
  ASSUME BackendHolds, commit.at = "report", NEW op \in commit.left, op.action = "create"
  PROVE  op.surface.pane \in Panes /\ owners[op.surface.id].view \in Views
  <1>1. op \in BP!Operations /\ op.surface.pane # 0 /\ op.surface.id \in DOMAIN owners
    BY DEF BackendHolds, BP!Typing, BP!CommitTyped, BP!Batch, BP!Held
  <1>2. op.surface \in Declarable
    BY <1>1 DEF BP!Operations
  <1>3. owners[op.surface.id] \in BP!Owners
    BY <1>1 DEF BackendHolds, BP!Typing, BP!OwnersTyped
  <1>4. owners[op.surface.id].view \in 1 .. MaxViews
    BY <1>3 DEF BP!Owners, BP!Handles
  <1>. QED BY <1>1, <1>2, <1>4, DeclarableAssumption, CommitterAssumption

-----------------------------------------------------------------------------
(* Every step is one of the channel *)

LEMMA StepOfChannel ==
  ASSUME BackendHolds, [SystemNext]_systemVars PROVE [Next]_vars
  <1>1. Committer \in Callers
    BY ThreadsAssumption
  <1>2. CASE BeginCommit \/ DriveNext \/ Proceed \/ SystemRest \/ UNCHANGED systemVars
    BY <1>2 DEF BeginCommit, DriveNext, Proceed, SystemRest, systemVars
  <1>3. CASE Detach
    <2> DEFINE op == B!First(commit.left)
    <2>1. op \in commit.left /\ commit.at = "unbind" /\ BeginUnbindView(Committer, op.surface.pane)
      BY <1>3, NextLeft DEF Detach, Begun
    <2>2. op.surface.pane \in Panes
      BY <2>1, PaneNamed
    <2>3. BeginCall(Committer)
      BY <2>1, <2>2 DEF BeginCall
    <2>. QED BY <1>1, <2>3 DEF Next
  <1>4. CASE Attach
    <2> DEFINE op == B!First(commit.left)
    <2>1. /\ op \in commit.left /\ commit.at = "report" /\ op.action = "create"
          /\ BeginBindView(Committer, op.surface.pane, owners[op.surface.id].view)
      BY <1>4, NextLeft DEF Attach, Begun
    <2>2. op.surface.pane \in Panes /\ owners[op.surface.id].view \in Views
      BY <2>1, ViewMade
    <2>3. BeginCall(Committer)
      BY <2>1, <2>2 DEF BeginCall
    <2>. QED BY <1>1, <2>3 DEF Next
  <1>5. CASE Detached \/ Attached \/ Lock(Committer) \/ Show(Committer)
    <2>1. CallerStep(Committer)
      BY <1>5 DEF Detached, Attached, CallerStep, Call
    <2>. QED BY <1>1, <2>1 DEF Next
  <1>6. CASE ReceiverTurn
    BY <1>6 DEF ReceiverTurn, Next
  <1>7. ASSUME NEW t \in Others, OthersBegin(t) \/ OtherStep(t) PROVE [Next]_vars
    <2>1. t \in Callers
      BY DEF Others
    <2>2. BeginCall(t) \/ CallerStep(t)
      <3>1. CASE OthersBegin(t)
        <4>1. (\E p \in Panes, s \in Sidecars : BeginBind(t, p, s)) \/ BeginClose(t)
          BY <3>1 DEF OthersBegin
        <4>. QED BY <4>1 DEF BeginCall
      <3>. QED BY <1>7, <3>1 DEF OtherStep
    <2>. QED BY <2>1, <2>2 DEF Next
  <1>8. ASSUME NEW s \in Sidecars, Sidecar(s) PROVE [Next]_vars
    BY <1>8 DEF Next
  <1>. QED BY <1>2, <1>3, <1>4, <1>5, <1>6, <1>7, <1>8 DEF SystemNext, CommitStep

-----------------------------------------------------------------------------
(* Every step is one of the backend, or none *)

LEMMA StepOfBackend ==
  ASSUME Typing, Threading, OthersBindNoView, BackendHolds, [SystemNext]_systemVars
  PROVE  [BP!Next]_(BP!vars)
  <1> DEFINE op == B!First(commit.left)
  <1>1. CASE BeginCommit
    <2>1. PICK s \in B!Snapshots : B!Commit(s)
      BY <1>1 DEF BeginCommit
    <2>. QED BY <2>1, SamePlans, SameCommits DEF BP!Next
  <1>2. CASE Detached \/ DriveNext \/ Attached
    <2>1. op \in commit.left
      BY <1>2, NextLeft DEF Detached, DriveNext, Attached, B!Unbind, B!ReportCreated, B!Doing
    <2>2. B!Unbind(op) \/ B!Drive(op) \/ B!ReportCreated(op)
      BY <1>2 DEF Detached, DriveNext, Attached
    <2>3. PICK o \in commit.left : B!Unbind(o) \/ B!Drive(o) \/ B!ReportCreated(o)
      <3>1. CASE B!Unbind(op)
        BY <2>1, <3>1 DEF B!Unbind
      <3>2. CASE B!Drive(op)
        BY <2>1, <3>2
      <3>3. CASE B!ReportCreated(op)
        BY <2>1, <3>3 DEF B!ReportCreated
      <3>. QED BY <2>2, <3>1, <3>2, <3>3
    <2>4. BP!Unbind(o) \/ BP!Drive(o) \/ BP!Report(o)
      BY <2>3, SameOperations DEF BP!Report
    <2>. QED BY <2>4 DEF BP!Next, BP!Apply
  <1>3. CASE Proceed
    <2>1. CASE commit.left # {} /\ B!ReportRemoved(op)
      <3>1. PICK o \in commit.left : B!ReportRemoved(o)
        BY <2>1, NextLeft
      <3>2. BP!Report(o)
        BY <3>1, SameOperations DEF BP!Report
      <3>. QED BY <3>2 DEF BP!Next, BP!Apply
    <2>2. CASE B!Unbound \/ B!Record \/ B!Return
      BY <2>2, SameCommits DEF BP!Next, BP!Apply
    <2>. QED BY <1>3, <2>1, <2>2 DEF Proceed
  <1>4. CASE Detach
    <2>1. BeginCall(Committer) /\ UNCHANGED backend
      <3>1. /\ op \in commit.left /\ commit.at = "unbind" /\ UNCHANGED backend
            /\ BeginUnbindView(Committer, op.surface.pane)
        BY <1>4, NextLeft DEF Detach, Begun
      <3>. QED BY <3>1, PaneNamed DEF BeginCall
    <2>. QED BY <2>1, CallKeepsViews, BackendRests
  <1>5. CASE Attach
    <2>1. BeginCall(Committer) /\ UNCHANGED backend
      <3>1. /\ op \in commit.left /\ commit.at = "report" /\ op.action = "create" /\ UNCHANGED backend
            /\ BeginBindView(Committer, op.surface.pane, owners[op.surface.id].view)
        BY <1>5, NextLeft DEF Attach, Begun
      <3>. QED BY <3>1, ViewMade DEF BeginCall
    <2>. QED BY <2>1, CallKeepsViews, BackendRests
  <1>6. CASE (Lock(Committer) \/ Show(Committer)) /\ UNCHANGED backend
    BY <1>6, CallKeepsViews, BackendRests
  <1>7. CASE ReceiverTurn
    BY <1>7, ReceiverKeepsViews, BackendRests DEF ReceiverTurn
  <1>8. ASSUME NEW t \in Others, OthersBegin(t) \/ OtherStep(t) PROVE [BP!Next]_(BP!vars)
    <2>1. UNCHANGED backend
      BY <1>8 DEF OthersBegin, OtherStep
    <2>2. \/ BeginCall(t) \/ Lock(t) \/ Show(t)
          \/ Call(t) /\ (at[t] = "held" => job[t].op \notin {"bindView", "unbindView"})
      <3>1. CASE OthersBegin(t)
        <4>1. (\E p \in Panes, s \in Sidecars : BeginBind(t, p, s)) \/ BeginClose(t)
          BY <3>1 DEF OthersBegin
        <4>. QED BY <4>1 DEF BeginCall
      <3>. QED BY <1>8, <3>1 DEF OtherStep, CallerStep, OthersBindNoView
    <2>. QED BY <2>1, <2>2, CallKeepsViews, BackendRests
  <1>9. ASSUME NEW s \in Sidecars, Sidecar(s), UNCHANGED backend PROVE [BP!Next]_(BP!vars)
    BY <1>9, SidecarKeepsViews, BackendRests
  <1>10. CASE SystemRest \/ UNCHANGED systemVars
    <2>1. UNCHANGED pane /\ UNCHANGED backend
      BY <1>10 DEF SystemRest, systemVars, vars
    <2>. QED BY <2>1, BackendRests DEF ViewsKept
  <1>. QED BY <1>1, <1>2, <1>3, <1>4, <1>5, <1>6, <1>7, <1>8, <1>9, <1>10 DEF SystemNext, CommitStep

LEMMA StepOfOthers ==
  ASSUME Typing, Threading, OthersBindNoView, [SystemNext]_systemVars
  PROVE  OthersBindNoView'
  <1> SUFFICES ASSUME NEW t \in Others
               PROVE  at'[t] \in {"lock", "held"} => job'[t].op \notin {"bindView", "unbindView"}
    BY DEF OthersBindNoView
  <1>1. /\ t \in Callers /\ t \in Threads /\ t # Committer /\ t # Receiver /\ Committer \in Callers
        /\ at \in [Threads -> {"idle", "lock", "held", "sends", "show", "read"}]
        /\ job \in [Callers -> Jobs]
    BY ThreadsApart DEF Others, Typing, ThreadsTyped
  <1>2. ASSUME at'[t] = at[t] \/ at'[t] \notin {"lock", "held"}, job'[t] = job[t]
        PROVE  at'[t] \in {"lock", "held"} => job'[t].op \notin {"bindView", "unbindView"}
    BY <1>2 DEF OthersBindNoView
  <1>3. CASE BeginCommit \/ DriveNext \/ Proceed \/ SystemRest \/ UNCHANGED systemVars
    <2>1. UNCHANGED <<at, job>>
      BY <1>3 DEF BeginCommit, DriveNext, Proceed, SystemRest, systemVars, vars
    <2>. QED BY <1>2, <2>1
  <1>4. CASE Detach \/ Attach
    BY <1>1, <1>2, <1>4 DEF Detach, Attach, BeginUnbindView, BeginBindView, Begin
  <1>5. CASE Detached \/ Attached \/ Lock(Committer) \/ Show(Committer)
    BY <1>1, <1>2, <1>5 DEF Detached, Attached, Lock, Show, BindView, UnbindView, Return, Unlock
  <1>6. CASE ReceiverTurn
    <2>1. UNCHANGED job \/ job' = [c \in Callers |-> IF c = Receiver THEN NoJob ELSE job[c]]
      BY <1>6 DEF ReceiverTurn, ReceiverStep, Receive, Lock, Consume, ConsumeHello, ConsumeGap, ConsumeRing,
                  ConsumeBrokenRing, RefuseRing, ConsumeFrame, RefuseFrame, ConsumeEnded, Settle,
                  SendReleased, Sent, Show
    <2>2. UNCHANGED at \/ \E x : at' = [at EXCEPT ![Receiver] = x]
      BY <1>6 DEF ReceiverTurn, ReceiverStep, Receive, Lock, Consume, ConsumeHello, ConsumeGap, ConsumeRing,
                  ConsumeBrokenRing, RefuseRing, ConsumeFrame, RefuseFrame, ConsumeEnded, Settle, Unlock,
                  SendReleased, Sent, Show
    <2>. QED BY <1>1, <1>2, <2>1, <2>2
  <1>7. ASSUME NEW u \in Others, OthersBegin(u)
        PROVE  at'[t] \in {"lock", "held"} => job'[t].op \notin {"bindView", "unbindView"}
    <2>1. (\E p, s : Begin(u, "bind", p, s, NoView)) \/ Begin(u, "close", 0, Nobody, NoView)
      BY <1>7 DEF OthersBegin, BeginBind, BeginClose
    <2>2. PICK op, p, s, v : op \in {"bind", "close"} /\ Begin(u, op, p, s, v)
      BY <2>1
    <2>3. CASE u = t
      BY <1>1, <2>2, <2>3 DEF Begin
    <2>4. CASE u # t
      BY <1>1, <1>2, <2>2, <2>4 DEF Begin
    <2>. QED BY <2>3, <2>4
  <1>8. ASSUME NEW u \in Others, OtherStep(u)
        PROVE  at'[t] \in {"lock", "held"} => job'[t].op \notin {"bindView", "unbindView"}
    <2>0. u \in Callers
      BY DEF Others
    <2>1. CASE u # t
      <3>1. UNCHANGED at \/ \E x : at' = [at EXCEPT ![u] = x]
        BY <1>8 DEF OtherStep, CallerStep, Lock, Show, Call, Bind, BindView, UnbindView, Snapshot, ReadPixels,
                    Close, Return, Unlock
      <3>2. \/ UNCHANGED job \/ \E x : job' = [job EXCEPT ![u] = x]
            \/ \E x : job' = [job EXCEPT ![u].surface = x]
            \/ job' = [c \in Callers |-> IF c = u THEN NoJob ELSE job[c]]
        BY <1>8 DEF OtherStep, CallerStep, Lock, Show, Call, Bind, BindView, UnbindView, Snapshot, ReadPixels,
                    Close, Return
      <3>. QED BY <1>1, <1>2, <2>1, <3>1, <3>2
    <2>2. CASE u = t /\ Lock(u)
      BY <1>1, <2>2 DEF Lock, OthersBindNoView
    <2>3. CASE u = t /\ (Show(u) \/ Call(u))
      BY <1>1, <2>3 DEF Show, Call, Bind, BindView, UnbindView, Snapshot, ReadPixels, Close, Return, Unlock
    <2>. QED BY <1>8, <2>1, <2>2, <2>3 DEF OtherStep, CallerStep
  <1>9. ASSUME NEW s \in Sidecars, Sidecar(s)
        PROVE  at'[t] \in {"lock", "held"} => job'[t].op \notin {"bindView", "unbindView"}
    BY <1>2, <1>9 DEF Sidecar, SendHello, TakeReleased, SendRing, SendGap, SendEnded, SendFrame, Send,
                      threadVars
  <1>. QED BY <1>3, <1>4, <1>5, <1>6, <1>7, <1>8, <1>9 DEF SystemNext, CommitStep

-----------------------------------------------------------------------------
(* What holds of the parts holds of the whole *)

LEMMA SystemHolds ==
  SystemSpec => [](Typing /\ Threading /\ OthersBindNoView /\ BackendHolds)
  <1>1. SystemInit => Typing /\ Threading /\ OthersBindNoView /\ BackendHolds
    <2> SUFFICES ASSUME SystemInit PROVE Typing /\ Threading /\ OthersBindNoView /\ BackendHolds
      OBVIOUS
    <2>1. Typing /\ Threading
      BY InitTyping DEF SystemInit
    <2>2. OthersBindNoView
      BY ThreadsApart DEF SystemInit, Init, OthersBindNoView, Others, Threads
    <2>3. BP!Init
      BY SameCommits DEF SystemInit
    <2>4. BackendHolds
      BY <2>3, BackendAssumptions, BP!InitTyping, BP!InitDistinct, BP!InitInOrder DEF BackendHolds
    <2>. QED BY <2>1, <2>2, <2>4
  <1>2. Typing /\ Threading /\ OthersBindNoView /\ BackendHolds /\ [SystemNext]_systemVars
        => (Typing /\ Threading /\ OthersBindNoView /\ BackendHolds)'
    <2> SUFFICES ASSUME Typing, Threading, OthersBindNoView, BackendHolds, [SystemNext]_systemVars
                 PROVE  (Typing /\ Threading /\ OthersBindNoView /\ BackendHolds)'
      OBVIOUS
    <2>1. [Next]_vars
      BY StepOfChannel
    <2>2. [BP!Next]_(BP!vars)
      BY StepOfBackend
    <2>3. Typing' /\ Threading'
      BY <2>1, NextTyping
    <2>4. OthersBindNoView'
      BY StepOfOthers
    <2>5. BP!Typing' /\ BP!Distinct'
      BY <2>2, BackendAssumptions, BP!NextTyping, BP!NextDistinct DEF BackendHolds
    <2>6. BP!InOrder'
      BY <2>2, BackendAssumptions, BP!NextInOrder DEF BackendHolds
    <2>. QED BY <2>3, <2>4, <2>5, <2>6 DEF BackendHolds
  <1>. QED BY <1>1, <1>2, PTL DEF SystemSpec

\* The composition is a channel: what is proved of Channel is so while Apply runs
\* beside the receive thread (backend.go:112-206, channel.go:138-170).
THEOREM ImplementsChannel == SystemSpec => Spec
  <1>1. SystemInit => Init
    BY DEF SystemInit
  <1>2. BackendHolds /\ [SystemNext]_systemVars => [Next]_vars
    BY StepOfChannel
  <1>. QED BY <1>1, <1>2, SystemHolds, PTL DEF SystemSpec, Spec

LEMMA FollowsBackend == SystemSpec => BP!Spec
  <1>1. SystemInit => BP!Init
    BY SameCommits DEF SystemInit
  <1>2. Typing /\ Threading /\ OthersBindNoView /\ BackendHolds /\ [SystemNext]_systemVars
        => [BP!Next]_(BP!vars)
    BY StepOfBackend
  <1>. QED BY <1>1, <1>2, SystemHolds, PTL DEF SystemSpec, BP!Spec

\* And it is a backend whose bound views are the channel's: other threads and
\* sidecars come between the calls of a commit and change no view.
THEOREM ImplementsBackend == SystemSpec => B!Spec
  <1>1. SystemInit => B!Init
    BY DEF SystemInit
  <1>2. BP!Next => B!Next
    <2> SUFFICES ASSUME BP!Next PROVE B!Next
      OBVIOUS
    <2>1. CASE \E s \in BP!Snapshots : BP!Commit(s)
      BY <2>1, SamePlans, SameCommits DEF B!Next
    <2>2. CASE BP!Unbound \/ BP!Record \/ BP!Return
      BY <2>2, SameCommits DEF B!Next, B!Apply
    <2>3. ASSUME NEW op \in commit.left, BP!Unbind(op) \/ BP!Drive(op) \/ BP!Report(op)
          PROVE  B!Next
      BY <2>3, SameOperations DEF B!Next, B!Apply, B!Report, BP!Report
    <2>4. ASSUME NEW h \in Heights, BP!Resize(h) PROVE B!Next
      <3>1. B!Resize(h)
        BY <2>4 DEF B!Resize, BP!Resize, B!hostVars, BP!hostVars
      <3>. QED BY <3>1 DEF B!Next
    <2>5. CASE BP!Rest
      BY <2>5 DEF B!Next, B!Rest, BP!Rest, B!vars, BP!vars
    <2>. QED BY <2>1, <2>2, <2>3, <2>4, <2>5 DEF BP!Next, BP!Apply
  <1>3. [BP!Next]_(BP!vars) => [B!Next]_(B!vars)
    BY <1>2 DEF B!vars, BP!vars
  <1>. QED BY <1>1, <1>3, FollowsBackend, PTL DEF SystemSpec, B!Spec, BP!Spec

-----------------------------------------------------------------------------
(* Views between the two *)

\* As long as a surface names one pane, a view the receive thread may take a lease
\* of is alive at every step of Apply, whatever message or call comes in between
\* (backend.go:115-126, channel.go:138-160, 346-370).
THEOREM LeasesOfTheLiving == BP!SourcesFixed => (SystemSpec => []LeasedFromTheLiving)
  <1> SUFFICES ASSUME BP!SourcesFixed PROVE SystemSpec => []LeasedFromTheLiving
    OBVIOUS
  <1>1. BP!Spec => []BP!BoundViewsAreAlive
    BY BackendAssumptions, BP!BoundViewsLive
  <1>2. BP!BoundViewsAreAlive => LeasedFromTheLiving
    BY DEF BP!BoundViewsAreAlive, LeasedFromTheLiving
  <1>. QED BY <1>1, <1>2, FollowsBackend, PTL

\* With commits on the main thread, and as long as a surface names one pane and no
\* commit failed, the host view of every declared pane shows the newest surface
\* signaled for it between commits, messages and calls: the backend has bound that
\* view, and the channel shows what it has in a bound view (backend.go:164-170,
\* channel.go:138-150).
THEOREM DeclaredPanesAreDrawn ==
  CommitsOnMain /\ BP!SourcesFixed => (SystemSpec => []DeclaredPaneIsDrawn)
  <1> SUFFICES ASSUME CommitsOnMain, BP!SourcesFixed PROVE SystemSpec => []DeclaredPaneIsDrawn
    OBVIOUS
  <1>1. Spec => []NewestIsShown
    BY NewestStaysShown
  <1>2. BP!Spec => []BP!EveryPaneHasItsView
    BY BackendAssumptions, BP!PanesHaveTheirViews
  <1>3. NewestIsShown /\ BP!EveryPaneHasItsView /\ BackendHolds => DeclaredPaneIsDrawn
    <2> SUFFICES ASSUME NewestIsShown, BP!EveryPaneHasItsView, BackendHolds,
                        Idle, commit.at = "idle", torn = {}, NEW i \in DOMAIN owners,
                        owners[i].surface.pane # 0,
                        Picture(owners[i].surface.pane) \in Surfaces
                 PROVE  layer[owners[i].view] = Picture(owners[i].surface.pane)
      BY DEF DeclaredPaneIsDrawn, Picture
    <2> DEFINE p == owners[i].surface.pane
    <2>1. \A j \in DOMAIN owners : owners[j] \in BP!Owners
      BY DEF BackendHolds, BP!Typing, BP!OwnersTyped
    <2>2. p \in Panes /\ owners[i].view \in 1 .. MaxViews
      <3>1. owners[i].surface \in Declarable /\ owners[i].view \in 1 .. MaxViews
        BY <2>1 DEF BP!Owners, BP!Handles
      <3>. QED BY <3>1, DeclarableAssumption
    <2>3. PICK j \in DOMAIN owners : owners[j].surface.pane = p /\ pane[p].view = owners[j].view
      BY <2>2 DEF BP!EveryPaneHasItsView, BP!AtRest
    <2>4. j = i
      BY <2>3 DEF BackendHolds, BP!Distinct
    <2>5. pane[p].view = owners[i].view /\ pane[p].view # NoView
      BY <2>2, <2>3, <2>4, CommitterAssumption, CommitsAssumption
    <2>. QED BY <2>2, <2>5 DEF NewestIsShown, Picture
  <1>. QED BY <1>1, <1>2, <1>3, SystemHolds, ImplementsChannel, FollowsBackend, PTL

=============================================================================
