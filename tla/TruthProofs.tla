----------------------------- MODULE TruthProofs -----------------------------
(***************************************************************************)
(* Theorems about what the sidecars keep: that a live pane has what Status *)
(* says of it, and that no surface is left open for nobody.                *)
(***************************************************************************)
EXTENDS PhaseProofs

-----------------------------------------------------------------------------
(* The panes RestartUnit has yet to reach *)

\* Only a RestartUnit has panes to do, and it is waiting for the next one's lock
\* or opening the one it took.
Listed(c) == c.todo # {} => c.op = "restart" /\ c.at \in {"lock"} \cup OpeningPoints
WorkListed == \A t \in Callers : Listed(call[t])

\* A pane leaves the list when it is restarted or has nothing to restart.
WorkLeft(t) ==
  \A q \in call[t].todo :
    \/ q \in call'[t].todo /\ call'[t].unit = call[t].unit
    \/ Reopens(t, q)
    \/ ~(panes[q] # 0 /\ DependsOn(panes[q], call[t].unit))

LEMMA GotoWork ==
  ASSUME Typing, NEW t \in Callers, NEW at, Goto(t, at),
         call[t].todo # {} => call[t].op = "restart" /\ at \in OpeningPoints
  PROVE  Listed(call'[t]) /\ WorkLeft(t)
  <1>1. call \in [Callers -> Frames] /\ call[t] \in Frames
    BY DEF Typing, TypeOK
  <1>. QED BY <1>1 DEF Goto, Listed, WorkLeft, Frames

LEMMA ReturnWork ==
  ASSUME Typing, NEW t \in Callers, Return(t), call[t].todo = {}
  PROVE  Listed(call'[t]) /\ WorkLeft(t)
  BY DEF Typing, TypeOK, Return, Listed, WorkLeft, Idle

LEMMA LeaveWork ==
  ASSUME Typing, NEW t \in Callers, Leave(t)
  PROVE  Listed(call'[t]) /\ WorkLeft(t)
  <1>1. call \in [Callers -> Frames]
    BY DEF Typing, TypeOK
  <1>2. call'[t] = IF call[t].todo = {} THEN Idle
                   ELSE [Idle EXCEPT !.op = "restart", !.at = "lock",
                                     !.unit = call[t].unit, !.todo = call[t].todo]
    BY <1>1 DEF Leave
  <1>3. /\ call[t].todo # {} => call'[t].op = "restart" /\ call'[t].at = "lock"
                                /\ call'[t].unit = call[t].unit /\ call'[t].todo = call[t].todo
        /\ call[t].todo = {} => call'[t].todo = {}
    BY <1>2 DEF Idle
  <1>. QED BY <1>3 DEF Listed, WorkLeft

LEMMA OpeningWork ==
  ASSUME Typing, Locking, WorkListed, NEW t \in Callers, Opening(t)
  PROVE  Listed(call'[t]) /\ WorkLeft(t)
  <1>1. call \in [Callers -> Frames] /\ call[t] \in Frames /\ Listed(call[t])
    BY DEF Typing, TypeOK, WorkListed
  <1>2. CASE Leave(t)
    BY <1>2, LeaveWork
  <1>3. CASE ~Leave(t)
    <2>1. SameWork(t) /\ call'[t].at \in OpeningPoints
      BY <1>3, OpeningStep DEF Opens, OpeningEnds, OpeningOn
    <2>2. call'[t].todo = call[t].todo /\ call'[t].unit = call[t].unit
      <3>1. CASE \E at \in Points : Goto(t, at)
        BY <1>1, <3>1 DEF Goto, Frames
      <3>2. CASE Rehydrate(t) \/ Measure(t)
        <4>1. ~Block(t)
          BY <1>3 DEF Block
        <4>. QED BY <1>1, <3>2, <4>1 DEF Rehydrate, Measure, Frames
      <3>3. CASE Prepare(t) \/ OpenShell(t) \/ FitShell(t) \/ Ensure(t) \/ Bind(t) \/ OpenSurface(t)
        <4>1. \E at \in {"open", "fit", "ensure", "bind", "surface"} : Goto(t, at)
          BY <1>3, <3>3 DEF Prepare, OpenShell, FitShell, Ensure, Bind, OpenSurface, Block, AfterOpen
        <4>. QED BY <3>1, <4>1 DEF Points, HoldingPoints, OpeningPoints
      <3>. QED BY <3>2, <3>3 DEF Opening
    <2>. QED BY <1>1, <2>1, <2>2 DEF Listed, WorkLeft, SameWork
  <1>. QED BY <1>2, <1>3

LEMMA BeginWork ==
  ASSUME Typing, WorkListed, NEW t \in Callers, Begin(t) \/ Verb(t)
  PROVE  Listed(call'[t]) /\ WorkLeft(t)
  <1>1. call \in [Callers -> Frames] /\ call[t] \in Frames /\ Listed(call[t])
    BY DEF Typing, TypeOK, WorkListed
  <1>2. call[t].at = "idle"
    BY DEF Begin, Verb, BeginStart, BeginRemove, BeginEvent, BeginRestart, BeginStop,
           BeginResize, BeginVerb, At
  <1>3. call[t].todo = {}
    BY <1>1, <1>2 DEF Listed, OpeningPoints
  <1>4. Idle.todo = {}
    BY DEF Idle
  <1>5. Listed(call'[t])
    <2>1. ASSUME NEW g \in Generations, BeginStart(t, g) \/ BeginRemove(t, g)
          PROVE  call'[t].todo = {}
      <3>1. PICK event, at : call' = [call EXCEPT ![t] =
              [Idle EXCEPT !.op = event.op, !.at = at, !.named = event.gen,
                           !.pane = source[event.gen].pane]]
        BY <2>1 DEF BeginStart, BeginRemove, BeginEvent
      <3>. QED BY <1>1, <3>1 DEF Idle
    <2>2. ASSUME NEW u \in Units, BeginRestart(t, u) PROVE Listed(call'[t])
      <3>1. CASE call' = call
        BY <1>1, <3>1
      <3>2. CASE \E work \in SUBSET Panes :
                   call' = [call EXCEPT ![t] = [Idle EXCEPT !.op = "restart", !.at = "lock",
                                                            !.unit = u, !.todo = work]]
        BY <1>1, <3>2 DEF Idle, Listed
      <3>. QED BY <2>2, <3>1, <3>2 DEF BeginRestart
    <2>3. ASSUME NEW p \in Panes, NEW op, BeginStop(t, p, op) PROVE call'[t].todo = {}
      BY <1>1, <2>3 DEF BeginStop, Idle
    <2>4. ASSUME NEW p \in Panes, BeginResize(t, p) PROVE call'[t].todo = {}
      BY <1>1, <2>4 DEF BeginResize, Idle
    <2>. QED BY <2>1, <2>2, <2>3, <2>4 DEF Begin, Verb, Listed
  <1>. QED BY <1>3, <1>5 DEF WorkLeft

LEMMA WorkStep ==
  ASSUME Typing, Locking, WorkListed, NEW t \in Callers, Begin(t) \/ Verb(t) \/ Step(t)
  PROVE  Listed(call'[t]) /\ WorkLeft(t)
  <1>1. call \in [Callers -> Frames] /\ call[t] \in Frames /\ Listed(call[t])
    BY DEF Typing, TypeOK, WorkListed
  <1>2. CASE StartUnits(t) \/ StaleStart(t) \/ SkipClosing(t) \/ ResizeSurface(t)
             \/ ResizeShell(t) \/ NoteGrid(t) \/ InstallStart(t) \/ LockClosing(t)
             \/ CloseSurface(t) \/ Detach(t) \/ CloseShell(t)
    <2>1. call[t].todo = {}
      <3>1. \/ call[t].op \in {"start", "remove", "stopDetach", "stopClose"}
            \/ call[t].at \in {"units"} \cup ResizePoints \cup ClosingPoints
        BY <1>2 DEF StartUnits, StaleStart, SkipClosing, ResizeSurface, ResizeShell, NoteGrid,
                    InstallStart, LockClosing, CloseSurface, Detach, CloseShell, At,
                    ResizePoints, ClosingPoints
      <3>. QED BY <1>1, <3>1 DEF Listed, OpeningPoints, ClosingPoints, ResizePoints
    <2>2. CASE Return(t)
      BY <2>1, <2>2, ReturnWork
    <2>3. CASE Leave(t)
      BY <2>3, LeaveWork
    <2>4. CASE ~Return(t) /\ ~Leave(t)
      <3>1. call'[t].todo = {}
        <4>1. CASE \E at \in {"lock", "detach", "close", "noteGrid"} : Goto(t, at)
          BY <1>1, <2>1, <4>1 DEF Goto, Frames
        <4>2. CASE InstallStart(t) \/ LockClosing(t)
          BY <1>1, <2>1, <4>2 DEF InstallStart, LockClosing, Frames
        <4>3. CASE ResizeSurface(t)
          BY <1>1, <2>1, <2>4, <4>3 DEF ResizeSurface, Frames
        <4>. QED BY <1>2, <2>4, <4>1, <4>2, <4>3
             DEF StartUnits, StaleStart, SkipClosing, ResizeShell, NoteGrid, CloseSurface,
                 Detach, CloseShell, Abandon, Drop
      <3>. QED BY <2>1, <3>1 DEF Listed, WorkLeft
    <2>. QED BY <2>2, <2>3, <2>4
  <1>3. CASE LockRestart(t)
    <2>1. PICK p \in call[t].todo :
            /\ call[t].op = "restart" /\ panes[p] # 0 /\ Acquire(t, p) /\ UNCHANGED panes
            /\ record' = [record EXCEPT ![panes[p]].phase = "opening", ![panes[p]].token = FALSE]
            /\ call' = [call EXCEPT ![t].at = "rehydrate", ![t].pane = p,
                                    ![t].gen = panes[p], ![t].todo = @ \ {p}]
      BY <1>3 DEF LockRestart
    <2>2. /\ call'[t].at = "rehydrate" /\ call'[t].op = "restart"
          /\ call'[t].pane = p /\ call'[t].gen = panes[p] /\ call'[t].named = call[t].named
          /\ call'[t].todo = call[t].todo \ {p} /\ call'[t].unit = call[t].unit
          /\ OthersUnchanged(t)
      BY <1>1, <2>1 DEF Frames, OthersUnchanged
    <2>3. Reopens(t, p)
      BY <2>1, <2>2, PointsApart DEF Reopens, Takes, Acquire, At
    <2>. QED BY <2>2, <2>3 DEF Listed, WorkLeft, OpeningPoints
  <1>4. CASE SkipRestart(t)
    <2>1. PICK p \in call[t].todo :
            /\ call[t].op = "restart" /\ call[t].at = "lock"
            /\ ~(panes[p] # 0 /\ DependsOn(panes[p], call[t].unit))
            /\ call' = [call EXCEPT ![t] = IF call[t].todo = {p} THEN Idle
                                           ELSE [call[t] EXCEPT !.todo = @ \ {p}]]
      BY <1>4 DEF SkipRestart, At
    <2>2. CASE call[t].todo = {p}
      BY <1>1, <2>1, <2>2 DEF Listed, WorkLeft, Idle
    <2>3. CASE call[t].todo # {p}
      <3>1. /\ call'[t].at = "lock" /\ call'[t].op = "restart"
            /\ call'[t].todo = call[t].todo \ {p} /\ call'[t].unit = call[t].unit
        BY <1>1, <2>1, <2>3 DEF Frames
      <3>. QED BY <2>1, <3>1 DEF Listed, WorkLeft
    <2>. QED BY <2>2, <2>3
  <1>. QED BY <1>2, <1>3, <1>4, OpeningWork, BeginWork DEF Step

LEMMA InitWork == Init => WorkListed
  BY DEF Init, WorkListed, Listed, Idle

LEMMA NextWork == Typing /\ Locking /\ WorkListed /\ [Next]_vars => WorkListed'
  <1> SUFFICES ASSUME Typing, Locking, WorkListed, [Next]_vars PROVE WorkListed'
    OBVIOUS
  <1>1. CASE UNCHANGED call
    BY <1>1 DEF WorkListed
  <1>2. ASSUME NEW t \in Callers, Begin(t) \/ Verb(t) \/ Step(t) PROVE WorkListed'
    <2>1. OthersUnchanged(t)
      BY <1>2, EventStep
    <2>2. Listed(call'[t])
      BY <1>2, WorkStep
    <2>. QED BY <2>1, <2>2 DEF WorkListed, OthersUnchanged
  <1>. QED BY <1>1, <1>2, WorldStep DEF Next, Rest, vars

\* What the host has yet to report changes when a restart is taken up.
LEMMA DueStep ==
  ASSUME NEW t \in Callers, Begin(t) \/ Verb(t) \/ Step(t)
  PROVE  UNCHANGED due \/ \E u \in Units : BeginRestart(t, u)
  <1>1. CASE Begin(t) \/ Verb(t)
    BY <1>1 DEF Begin, Verb, BeginStart, BeginRemove, BeginEvent, BeginStop, BeginResize, BeginVerb
  <1>2. CASE Opening(t)
    BY <1>2 DEF Opening, Rehydrate, Measure, Prepare, OpenShell, FitShell, Ensure, Bind,
                OpenSurface, hostVars
  <1>3. CASE Step(t) /\ ~Opening(t)
    BY <1>3 DEF Step, StartUnits, InstallStart, StaleStart, LockRestart, SkipRestart, LockClosing,
                SkipClosing, CloseSurface, Detach, CloseShell, ResizeSurface, ResizeShell,
                NoteGrid, hostVars
  <1>. QED BY <1>1, <1>2, <1>3

\* A pane that awaits a restart awaits it until it is restarted or replaced.
LEMMA AwaitsStep ==
  ASSUME Typing, Locking, WorkListed, NEW t \in Callers, Begin(t) \/ Verb(t) \/ Step(t),
         NEW p \in Panes, RestartAwaits(p), panes[p] # 0, panes'[p] = panes[p], ~Reopens(t, p)
  PROVE  RestartAwaits(p)'
  <1>1. OthersUnchanged(t) /\ UNCHANGED source
    BY EventStep
  <1>2. call \in [Callers -> Frames]
    BY DEF Typing, TypeOK
  <1>3. /\ Engine(panes[p])' = Engine(panes[p]) /\ Pty(panes[p])' = Pty(panes[p])
        /\ \A u : DependsOn(panes[p], u)' <=> DependsOn(panes[p], u)
    BY <1>1 DEF Engine, Pty, DependsOn
  <1>4. ASSUME NEW c \in Callers, p \in call[c].todo, DependsOn(panes[p], call[c].unit)
        PROVE  RestartAwaits(p)'
    <2>1. CASE c = t
      <3>1. p \in call'[t].todo /\ call'[t].unit = call[t].unit
        BY <1>4, <2>1, WorkStep DEF WorkLeft
      <3>. QED BY <1>1, <1>4, <2>1, <3>1 DEF RestartAwaits, DependsOn, Engine, Pty
    <2>2. CASE c # t
      BY <1>1, <1>4, <2>2 DEF RestartAwaits, OthersUnchanged, DependsOn, Engine, Pty
    <2>. QED BY <2>1, <2>2
  <1>5. ASSUME NEW u \in {Engine(panes[p]), Pty(panes[p])} \cap due
        PROVE  RestartAwaits(p)'
    <2>1. CASE u \in due'
      BY <1>1, <2>1 DEF RestartAwaits, Engine, Pty
    <2>2. CASE u \notin due'
      <3>1. PICK v \in Units : BeginRestart(t, v)
        BY <2>2, DueStep
      <3>2. v = u /\ DependsOn(panes[p], u)
        BY <2>2, <3>1 DEF BeginRestart, DependsOn
      <3> DEFINE dependents == {q \in Panes : panes[q] # 0 /\ DependsOn(panes[q], u)}
      <3>3. p \in dependents
        BY <3>2
      <3>4. call' = [call EXCEPT ![t] = [Idle EXCEPT !.op = "restart", !.at = "lock",
                                                     !.unit = u, !.todo = dependents]]
        BY <3>1, <3>2, <3>3 DEF BeginRestart
      <3>5. call'[t].todo = dependents /\ call'[t].unit = u
        BY <1>2, <3>4 DEF Idle
      <3> HIDE DEF dependents
      <3>. QED BY <1>1, <3>2, <3>3, <3>5 DEF RestartAwaits, DependsOn, Engine, Pty
    <2>. QED BY <2>1, <2>2
  <1>. QED BY <1>4, <1>5 DEF RestartAwaits

-----------------------------------------------------------------------------
(* What a step does to the sidecars *)

\* The sidecars keep for a pane what they kept, but for its size.
SurfaceSame(u, p) ==
  /\ surface'[u][p].by = surface[u][p].by
  /\ surface[u][p] = NoSurface => surface'[u][p] = NoSurface
ShellSame(u, p) ==
  /\ shell'[u][p].session = shell[u][p].session
  /\ shell[u][p] = NoShell => shell'[u][p] = NoShell
SidecarsSame(p) ==
  bound'[p] = bound[p] /\ \A u \in Units : SurfaceSame(u, p) /\ ShellSame(u, p)

LEMMA CellChange ==
  ASSUME NEW T, NEW f \in [Units -> [Panes -> T]], NEW u, NEW p, NEW c,
         NEW v \in Units, NEW q \in Panes
  PROVE  [f EXCEPT ![u][p] = c][v][q] = IF v = u /\ q = p THEN c ELSE f[v][q]
  OBVIOUS

LEMMA ResizedSame ==
  ASSUME Typing, NEW t \in Callers, shell' = Resized(t), NEW u \in Units, NEW p \in Panes
  PROVE  ShellSame(u, p)
  <1> DEFINE K == [session : Nat, grid : Grids]
             g == call[t].gen
             q == call[t].pane
             grid == IF Keeps(g, q) THEN call[t].grid ELSE shell[Pty(g)][q].grid
             cell == [shell[Pty(g)][q] EXCEPT !.grid = grid]
  <1>1. shell \in [Units -> [Panes -> K]] /\ record \in [Generations -> Records]
    BY DEF Typing, TypeOK
  <1>2. shell' = [shell EXCEPT ![Pty(g)][q] = cell]
    BY DEF Resized
  <1>3. shell'[u][p] = IF u = Pty(g) /\ p = q THEN cell ELSE shell[u][p]
    BY <1>1, <1>2, CellChange
  <1>4. shell[u][p] \in K
    BY <1>1
  <1>5. CASE u = Pty(g) /\ p = q
    <2>1. cell.session = shell[u][p].session
      BY <1>4, <1>5
    <2>2. ASSUME shell[u][p] = NoShell PROVE cell = NoShell
      <3>1. ~Keeps(g, q)
        BY <1>5, <2>2 DEF Keeps, NoShell
      <3>2. cell = shell[u][p]
        BY <1>4, <1>5, <3>1
      <3>. QED BY <2>2, <3>2
    <2>. QED BY <1>3, <1>5, <2>1, <2>2 DEF ShellSame
  <1>6. CASE ~(u = Pty(g) /\ p = q)
    BY <1>3, <1>6 DEF ShellSame
  <1>. QED BY <1>5, <1>6

\* A goroutine changes what the sidecars keep for the pane whose lock it holds; a
\* Resize, which holds none, changes sizes.
LEMMA SidecarStep ==
  ASSUME Typing, Locking, NEW t \in Callers, Begin(t) \/ Verb(t) \/ Step(t), NEW p \in Panes,
         call[t].at \in HoldingPoints => p # call[t].pane
  PROVE  SidecarsSame(p)
  <1> DEFINE S == [by : 0 .. MaxGeneration, grid : Grids]
             K == [session : Nat, grid : Grids]
  <1>1. /\ surface \in [Units -> [Panes -> S]] /\ shell \in [Units -> [Panes -> K]]
        /\ bound \in [Panes -> Units \cup {Unbound}]
    BY DEF Typing, TypeOK
  <1>2. CASE UNCHANGED sidecarVars
    BY <1>2 DEF sidecarVars, SidecarsSame, SurfaceSame, ShellSame
  <1>3. CASE ResizeSurface(t)
    <2> DEFINE e == Engine(call[t].gen)
               q == call[t].pane
    <2>1. UNCHANGED <<bound, shell>>
      BY <1>3 DEF ResizeSurface
    <2>2. CASE UNCHANGED surface
      BY <1>2, <2>1, <2>2 DEF sidecarVars
    <2>3. CASE surface' # surface
      <3>1. PICK grid \in Grids :
              surface' = [surface EXCEPT ![e][q] = [surface[e][q] EXCEPT !.grid = grid]]
        BY <1>3, <2>3 DEF ResizeSurface
      <3>2. surface[e][q].by # 0
        BY <1>3, <2>3 DEF ResizeSurface
      <3>3. ASSUME NEW u \in Units PROVE SurfaceSame(u, p)
        <4> DEFINE cell == [surface[e][q] EXCEPT !.grid = grid]
        <4>1. surface'[u][p] = IF u = e /\ p = q THEN cell ELSE surface[u][p]
          BY <1>1, <3>1, CellChange
        <4>2. surface[u][p] \in S
          BY <1>1
        <4>3. CASE u = e /\ p = q
          <5>1. cell.by = surface[u][p].by /\ surface[u][p] # NoSurface
            BY <3>2, <4>2, <4>3 DEF NoSurface
          <5>. QED BY <4>1, <4>3, <5>1 DEF SurfaceSame
        <4>4. CASE ~(u = e /\ p = q)
          BY <4>1, <4>4 DEF SurfaceSame
        <4>. QED BY <4>3, <4>4
      <3>. QED BY <2>1, <3>3 DEF SidecarsSame, ShellSame
    <2>. QED BY <2>2, <2>3
  <1>4. CASE ResizeShell(t)
    <2>1. UNCHANGED <<bound, surface>> /\ (shell' = shell \/ shell' = Resized(t))
      BY <1>4 DEF ResizeShell
    <2>. QED BY <1>2, <2>1, ResizedSame DEF SidecarsSame, SurfaceSame, sidecarVars
  <1>5. CASE OpenShell(t) \/ FitShell(t) \/ Bind(t) \/ OpenSurface(t) \/ CloseSurface(t)
             \/ CloseShell(t)
    <2> DEFINE q == call[t].pane
    <2>1. call[t].at \in HoldingPoints
      BY <1>5 DEF OpenShell, FitShell, Bind, OpenSurface, CloseSurface, CloseShell, At,
                  HoldingPoints, OpeningPoints, ClosingPoints
    <2>2. p # q
      BY <2>1
    <2>3. bound'[p] = bound[p]
      BY <1>1, <1>5, <2>2 DEF OpenShell, FitShell, Bind, OpenSurface, CloseSurface, CloseShell
    <2>4. ASSUME NEW u \in Units PROVE SurfaceSame(u, p)
      <3>1. \/ UNCHANGED surface
            \/ \E e, c : surface' = [surface EXCEPT ![e][q] = c]
        BY <1>5 DEF OpenShell, FitShell, Bind, OpenSurface, CloseSurface, CloseShell
      <3>2. ASSUME NEW e, NEW c, surface' = [surface EXCEPT ![e][q] = c]
            PROVE  surface'[u][p] = surface[u][p]
        BY <1>1, <2>2, <3>2, CellChange
      <3>. QED BY <3>1, <3>2 DEF SurfaceSame
    <2>5. ASSUME NEW u \in Units PROVE ShellSame(u, p)
      <3>1. CASE shell' = Resized(t)
        BY <3>1, ResizedSame
      <3>2. CASE UNCHANGED shell \/ \E e, c : shell' = [shell EXCEPT ![e][q] = c]
        BY <1>1, <2>2, <3>2, CellChange DEF ShellSame
      <3>. QED BY <1>5, <3>1, <3>2
           DEF OpenShell, FitShell, Bind, OpenSurface, CloseSurface, CloseShell
    <2>. QED BY <2>3, <2>4, <2>5 DEF SidecarsSame
  <1>6. CASE Begin(t) \/ Verb(t)
    BY <1>2, <1>6 DEF Begin, Verb, BeginStart, BeginRemove, BeginEvent, BeginRestart, BeginStop,
                      BeginResize, BeginVerb
  <1>7. CASE StartUnits(t) \/ InstallStart(t) \/ StaleStart(t) \/ LockRestart(t) \/ SkipRestart(t)
             \/ LockClosing(t) \/ SkipClosing(t) \/ Detach(t) \/ NoteGrid(t)
    BY <1>2, <1>7 DEF StartUnits, InstallStart, StaleStart, LockRestart, SkipRestart, LockClosing,
                      SkipClosing, Detach, NoteGrid
  <1>8. CASE Rehydrate(t) \/ Measure(t) \/ Prepare(t) \/ Ensure(t)
    BY <1>2, <1>8 DEF Rehydrate, Measure, Prepare, Ensure
  <1>. QED BY <1>3, <1>4, <1>5, <1>6, <1>7, <1>8 DEF Step, Opening

\* The sessions of the records change with an opening alone.
LEMMA SessionStep ==
  ASSUME Typing, Locking, NEW t \in Callers, Begin(t) \/ Verb(t) \/ Step(t), NEW g \in Generations,
         call[t].at \in HoldingPoints => g # call[t].gen,
         \A p \in Panes : Installs(t, p) => g # call[t].named
  PROVE  record'[g].session = record[g].session
  <1>1. record \in [Generations -> Records] /\ record[g] \in Records
    BY DEF Typing, TypeOK
  <1>2. CASE Opening(t)
    <2>1. Opens(t)
      BY <1>2, OpeningStep
    <2>. QED BY <2>1 DEF Opens, HoldingPoints
  <1>3. CASE CloseSurface(t) \/ Detach(t) \/ CloseShell(t)
    BY <1>3, ClosingStep DEF Closing
  <1>4. CASE InstallStart(t) \/ LockRestart(t) \/ LockClosing(t)
    <2>1. PICK p \in Panes : Installs(t, p) \/ Reopens(t, p) \/ ToClose(t, p)
      BY <1>4, TakingStep DEF Taking
    <2>. QED BY <1>1, <2>1 DEF Installs, Reopens, ToClose, Records
  <1>5. CASE NoteGrid(t)
    BY <1>1, <1>5 DEF NoteGrid, Records
  <1>6. CASE Begin(t) \/ Verb(t)
    BY <1>6 DEF Begin, Verb, BeginStart, BeginRemove, BeginEvent, BeginRestart, BeginStop,
                BeginResize, BeginVerb, sessionsVars
  <1>7. CASE StartUnits(t) \/ StaleStart(t) \/ SkipRestart(t) \/ SkipClosing(t)
             \/ ResizeSurface(t) \/ ResizeShell(t)
    BY <1>7 DEF StartUnits, StaleStart, SkipRestart, SkipClosing, ResizeSurface, ResizeShell,
                sessionsVars
  <1>. QED BY <1>2, <1>3, <1>4, <1>5, <1>6, <1>7 DEF Step

-----------------------------------------------------------------------------
(* What is kept of a live pane, and of one being opened or closed *)

\* The answers of pty.open and Bind, which the rest of an opening builds on.
Fitted == {"fit", "ensure", "bind", "surface"}
OpeningHeld(t) == LET g == call[t].gen  p == call[t].pane IN
  /\ call[t].at \in Fitted =>
       RestartAwaits(p) \/ shell[Pty(g)][p].session = record[g].session
  /\ call[t].at = "surface" => bound[p] = Engine(g)

\* A removal that is past its first request has closed the surface.
ClosedFirst(t) ==
  call[t].at \in {"detach", "close"} => surface[Engine(call[t].gen)][call[t].pane] = NoSurface

BetweenCloses(p) == \E t \in Callers : call[t].at \in {"detach", "close"} /\ call[t].pane = p

SurfaceHeld(p) == LET g == panes[p] IN
  \/ surface[Engine(g)][p].by = g
  \/ BetweenCloses(p)
  \/ surface[Engine(g)][p] = NoSurface /\ g \in abandoned
ShellHeld(p) == LET g == panes[p] IN
  \/ shell[Pty(g)][p].session = record[g].session
  \/ shell[Pty(g)][p] = NoShell /\ g \in abandoned
LiveHeld(p) ==
  /\ panes[p] # 0 /\ record[panes[p]].phase = "live" /\ ~RestartAwaits(p)
  => SurfaceHeld(p) /\ ShellHeld(p) /\ bound[p] = Engine(panes[p])

\* The inductive invariant of LiveIsTruthful: what an opening has asked for stays
\* with the sidecars until its phase is live, and from then until a removal.
Truth ==
  /\ WorkListed
  /\ \A p \in Panes : LiveHeld(p)
  /\ \A t \in Callers : OpeningHeld(t) /\ ClosedFirst(t)

LEMMA InitTruth == Init => Truth
  BY InitWork DEF Init, Truth, LiveHeld, OpeningHeld, ClosedFirst, Idle, Fitted

\* Nothing of a pane changes but what a restart renews.
PaneKept(p) == LET g == panes[p] IN
  /\ panes'[p] = g
  /\ g # 0 =>
       /\ RestartAwaits(p) => RestartAwaits(p)'
       /\ record'[g].phase = record[g].phase /\ record'[g].session = record[g].session
       /\ source'[g] = source[g] /\ bound'[p] = bound[p]
       /\ \/ SurfaceSame(Engine(g), p) /\ ShellSame(Pty(g), p)
          \/ /\ RestartAwaits(p)'
             /\ surface[Engine(g)][p] = NoSurface => surface'[Engine(g)][p] = NoSurface

LEMMA LiveKept ==
  ASSUME NEW p \in Panes, LiveHeld(p), PaneKept(p), abandoned \subseteq abandoned',
         BetweenCloses(p) => BetweenCloses(p)'
  PROVE  LiveHeld(p)'
  <1> SUFFICES ASSUME panes'[p] # 0, record'[panes'[p]].phase = "live", ~RestartAwaits(p)'
               PROVE  /\ SurfaceHeld(p)' /\ ShellHeld(p)'
                      /\ bound'[p] = Engine(panes[p])'
    BY DEF LiveHeld
  <1> DEFINE g == panes[p]
  <1>1. /\ panes'[p] = g /\ g # 0 /\ record[g].phase = "live" /\ ~RestartAwaits(p)
        /\ Engine(g)' = Engine(g) /\ Pty(g)' = Pty(g)
        /\ bound'[p] = bound[p] /\ record'[g].session = record[g].session
        /\ SurfaceSame(Engine(g), p) /\ ShellSame(Pty(g), p)
    BY DEF PaneKept, Engine, Pty
  <1>2. SurfaceHeld(p) /\ ShellHeld(p) /\ bound[p] = Engine(g)
    BY <1>1 DEF LiveHeld
  <1>3. SurfaceHeld(p)'
    BY <1>1, <1>2 DEF SurfaceHeld, SurfaceSame, Engine
  <1>4. ShellHeld(p)'
    BY <1>1, <1>2 DEF ShellHeld, ShellSame, Pty
  <1>. QED BY <1>1, <1>2, <1>3, <1>4 DEF Engine

LEMMA WorkKept ==
  ASSUME Typing, Locking, NEW u \in Callers, OpeningHeld(u), ClosedFirst(u),
         call'[u] = call[u], call[u].at \in HoldingPoints => PaneKept(call[u].pane)
  PROVE  OpeningHeld(u)' /\ ClosedFirst(u)'
  <1> DEFINE g == call[u].gen
             p == call[u].pane
  <1>1. CASE call[u].at \in HoldingPoints
    <2>1. /\ panes[p] = g /\ g # 0 /\ PaneKept(p)
      BY <1>1 DEF Typing, FramesNameDeclared, FrameDeclared, Locking, LockGuardsRecord
    <2>2. /\ Engine(g)' = Engine(g) /\ Pty(g)' = Pty(g)
          /\ RestartAwaits(p) => RestartAwaits(p)'
          /\ record'[g].session = record[g].session /\ bound'[p] = bound[p]
          /\ ShellSame(Pty(g), p) \/ RestartAwaits(p)'
          /\ surface[Engine(g)][p] = NoSurface => surface'[Engine(g)][p] = NoSurface
      BY <2>1 DEF PaneKept, Engine, Pty, SurfaceSame
    <2>3. OpeningHeld(u)'
      <3>1. call[u].at \in Fitted =>
              RestartAwaits(p)' \/ shell'[Pty(g)][p].session = record'[g].session
        BY <2>2 DEF OpeningHeld, ShellSame
      <3>2. call[u].at = "surface" => bound'[p] = Engine(g)'
        BY <2>2 DEF OpeningHeld
      <3>. QED BY <2>2, <3>1, <3>2 DEF OpeningHeld, Pty, Engine
    <2>4. ClosedFirst(u)'
      BY <2>2 DEF ClosedFirst, Engine
    <2>. QED BY <2>3, <2>4
  <1>2. CASE call[u].at \notin HoldingPoints
    BY <1>2 DEF OpeningHeld, ClosedFirst, Fitted, HoldingPoints, OpeningPoints, ClosingPoints
  <1>. QED BY <1>1, <1>2

\* It is enough to look at the panes a goroutine works on, and at where it stands.
LEMMA TruthOfOwn ==
  ASSUME Typing, Locking, Truth, WorkListed', NEW t \in Callers, OthersUnchanged(t),
         NEW own \in SUBSET Panes,
         \A q \in Panes \ own : PaneKept(q),
         \A u \in Callers \ {t} : call[u].at \in HoldingPoints => call[u].pane \notin own,
         call[t].at \in HoldingPoints => call[t].pane \in own,
         abandoned \subseteq abandoned',
         \A p \in own : LiveHeld(p)',
         OpeningHeld(t)' /\ ClosedFirst(t)'
  PROVE  Truth'
  <1>1. \A u \in Callers : call[u].at \in HoldingPoints => call[u].pane \in Panes
    BY DEF Typing, FramesNameDeclared, FrameDeclared
  <1>2. ASSUME NEW q \in Panes \ own PROVE LiveHeld(q)'
    <2>1. BetweenCloses(q) => BetweenCloses(q)'
      BY DEF BetweenCloses, OthersUnchanged, HoldingPoints, ClosingPoints
    <2>. QED BY <2>1, LiveKept DEF Truth
  <1>3. ASSUME NEW u \in Callers \ {t} PROVE OpeningHeld(u)' /\ ClosedFirst(u)'
    BY <1>1, WorkKept DEF Truth, OthersUnchanged
  <1>. QED BY <1>2, <1>3 DEF Truth

LEMMA OpeningAnswers ==
  ASSUME Typing, Locking, Phasing, Truth, NEW t \in Callers, Opening(t),
         NEW p, p = call[t].pane, NEW g, g = call[t].gen, ~RestartAwaits(p)'
  PROVE  /\ call'[t].at \in Fitted => shell'[Pty(g)][p].session = record'[g].session
         /\ call'[t].at = "surface" => bound'[p] = Engine(g)
         /\ call'[t].at \notin OpeningPoints /\ record'[g].phase = "live" =>
              /\ surface'[Engine(g)][p].by = g /\ bound'[p] = Engine(g)
              /\ shell'[Pty(g)][p].session = record'[g].session
  <1> DEFINE K == [session : Nat, grid : Grids]
             S == [by : 0 .. MaxGeneration, grid : Grids]
             Answered ==
               /\ call'[t].at \in Fitted => shell'[Pty(g)][p].session = record'[g].session
               /\ call'[t].at = "surface" => bound'[p] = Engine(g)
               /\ call'[t].at \notin OpeningPoints /\ record'[g].phase = "live" =>
                    /\ surface'[Engine(g)][p].by = g /\ bound'[p] = Engine(g)
                    /\ shell'[Pty(g)][p].session = record'[g].session
  <1> SUFFICES Answered
    OBVIOUS
  <1>1. /\ call \in [Callers -> Frames] /\ call[t] \in Frames
        /\ record \in [Generations -> Records]
        /\ surface \in [Units -> [Panes -> S]] /\ shell \in [Units -> [Panes -> K]]
        /\ bound \in [Panes -> Units \cup {Unbound}]
    BY DEF Typing, TypeOK
  <1>2. /\ call[t].at \in OpeningPoints /\ call[t].at \in HoldingPoints
        /\ UNCHANGED panes
    BY OpeningStep DEF Opens, OpeningEnds, OpeningOn, SameWork, HoldingPoints
  <1>3. /\ g \in Generations /\ p \in Panes /\ panes[p] = g /\ g # 0
        /\ Engine(g) \in Units /\ Pty(g) \in Units
    <2>1. /\ g # 0 /\ g <= Len(source) /\ g \in 0 .. MaxGeneration /\ p \in Panes /\ panes[p] = g
      BY <1>1, <1>2 DEF Typing, FramesNameDeclared, FrameDeclared, Frames, Locking, LockGuardsRecord
    <2>2. source[g] \in Sources
      BY <2>1 DEF Typing, TypeOK
    <2>. QED BY <2>1, <2>2, SourcesAssumption DEF Generations, Engine, Pty
  <1>4. ~RestartAwaits(p)
    <2>1. ~Reopens(t, p)
      BY <1>2 DEF Reopens, Takes
    <2>2. Step(t) /\ WorkListed
      BY DEF Step, Truth
    <2>. QED BY <1>2, <1>3, <2>1, <2>2, AwaitsStep
  <1>5. /\ call[t].at \in Fitted => shell[Pty(g)][p].session = record[g].session
        /\ call[t].at = "surface" => bound[p] = Engine(g)
    BY <1>4 DEF Truth, OpeningHeld
  <1>6. ASSUME Block(t) PROVE Answered
    <2>1. call'[t].at \in {"idle", "lock"} /\ record'[g].phase = "blocked"
      BY <1>1, <1>3, <1>6, LeaveIdles DEF Block, Records
    <2>. QED BY <2>1 DEF Fitted
  <1>7. CASE Rehydrate(t) \/ Measure(t) \/ Prepare(t)
    <2>1. CASE Block(t)
      BY <1>6, <2>1
    <2>2. CASE ~Block(t)
      <3>1. call'[t].at \in {"measure", "prepare", "open"}
        BY <1>1, <1>7, <2>2 DEF Rehydrate, Measure, Prepare, Goto, Frames
      <3>. QED BY <3>1 DEF Fitted, OpeningPoints
    <2>. QED BY <2>1, <2>2
  <1>8. CASE OpenShell(t)
    <2>1. CASE Block(t)
      BY <1>6, <2>1
    <2>2. CASE ~Block(t)
      <3> DEFINE y == Pty(g)
                 created == shell[y][p].session = 0
                 session == IF created THEN spent.sessions + 1 ELSE shell[y][p].session
      <3>1. /\ record' = [record EXCEPT ![g].session = session, ![g].phase = "opened"]
            /\ \/ Goto(t, AfterOpen(t)) \/ Goto(t, "fit")
            /\ IF created
               THEN shell' = [shell EXCEPT ![y][p] = [session |-> session, grid |-> call[t].grid]]
               ELSE shell' = shell
        BY <1>8, <2>2 DEF OpenShell, Served
      <3> HIDE DEF session
      <3>2. record'[g].session = session
        BY <1>1, <1>3, <3>1 DEF Records
      <3>3. shell'[y][p].session = session
        <4>1. CASE created
          <5>1. shell'[y][p] = [session |-> session, grid |-> call[t].grid]
            BY <1>1, <1>3, <3>1, <4>1, CellChange
          <5>. QED BY <5>1
        <4>2. CASE ~created
          BY <3>1, <4>2 DEF session
        <4>. QED BY <4>1, <4>2
      <3>4. call'[t].at \in {"ensure", "bind", "fit"}
        BY <1>1, <3>1 DEF Goto, AfterOpen, Frames
      <3>. QED BY <3>2, <3>3, <3>4 DEF OpeningPoints
    <2>. QED BY <2>1, <2>2
  <1>9. CASE FitShell(t) \/ Ensure(t) \/ Bind(t)
    <2>1. CASE Block(t)
      BY <1>6, <2>1
    <2>2. CASE ~Block(t)
      <3>1. call[t].at \in Fitted /\ UNCHANGED record /\ (UNCHANGED shell \/ shell' = Resized(t))
        BY <1>9, <2>2 DEF FitShell, Ensure, Bind, At, Fitted, sidecarVars
      <3>2. shell'[Pty(g)][p].session = record'[g].session
        BY <1>3, <1>5, <3>1, ResizedSame DEF ShellSame
      <3>3. \/ call'[t].at \in {"ensure", "bind"}
            \/ call'[t].at = "surface" /\ bound' = [bound EXCEPT ![p] = Engine(g)]
        BY <1>1, <1>9, <2>2 DEF FitShell, Ensure, Bind, Goto, AfterOpen, Frames
      <3>. QED BY <1>1, <1>3, <3>2, <3>3 DEF OpeningPoints
    <2>. QED BY <2>1, <2>2
  <1>10. CASE OpenSurface(t)
    <2>1. CASE Block(t)
      BY <1>6, <2>1
    <2>2. CASE ~Block(t)
      <3>1. call[t].at = "surface" /\ UNCHANGED <<bound, shell>>
        BY <1>10 DEF OpenSurface, At
      <3>2. PICK grid \in Grids :
              /\ surface' = [surface EXCEPT ![Engine(g)][p] = [by |-> g, grid |-> grid]]
              /\ record' = [record EXCEPT ![g].grid = grid, ![g].phase = "live"]
              /\ Leave(t)
        BY <1>10, <2>2 DEF OpenSurface, Served
      <3>3. surface'[Engine(g)][p].by = g
        <4>1. surface'[Engine(g)][p] = [by |-> g, grid |-> grid]
          BY <1>1, <1>3, <3>2, CellChange
        <4>. QED BY <4>1
      <3>4. record'[g].session = record[g].session
        BY <1>1, <1>3, <3>2 DEF Records
      <3>5. call'[t].at \notin Fitted
        BY <1>3, <3>2, LeaveIdles DEF Fitted
      <3>6. shell[Pty(g)][p].session = record[g].session /\ bound[p] = Engine(g)
        BY <1>5, <3>1 DEF Fitted
      <3>. QED BY <3>1, <3>3, <3>4, <3>5, <3>6 DEF Fitted
    <2>. QED BY <2>1, <2>2
  <1>. QED BY <1>7, <1>8, <1>9, <1>10 DEF Opening

\* What a goroutine does not work on, it keeps.
LEMMA OthersKept ==
  ASSUME Typing, Locking, Phasing, Truth, NEW t \in Callers, Begin(t) \/ Verb(t) \/ Step(t),
         NEW p \in Panes, NEW g, source[g].pane = p,
         call[t].at \in HoldingPoints => p = call[t].pane /\ g = call[t].gen,
         \A q \in Panes : Installs(t, q) => q = p /\ g = call[t].named,
         \A q \in Panes : Reopens(t, q) => q = p,
         \A h \in Generations \ {g} : RecordKept(h),
         NEW q \in Panes \ {p}, panes'[q] = panes[q]
  PROVE  PaneKept(q)
  <1> SUFFICES ASSUME NEW h, h = panes[q], h # 0 PROVE PaneKept(q)
    BY DEF PaneKept
  <1>1. /\ h \in Generations \ {g} /\ h <= Len(source)
        /\ Engine(h) \in Units /\ Pty(h) \in Units
    <2>1. h \in Generations /\ h <= Len(source) /\ source[h].pane = q
      BY DEF Typing, TypeOK, FramesNameDeclared, Generations, Phasing, RecordsOwned
    <2>2. source[h] \in Sources
      BY <2>1 DEF Typing, TypeOK, Generations
    <2>. QED BY <2>1, <2>2, SourcesAssumption DEF Engine, Pty
  <1>2. RestartAwaits(q) => RestartAwaits(q)'
    BY AwaitsStep DEF Truth
  <1>3. record'[h].phase = record[h].phase /\ record'[h].session = record[h].session
    BY <1>1, SessionStep DEF RecordKept
  <1>4. UNCHANGED source
    BY EventStep
  <1>5. SidecarsSame(q)
    BY SidecarStep
  <1>. QED BY <1>1, <1>2, <1>3, <1>4, <1>5 DEF PaneKept, SidecarsSame

\* Nothing that has failed half way is forgotten.
LEMMA AbandonedStep ==
  ASSUME NEW t \in Callers, Begin(t) \/ Verb(t) \/ Step(t)
  PROVE  /\ abandoned \subseteq abandoned'
         /\ UNCHANGED abandoned \/ CloseSurface(t) \/ Detach(t) \/ CloseShell(t)
  <1>1. CASE Begin(t) \/ Verb(t)
    BY <1>1 DEF Begin, Verb, BeginStart, BeginRemove, BeginEvent, BeginRestart, BeginStop,
                BeginResize, BeginVerb
  <1>2. CASE Opening(t)
    BY <1>2 DEF Opening, Rehydrate, Measure, Prepare, OpenShell, FitShell, Ensure, Bind, OpenSurface
  <1>3. CASE CloseSurface(t) \/ Detach(t) \/ CloseShell(t)
    BY <1>3 DEF CloseSurface, Detach, CloseShell, Abandon, Drop
  <1>4. CASE \/ StartUnits(t) \/ InstallStart(t) \/ StaleStart(t) \/ LockRestart(t)
             \/ SkipRestart(t) \/ LockClosing(t) \/ SkipClosing(t) \/ ResizeSurface(t)
             \/ ResizeShell(t) \/ NoteGrid(t)
    BY <1>4 DEF StartUnits, InstallStart, StaleStart, LockRestart, SkipRestart, LockClosing,
                SkipClosing, ResizeSurface, ResizeShell, NoteGrid
  <1>. QED BY <1>1, <1>2, <1>3, <1>4 DEF Step

LEMMA OwnPane ==
  ASSUME Typing, Locking, Phasing, NEW t \in Callers, call[t].at \in HoldingPoints
  PROVE  /\ call[t].pane \in Panes /\ panes[call[t].pane] = call[t].gen
         /\ lock[call[t].pane] = t
         /\ call[t].gen \in Generations /\ call[t].gen # 0
         /\ source[call[t].gen].pane = call[t].pane
         /\ Engine(call[t].gen) \in Units /\ Pty(call[t].gen) \in Units
         /\ \A u \in Callers \ {t} :
              call[u].at \in HoldingPoints => call[u].pane # call[t].pane
  <1> DEFINE g == call[t].gen
  <1>1. /\ g # 0 /\ g <= Len(source) /\ g \in 0 .. MaxGeneration /\ call[t].pane \in Panes
        /\ panes[call[t].pane] = g /\ lock[call[t].pane] = t
    BY DEF Typing, TypeOK, FramesNameDeclared, FrameDeclared, Frames, Locking, LockGuardsRecord
  <1>2. source[g] \in Sources
    BY <1>1 DEF Typing, TypeOK
  <1>3. source[g].pane = call[t].pane
    BY <1>1 DEF Phasing, RecordsOwned
  <1>. QED BY <1>1, <1>2, <1>3, SourcesAssumption
       DEF Generations, Engine, Pty, Locking, LockGuardsRecord

LEMMA OpeningTruth ==
  ASSUME Typing, Locking, Phasing, Truth, WorkListed', NEW t \in Callers, Opening(t)
  PROVE  Truth'
  <1> SUFFICES ASSUME NEW p, p = call[t].pane, NEW g, g = call[t].gen PROVE Truth'
    OBVIOUS
  <1>1. /\ Opens(t) /\ call[t].at \in OpeningPoints /\ call[t].at \in HoldingPoints
        /\ UNCHANGED panes /\ \A h \in Generations \ {g} : RecordKept(h)
    BY OpeningStep DEF Opens, OpeningEnds, OpeningOn, SameWork, RecordKept, HoldingPoints
  <1>2. /\ p \in Panes /\ panes[p] = g /\ g # 0 /\ source[g].pane = p
        /\ \A u \in Callers \ {t} : call[u].at \in HoldingPoints => call[u].pane # p
        /\ record[g].phase \in Unsettled
    BY <1>1, OwnPane DEF Phasing, PhaseOfPoint
  <1>3. Step(t) /\ OthersUnchanged(t) /\ UNCHANGED source
    BY EventStep DEF Step
  <1>4. \A q \in Panes \ {p} : PaneKept(q)
    BY <1>1, <1>2, <1>3, OthersKept DEF Installs, Reopens, Takes
  <1>5. abandoned \subseteq abandoned'
    BY <1>3, AbandonedStep
  <1>6. \/ call'[t].at \in {"idle", "lock"}
        \/ /\ call'[t].at \in OpeningPoints /\ call'[t].gen = g /\ call'[t].pane = p
           /\ record'[g].phase \in Unsettled
    BY <1>1, <1>2, LeaveIdles DEF Opens, OpeningEnds, OpeningOn, SameWork
  <1>7. ~RestartAwaits(p)' =>
          /\ call'[t].at \in Fitted => shell'[Pty(g)][p].session = record'[g].session
          /\ call'[t].at \notin OpeningPoints /\ record'[g].phase = "live" =>
               /\ surface'[Engine(g)][p].by = g /\ bound'[p] = Engine(g)
               /\ shell'[Pty(g)][p].session = record'[g].session
    BY OpeningAnswers
  <1>8. LiveHeld(p)'
    <2>1. /\ Engine(g)' = Engine(g) /\ Pty(g)' = Pty(g) /\ panes'[p] = g
      BY <1>1, <1>2, <1>3 DEF Engine, Pty
    <2>2. record'[g].phase = "live" => call'[t].at \notin OpeningPoints
      BY <1>6, PointsApart DEF Unsettled, HoldingPoints
    <2>. QED BY <1>7, <2>1, <2>2 DEF LiveHeld, SurfaceHeld, ShellHeld, Engine, Pty
  <1>9. OpeningHeld(t)'
    <2>1. call'[t].at = "surface" => bound'[p] = Engine(g)
      <3>1. CASE Bind(t)
        BY <1>2, <3>1 DEF Bind, Typing, TypeOK
      <3>2. CASE Rehydrate(t) \/ Measure(t) \/ Prepare(t) \/ OpenShell(t) \/ FitShell(t)
                 \/ Ensure(t) \/ OpenSurface(t)
        <4>1. call \in [Callers -> Frames] /\ call[t] \in Frames
          BY DEF Typing, TypeOK
        <4>2. CASE Leave(t)
          BY <1>2, <4>2, LeaveIdles
        <4>3. CASE ~Leave(t)
          <5>1. ~Block(t)
            BY <4>3 DEF Block
          <5>2. CASE Rehydrate(t) \/ Measure(t)
            BY <4>1, <5>1, <5>2 DEF Rehydrate, Measure, Frames
          <5>3. CASE ~Rehydrate(t) /\ ~Measure(t)
            <6>1. \E at \in {"open", "fit", "ensure", "bind"} : Goto(t, at)
              BY <3>2, <4>3, <5>1, <5>3
              DEF Prepare, OpenShell, FitShell, Ensure, OpenSurface, AfterOpen
            <6>. QED BY <4>1, <6>1 DEF Goto, Frames
          <5>. QED BY <5>2, <5>3
        <4>. QED BY <4>2, <4>3
      <3>. QED BY <3>1, <3>2 DEF Opening
    <2>. QED BY <1>3, <1>6, <1>7, <2>1 DEF OpeningHeld, Fitted, Engine, Pty
  <1>10. ClosedFirst(t)'
    BY <1>6 DEF ClosedFirst, OpeningPoints
  <1>. QED
    <2>1. call[t].at \in HoldingPoints => call[t].pane \in {p}
      OBVIOUS
    <2>. QED BY <1>2, <1>3, <1>4, <1>5, <1>8, <1>9, <1>10, <2>1, TruthOfOwn

\* A surface or a shell that a request closes, or would have closed.
LEMMA ClosedCell ==
  ASSUME Typing, Locking, Phasing, NEW t \in Callers, NEW p, p = call[t].pane, NEW g, g = call[t].gen,
         CloseSurface(t) \/ Detach(t) \/ CloseShell(t)
  PROVE  /\ \/ surface'[Engine(g)][p] = surface[Engine(g)][p]
            \/ CloseSurface(t) /\ surface'[Engine(g)][p] = NoSurface
         /\ \/ shell'[Pty(g)][p] = shell[Pty(g)][p]
            \/ CloseShell(t) /\ shell'[Pty(g)][p] = NoShell
         /\ UNCHANGED <<record, bound>>
         /\ CloseSurface(t) /\ ~Abandon(t) => surface'[Engine(g)][p] = NoSurface
  <1>1. /\ surface \in [Units -> [Panes -> [by : 0 .. MaxGeneration, grid : Grids]]]
        /\ shell \in [Units -> [Panes -> [session : Nat, grid : Grids]]]
    BY DEF Typing, TypeOK
  <1>2. p \in Panes /\ Engine(g) \in Units /\ Pty(g) \in Units
    BY OwnPane DEF CloseSurface, Detach, CloseShell, At, HoldingPoints, ClosingPoints
  <1>3. CASE CloseSurface(t)
    <2>1. UNCHANGED <<record, bound, shell>>
      BY <1>3 DEF CloseSurface
    <2>2. CASE surface' = [surface EXCEPT ![Engine(g)][p] = NoSurface]
      BY <1>1, <1>2, <1>3, <2>1, <2>2, CellChange
    <2>3. CASE UNCHANGED surface /\ Abandon(t)
      BY <1>3, <2>1, <2>3
    <2>4. \/ surface' = [surface EXCEPT ![Engine(g)][p] = NoSurface]
          \/ UNCHANGED surface /\ Abandon(t)
      BY <1>3 DEF CloseSurface, Served
    <2>. QED BY <2>2, <2>3, <2>4
  <1>4. CASE Detach(t)
    <2>1. call[t].at = "detach" /\ UNCHANGED <<record, bound, shell, surface>>
      BY <1>4 DEF Detach, At, sidecarVars
    <2>. QED BY <2>1 DEF CloseSurface, At
  <1>5. CASE CloseShell(t)
    <2>1. call[t].at = "close" /\ UNCHANGED <<record, bound, surface>>
      BY <1>5 DEF CloseShell, At
    <2>2. UNCHANGED shell \/ shell' = [shell EXCEPT ![Pty(g)][p] = NoShell]
      BY <1>5 DEF CloseShell
    <2>. QED BY <1>1, <1>2, <1>5, <2>1, <2>2, CellChange DEF CloseSurface, At
  <1>. QED BY <1>3, <1>4, <1>5

LEMMA ClosingTruth ==
  ASSUME Typing, Locking, Phasing, Truth, WorkListed', NEW t \in Callers,
         CloseSurface(t) \/ Detach(t) \/ CloseShell(t)
  PROVE  Truth'
  <1> SUFFICES ASSUME NEW p, p = call[t].pane, NEW g, g = call[t].gen PROVE Truth'
    OBVIOUS
  <1>1. /\ Closing(t) /\ call[t].at \in ClosingPoints /\ call[t].at \in HoldingPoints
        /\ UNCHANGED record /\ \A h \in Generations : RecordKept(h)
        /\ \A q \in Panes \ {p} : panes'[q] = panes[q]
    BY ClosingStep DEF Closing, ClosingEnds, ClosingOn, SameWork, RecordKept, HoldingPoints,
                       Typing, TypeOK
  <1>2. /\ p \in Panes /\ panes[p] = g /\ g # 0 /\ source[g].pane = p
        /\ \A u \in Callers \ {t} : call[u].at \in HoldingPoints => call[u].pane # p
        /\ panes \in [Panes -> 0 .. MaxGeneration] /\ call \in [Callers -> Frames] /\ call[t] \in Frames
    BY <1>1, OwnPane DEF Typing, TypeOK
  <1>3. Step(t) /\ OthersUnchanged(t) /\ UNCHANGED source
    BY EventStep DEF Step
  <1>4. \A q \in Panes \ {p} : PaneKept(q)
    BY <1>1, <1>2, <1>3, OthersKept DEF Installs, Reopens, Takes
  <1>5. abandoned \subseteq abandoned'
    BY <1>3, AbandonedStep
  <1>6. Engine(g)' = Engine(g) /\ Pty(g)' = Pty(g)
    BY <1>3 DEF Engine, Pty
  <1>7. /\ \/ Abandon(t) /\ g \in abandoned' /\ UNCHANGED panes /\ call'[t].at \in {"idle", "lock"}
           \/ panes'[p] = 0 /\ call'[t].at \in {"idle", "lock"}
           \/ /\ UNCHANGED panes /\ ~Abandon(t)
              /\ call'[t].pane = p /\ call'[t].gen = g
              /\ \/ call[t].at = "closeSurface" /\ call'[t].at = "detach" /\ CloseSurface(t)
                 \/ call[t].at = "detach" /\ call'[t].at = "close" /\ Detach(t)
    <2>1. CASE Abandon(t)
      BY <1>2, <2>1, LeaveIdles DEF Abandon
    <2>2. CASE Drop(t)
      <3>1. panes'[p] = 0 /\ Leave(t)
        BY <1>2, <2>2 DEF Drop
      <3>. QED BY <1>2, <3>1, LeaveIdles
    <2>3. CASE ~Abandon(t) /\ ~Drop(t)
      <3>1. \/ call[t].at = "closeSurface" /\ Goto(t, "detach") /\ CloseSurface(t)
            \/ call[t].at = "detach" /\ Goto(t, "close") /\ Detach(t)
        BY <2>3 DEF CloseSurface, Detach, CloseShell, At
      <3>2. UNCHANGED panes
        BY <2>3 DEF CloseSurface, Detach, CloseShell
      <3>. QED BY <1>2, <2>3, <3>1, <3>2 DEF Goto, Frames
    <2>. QED BY <2>1, <2>2, <2>3
  <1>8. /\ \/ surface'[Engine(g)][p] = surface[Engine(g)][p]
           \/ CloseSurface(t) /\ surface'[Engine(g)][p] = NoSurface
        /\ \/ shell'[Pty(g)][p] = shell[Pty(g)][p]
           \/ CloseShell(t) /\ shell'[Pty(g)][p] = NoShell
        /\ UNCHANGED <<record, bound>>
        /\ CloseSurface(t) /\ ~Abandon(t) => surface'[Engine(g)][p] = NoSurface
    BY ClosedCell
  <1>9. ClosedFirst(t)'
    <2>1. call[t].at = "detach" => surface[Engine(g)][p] = NoSurface
      BY DEF Truth, ClosedFirst
    <2>2. call'[t].at \in {"detach", "close"} =>
            /\ call'[t].pane = p /\ call'[t].gen = g
            /\ surface'[Engine(g)][p] = NoSurface
      BY <1>7, <1>8, <2>1
    <2>. QED BY <1>3, <2>2 DEF ClosedFirst, Engine
  <1>10. OpeningHeld(t)'
    BY <1>7 DEF OpeningHeld, Fitted
  <1>11. LiveHeld(p)'
    <2> SUFFICES ASSUME panes'[p] # 0, record'[panes'[p]].phase = "live", ~RestartAwaits(p)'
                 PROVE  SurfaceHeld(p)' /\ ShellHeld(p)' /\ bound'[p] = Engine(panes[p])'
      BY DEF LiveHeld
    <2>1. UNCHANGED panes /\ panes'[p] = g /\ record[g].phase = "live"
      BY <1>2, <1>7, <1>8
    <2>2. ~RestartAwaits(p)
      <3>1. ~Reopens(t, p) /\ WorkListed
        BY <1>1 DEF Reopens, Takes, Truth
      <3>. QED BY <1>2, <1>3, <2>1, <3>1, AwaitsStep
    <2>3. SurfaceHeld(p) /\ ShellHeld(p) /\ bound[p] = Engine(g)
      BY <1>2, <2>1, <2>2 DEF Truth, LiveHeld
    <2>4. ~CloseSurface(t) => surface[Engine(g)][p] = NoSurface
      BY <1>1 DEF Truth, ClosedFirst, Detach, CloseShell, At
    <2>5. SurfaceHeld(p)'
      <3>1. CASE BetweenCloses(p)'
        BY <3>1 DEF SurfaceHeld
      <3>2. CASE Abandon(t) /\ g \in abandoned'
        <4>1. \/ surface'[Engine(g)][p] = NoSurface
              \/ surface'[Engine(g)][p] = surface[Engine(g)][p] /\ CloseSurface(t)
          BY <1>8, <2>4
        <4>2. CASE surface'[Engine(g)][p] = NoSurface
          BY <1>6, <2>1, <3>2, <4>2 DEF SurfaceHeld, Engine
        <4>3. CASE surface'[Engine(g)][p] = surface[Engine(g)][p] /\ CloseSurface(t)
          <5>1. ~BetweenCloses(p)
            BY <1>2, <4>3 DEF BetweenCloses, CloseSurface, At, HoldingPoints, ClosingPoints
          <5>2. surface[Engine(g)][p].by = g \/ surface[Engine(g)][p] = NoSurface
            BY <1>2, <2>3, <5>1 DEF SurfaceHeld
          <5>. QED BY <1>3, <2>1, <3>2, <4>3, <5>2 DEF SurfaceHeld, Engine
        <4>. QED BY <4>1, <4>2, <4>3
      <3>3. CASE call'[t].at \in {"detach", "close"} /\ call'[t].pane = p
        BY <3>1, <3>3 DEF BetweenCloses
      <3>. QED BY <1>2, <1>7, <2>1, <3>2, <3>3
    <2>6. ShellHeld(p)'
      <3>1. CASE shell'[Pty(g)][p] = shell[Pty(g)][p]
        BY <1>2, <1>3, <1>5, <1>8, <2>1, <2>3, <3>1 DEF ShellHeld, Pty
      <3>2. CASE CloseShell(t) /\ shell'[Pty(g)][p] = NoShell
        <4>1. g \in abandoned'
          BY <1>2, <1>7, <2>1, <3>2 DEF CloseShell, At
        <4>. QED BY <1>3, <2>1, <3>2, <4>1 DEF ShellHeld, Pty
      <3>. QED BY <1>8, <3>1, <3>2
    <2>. QED BY <1>6, <1>8, <2>1, <2>3, <2>5, <2>6 DEF Engine
  <1>. QED
    <2>1. /\ call[t].at \in HoldingPoints => call[t].pane \in {p}
          /\ \A u \in Callers \ {t} : call[u].at \in HoldingPoints => call[u].pane \notin {p}
          /\ {p} \in SUBSET Panes /\ \A q \in {p} : LiveHeld(q)'
      BY <1>2, <1>11
    <2>. QED BY <1>3, <1>4, <1>5, <1>9, <1>10, <2>1, TruthOfOwn

LEMMA TakingTruth ==
  ASSUME Typing, Locking, Phasing, Truth, WorkListed', NEW t \in Callers,
         InstallStart(t) \/ LockRestart(t) \/ LockClosing(t)
  PROVE  Truth'
  <1>1. PICK p \in Panes : Installs(t, p) \/ Reopens(t, p) \/ ToClose(t, p)
    BY TakingStep DEF Taking
  <1>2. PICK g : g = panes'[p]
    OBVIOUS
  <1>3. /\ panes \in [Panes -> 0 .. MaxGeneration] /\ record \in [Generations -> Records]
        /\ lock[p] = Free /\ OthersUnchanged(t) /\ call[t].at \notin HoldingPoints
        /\ call'[t].pane = p /\ call'[t].gen = g
        /\ \A q \in Panes \ {p} : panes'[q] = panes[q]
        /\ call'[t].at \in {"rehydrate", "closeSurface"}
    BY <1>1, <1>2 DEF Typing, TypeOK, Installs, Reopens, ToClose, Takes
  <1>4. Step(t) /\ UNCHANGED source
    BY EventStep DEF Step
  <1>5. /\ source[g].pane = p /\ g \in Generations
        /\ Installs(t, p) => g = call[t].named
    <2>1. CASE Installs(t, p)
      <3>1. g = call[t].named /\ call[t].op = "start" /\ call[t].pane = p
        BY <1>2, <1>3, <2>1 DEF Installs
      <3>2. g # 0 /\ source[g].pane = p
        BY <3>1 DEF Phasing, RecordsOwned
      <3>3. call[t].named \in 0 .. MaxGeneration
        BY DEF Typing, TypeOK, Frames
      <3>. QED BY <3>1, <3>2, <3>3 DEF Generations
    <2>2. CASE ~Installs(t, p)
      BY <1>1, <1>2, <1>3, <2>2 DEF Reopens, ToClose, Phasing, RecordsOwned, Generations
    <2>. QED BY <2>1, <2>2
  <1>6. \A u \in Callers \ {t} : call[u].at \in HoldingPoints => call[u].pane # p
    BY <1>3, CallersAssumption DEF Locking, LockGuardsRecord
  <1>7. \A h \in Generations \ {g} : RecordKept(h)
    BY <1>1, <1>2, <1>3, <1>5 DEF Installs, Reopens, ToClose, RecordKept
  <1>8. \A q \in Panes : (Installs(t, q) \/ Reopens(t, q)) => q = p
    BY <1>3 DEF Installs, Reopens, Takes
  <1>9. \A q \in Panes \ {p} : PaneKept(q)
    BY <1>3, <1>4, <1>5, <1>7, <1>8, OthersKept
  <1>10. UNCHANGED <<sidecarVars, abandoned>>
    BY DEF InstallStart, LockRestart, LockClosing
  <1>11. LiveHeld(p)'
    <2>1. CASE Installs(t, p) \/ Reopens(t, p)
      <3>1. record'[g].phase = "opening"
        BY <1>2, <1>3, <1>5, <2>1 DEF Installs, Reopens, NewRecord, Records
      <3>. QED BY <1>2, <3>1 DEF LiveHeld
    <2>2. CASE ToClose(t, p) /\ ~Reopens(t, p)
      <3>1. /\ UNCHANGED <<panes, record, source, sidecarVars>> /\ panes[p] = g /\ g # 0
        BY <1>2, <1>4, <1>10, <2>2 DEF ToClose
      <3>2. RestartAwaits(p) => RestartAwaits(p)'
        BY <1>4, <2>2, <3>1, AwaitsStep DEF Truth
      <3>3. PaneKept(p)
        BY <3>1, <3>2 DEF PaneKept, SurfaceSame, ShellSame, sidecarVars
      <3>4. BetweenCloses(p) => BetweenCloses(p)'
        BY <1>3, <1>6 DEF BetweenCloses, HoldingPoints, ClosingPoints
      <3>. QED BY <1>10, <3>3, <3>4, LiveKept DEF Truth
    <2>. QED BY <1>1, <2>1, <2>2
  <1>12. OpeningHeld(t)' /\ ClosedFirst(t)'
    BY <1>3 DEF OpeningHeld, ClosedFirst, Fitted
  <1>. QED
    <2>1. /\ {p} \in SUBSET Panes /\ \A q \in {p} : LiveHeld(q)'
          /\ \A u \in Callers \ {t} : call[u].at \in HoldingPoints => call[u].pane \notin {p}
      BY <1>6, <1>11
    <2>. QED BY <1>3, <1>9, <1>10, <1>12, <2>1, TruthOfOwn

LEMMA OutsideTruth ==
  ASSUME Typing, Locking, Phasing, Truth, WorkListed', NEW t \in Callers,
         \/ Begin(t) \/ Verb(t) \/ StartUnits(t) \/ StaleStart(t) \/ SkipRestart(t)
         \/ SkipClosing(t) \/ ResizeSurface(t) \/ ResizeShell(t) \/ NoteGrid(t)
  PROVE  Truth'
  <1>1. Outside(t) /\ (Begin(t) \/ Verb(t) \/ Step(t)) /\ UNCHANGED source
    BY OutsideStep, EventStep DEF Step
  <1>2. /\ UNCHANGED panes /\ OthersUnchanged(t)
        /\ call[t].at \notin HoldingPoints /\ call'[t].at \notin HoldingPoints
        /\ \A g \in Generations : RecordKept(g)
        /\ \A q \in Panes : ~Installs(t, q) /\ ~Reopens(t, q)
    BY <1>1 DEF Outside, Installs, Reopens, HoldingPoints, OpeningPoints
  <1>3. ASSUME NEW q \in Panes PROVE PaneKept(q)
    <2> SUFFICES ASSUME NEW h, h = panes[q], h # 0 PROVE PaneKept(q)
      BY <1>2 DEF PaneKept
    <2>1. /\ h \in Generations /\ Engine(h) \in Units /\ Pty(h) \in Units
      <3>1. h \in Generations /\ h <= Len(source)
        BY DEF Typing, TypeOK, FramesNameDeclared, Generations
      <3>2. source[h] \in Sources
        BY <3>1 DEF Typing, TypeOK, Generations
      <3>. QED BY <3>1, <3>2, SourcesAssumption DEF Engine, Pty
    <2>2. RestartAwaits(q) => RestartAwaits(q)'
      BY <1>1, <1>2, AwaitsStep DEF Truth
    <2>3. record'[h].phase = record[h].phase /\ record'[h].session = record[h].session
      BY <1>1, <1>2, <2>1, SessionStep DEF RecordKept
    <2>4. SidecarsSame(q)
      BY <1>1, <1>2, SidecarStep
    <2>. QED BY <1>1, <1>2, <2>1, <2>2, <2>3, <2>4 DEF PaneKept, SidecarsSame
  <1>4. abandoned \subseteq abandoned'
    BY <1>1, AbandonedStep
  <1>5. OpeningHeld(t)' /\ ClosedFirst(t)'
    BY <1>2 DEF OpeningHeld, ClosedFirst, Fitted, HoldingPoints, OpeningPoints, ClosingPoints
  <1>6. {} \in SUBSET Panes
    OBVIOUS
  <1>. QED BY <1>2, <1>3, <1>4, <1>5, <1>6, TruthOfOwn

LEMMA WorldTruth ==
  ASSUME Typing, Locking, Phasing, Truth, WorkListed', World
  PROVE  Truth'
  <1>1. /\ UNCHANGED <<panes, record, call, bound, abandoned>>
        /\ \A g \in Generations : g <= Len(source) => source'[g] = source[g]
    BY WorldStep DEF World, Declare, Move, Undeclare, Crash, sidecarVars
  <1>2. ASSUME NEW q \in Panes PROVE PaneKept(q)
    <2> SUFFICES ASSUME NEW h, h = panes[q], h # 0 PROVE PaneKept(q)
      BY <1>1 DEF PaneKept
    <2>1. h \in Generations /\ h <= Len(source) /\ source'[h] = source[h]
      BY <1>1 DEF Typing, TypeOK, FramesNameDeclared, Generations
    <2>2. /\ Engine(h) \in Units /\ Pty(h) \in Units
          /\ Engine(h)' = Engine(h) /\ Pty(h)' = Pty(h)
      <3>1. source[h] \in Sources
        BY <2>1 DEF Typing, TypeOK, Generations
      <3>. QED BY <2>1, <3>1, SourcesAssumption DEF Engine, Pty
    <2>3. due \subseteq due'
      BY DEF World, Declare, Move, Undeclare, Crash
    <2>4. /\ Engine(panes[q])' = Engine(panes[q]) /\ Pty(panes[q])' = Pty(panes[q])
          /\ \A u : DependsOn(panes[q], u)' <=> DependsOn(panes[q], u)
      BY <1>1, <2>1 DEF Engine, Pty, DependsOn
    <2>5. RestartAwaits(q) => RestartAwaits(q)'
      <3>1. CASE {Engine(panes[q]), Pty(panes[q])} \cap due # {}
        BY <2>3, <2>4, <3>1 DEF RestartAwaits
      <3>2. ASSUME NEW c \in Callers, q \in call[c].todo, DependsOn(panes[q], call[c].unit)
            PROVE  RestartAwaits(q)'
        BY <1>1, <2>1, <3>2 DEF RestartAwaits, DependsOn, Engine, Pty
      <3>. QED BY <3>1, <3>2 DEF RestartAwaits
    <2>6. \/ SurfaceSame(Engine(h), q) /\ ShellSame(Pty(h), q)
          \/ /\ RestartAwaits(q)'
             /\ surface[Engine(h)][q] = NoSurface => surface'[Engine(h)][q] = NoSurface
      <3>1. CASE UNCHANGED <<surface, shell>>
        BY <3>1 DEF SurfaceSame, ShellSame
      <3>2. ASSUME NEW u \in Units, Crash(u) PROVE <2>6
        <4>1. /\ surface' = [surface EXCEPT ![u] = [p \in Panes |-> NoSurface]]
              /\ shell' = [shell EXCEPT ![u] = [p \in Panes |-> NoShell]]
              /\ u \in due'
              /\ surface \in [Units -> [Panes -> [by : 0 .. MaxGeneration, grid : Grids]]]
              /\ shell \in [Units -> [Panes -> [session : Nat, grid : Grids]]]
          BY <3>2 DEF Crash, Typing, TypeOK
        <4>2. surface[Engine(h)][q] = NoSurface => surface'[Engine(h)][q] = NoSurface
          BY <2>2, <4>1
        <4>3. CASE u \in {Engine(h), Pty(h)}
          BY <1>1, <2>2, <4>1, <4>2, <4>3 DEF RestartAwaits
        <4>4. CASE u \notin {Engine(h), Pty(h)}
          BY <2>2, <4>1, <4>4 DEF SurfaceSame, ShellSame
        <4>. QED BY <4>3, <4>4
      <3>. QED BY <3>1, <3>2 DEF World, Declare, Move, Undeclare, sidecarVars
    <2>. QED BY <1>1, <2>1, <2>5, <2>6 DEF PaneKept
  <1>3. \A p \in Panes : LiveHeld(p)'
    BY <1>1, <1>2, LiveKept DEF Truth, BetweenCloses
  <1>4. \A t \in Callers : OpeningHeld(t)' /\ ClosedFirst(t)'
    <2>1. \A t \in Callers : call[t].at \in HoldingPoints => call[t].pane \in Panes
      BY OwnPane
    <2>. QED BY <1>1, <1>2, <2>1, WorkKept DEF Truth
  <1>. QED BY <1>3, <1>4 DEF Truth

LEMMA NextTruth == Typing /\ Locking /\ Phasing /\ Truth /\ [Next]_vars => Truth'
  <1> SUFFICES ASSUME Typing, Locking, Phasing, Truth, [Next]_vars PROVE Truth'
    OBVIOUS
  <1>1. WorkListed'
    BY NextWork DEF Truth
  <1>2. CASE UNCHANGED vars
    BY <1>2 DEF vars, Truth, WorkListed, LiveHeld, SurfaceHeld, ShellHeld, BetweenCloses,
                OpeningHeld, ClosedFirst, RestartAwaits, DependsOn, Engine, Pty
  <1>3. ASSUME NEW t \in Callers, Begin(t) \/ Verb(t) \/ Step(t) PROVE Truth'
    BY <1>1, <1>3, OutsideTruth, TakingTruth, OpeningTruth, ClosingTruth DEF Step
  <1>. QED BY <1>1, <1>2, <1>3, WorldTruth DEF Next, Rest

LEMMA TruthInvariant == Spec => [](Typing /\ Locking /\ Phasing /\ Truth)
  BY PhasingInvariant, InitTruth, NextTruth, PTL DEF Spec

\* What Status calls live is so: the surface, the session and the expected engine
\* are what the opening settled, unless a restart is to come or a removal failed
\* half way; however calls cross and processes are replaced (pane.go:216-276,
\* 393-475).
THEOREM LiveIsTrue == Spec => []LiveIsTruthful
  <1>1. Typing /\ Locking /\ Phasing /\ Truth => LiveIsTruthful
    <2> SUFFICES ASSUME Typing, Locking, Truth, NEW p \in Panes,
                        panes[p] # 0, lock[p] = Free, record[panes[p]].phase = "live",
                        ~RestartAwaits(p)
                 PROVE  /\ \/ surface[Engine(panes[p])][p].by = panes[p]
                           \/ surface[Engine(panes[p])][p] = NoSurface /\ panes[p] \in abandoned
                        /\ \/ shell[Pty(panes[p])][p].session = record[panes[p]].session
                           \/ shell[Pty(panes[p])][p] = NoShell /\ panes[p] \in abandoned
                        /\ bound[p] = Engine(panes[p])
      BY DEF LiveIsTruthful
    <2>1. ~BetweenCloses(p)
      BY CallersAssumption DEF BetweenCloses, Locking, LockGuardsRecord, HoldingPoints, ClosingPoints
    <2>. QED BY <2>1 DEF Truth, LiveHeld, SurfaceHeld, ShellHeld
  <1>. QED BY <1>1, TruthInvariant, PTL

-----------------------------------------------------------------------------
(* The order of one pane's Starts and Removes, when the host keeps it *)

Removal(g) == [op |-> "remove", gen |-> g]

\* The declared generation is the pane's newest.
DeclaredOwned ==
  \A p \in Panes : declared[p] # 0 =>
    /\ source[declared[p]].pane = p
    /\ \A g \in 1 .. Len(source) : source[g].pane = p => g <= declared[p]

\* A Remove has its generation's pane, whose lock it waits for or holds.
RemovesOwned ==
  \A t \in Callers : call[t].op = "remove" =>
    /\ call[t].named # 0 /\ source[call[t].named].pane = call[t].pane
    /\ call[t].at \in {"lock"} \cup ClosingPoints

\* A commit moved the pane from generation g to n, and declared none in between.
Replaces(n, g) ==
  /\ g \in 1 .. Len(source) /\ n \in 1 .. Len(source) /\ g < n
  /\ source[n].pane = source[g].pane
  /\ \A h \in 1 .. Len(source) : source[h].pane = source[g].pane => h <= g \/ h >= n
MovesFollow == \A g \in Generations : movedTo[g] # 0 => Replaces(movedTo[g], g)

\* The Remove of a generation is begun after its Start has returned, and so is every
\* newer event of the pane and the Remove of the generation a Start took the place
\* of; a Start has no other Start or Remove of the pane beside it.
StillToRemove(g) == declared[source[g].pane] = g \/ Removal(g) \in pending
StartWaits(t) ==
  call[t].op = "start" =>
    /\ StillToRemove(call[t].named)
    /\ \A event \in pending : source[event.gen].pane = call[t].pane =>
         event.gen >= call[t].named \/ movedTo[event.gen] = call[t].named
    /\ \A u \in Callers \ {t} : call[u].op \in {"start", "remove"} => call[u].pane # call[t].pane

Queued ==
  /\ DeclaredOwned /\ RemovesOwned /\ MovesFollow
  /\ \A event \in pending : event.op = "start" => StillToRemove(event.gen)
  /\ \A t \in Callers : StartWaits(t)

LEMMA InitQueued == Init => Queued
  BY DEF Init, Queued, DeclaredOwned, RemovesOwned, MovesFollow, StartWaits, Idle

LEMMA EventsTyped ==
  ASSUME Typing
  PROVE  /\ Len(source) \in Nat /\ source \in Seq(Sources)
         /\ \A event \in pending :
              /\ event \in [op : {"start", "remove"}, gen : Generations]
              /\ event.gen \in 1 .. Len(source)
         /\ \A p \in Panes : declared[p] \in 0 .. Len(source)
         /\ declared \in [Panes -> 0 .. MaxGeneration]
         /\ call \in [Callers -> Frames]
         /\ \A t \in Callers : call[t].named \in 0 .. Len(source)
         /\ \A g \in 1 .. Len(source) : g \in Generations /\ source[g].pane \in Panes
         /\ movedTo \in [Generations -> 0 .. MaxGeneration]
  <1>1. Len(source) \in Nat /\ source \in Seq(Sources)
    BY DEF Typing, TypeOK
  <1>2. \A g \in 1 .. Len(source) : source[g] \in Sources
    BY <1>1
  <1>3. \A g \in 1 .. Len(source) : source[g].pane \in Panes
    BY <1>2, SourcesAssumption
  <1>4. /\ \A g \in 1 .. Len(source) : g \in Generations
        /\ movedTo \in [Generations -> 0 .. MaxGeneration]
    <2>1. Len(source) <= MaxGeneration /\ movedTo \in [Generations -> 0 .. MaxGeneration]
      BY DEF Typing, TypeOK
    <2>. QED BY <1>1, <2>1, BoundsAssumption DEF Generations
  <1>5. \A event \in pending :
          /\ event \in [op : {"start", "remove"}, gen : Generations]
          /\ event.gen \in 1 .. Len(source)
    BY <1>1 DEF Typing, TypeOK, FramesNameDeclared, Generations
  <1>6. /\ \A p \in Panes : declared[p] \in 0 .. Len(source)
        /\ declared \in [Panes -> 0 .. MaxGeneration]
    BY <1>1 DEF Typing, TypeOK, FramesNameDeclared
  <1>7. call \in [Callers -> Frames] /\ \A t \in Callers : call[t].named \in 0 .. Len(source)
    <2>1. call \in [Callers -> Frames]
      BY DEF Typing, TypeOK
    <2>2. \A t \in Callers : call[t].named \in 0 .. MaxGeneration /\ call[t].named <= Len(source)
      BY <2>1 DEF Frames, Typing, FramesNameDeclared, FrameDeclared
    <2>. QED BY <1>1, <2>1, <2>2
  <1>. QED BY <1>1, <1>3, <1>4, <1>5, <1>6, <1>7

\* What is declared has not been moved away.
LEMMA DeclaredStays ==
  ASSUME Typing, DeclaredOwned, MovesFollow, NEW p \in Panes, declared[p] # 0
  PROVE  movedTo[declared[p]] = 0
  <1>1. declared[p] \in 1 .. Len(source) /\ declared[p] \in Generations
    BY EventsTyped
  <1>. QED BY <1>1 DEF DeclaredOwned, MovesFollow, Replaces

LEMMA WorldQueued ==
  ASSUME Typing, Locking, Phasing, Queued, World PROVE Queued'
  <1>1. UNCHANGED call
    BY WorldStep
  <1>2. \A t \in Callers : call[t].op = "start" =>
          call[t].named \in 1 .. Len(source) /\ source[call[t].named].pane = call[t].pane
    BY EventsTyped DEF Phasing, RecordsOwned
  <1>3. ASSUME NEW s \in Sources, Declare(s) \/ Move(s) PROVE Queued'
    <2>0. PICK new, old : new = Len(source) + 1 /\ old = declared[s.pane]
      OBVIOUS
    <2>1. /\ source' = Append(source, s) /\ Len(source') = new /\ source'[new] = s
          /\ \A g \in 1 .. Len(source) : source'[g] = source[g]
          /\ s.pane \in Panes /\ old \in 0 .. Len(source)
          /\ declared' = [declared EXCEPT ![s.pane] = new]
          /\ new \in Nat /\ new > Len(source)
      BY <1>3, <2>0, EventsTyped, SourcesAssumption DEF Declare, Move
    <2>2. /\ pending \subseteq pending'
          /\ \A event \in pending' : \/ event \in pending
                                     \/ event = [op |-> "start", gen |-> new]
                                     \/ old # 0 /\ event = Removal(old)
          /\ old # 0 => Removal(old) \in pending'
      BY <1>3, <2>0 DEF Declare, Move, Removal
    <2>3. /\ old # 0 => source[old].pane = s.pane /\ movedTo[old] = 0
          /\ \A g \in Generations : \/ movedTo'[g] = movedTo[g]
                                    \/ old # 0 /\ g = old /\ movedTo'[g] = new
      <3>1. old # 0 => source[old].pane = s.pane /\ movedTo[old] = 0
        BY <2>0, <2>1, DeclaredStays DEF Queued, DeclaredOwned
      <3>2. movedTo' = movedTo \/ (old # 0 /\ movedTo' = [movedTo EXCEPT ![old] = new])
        BY <1>3, <2>0 DEF Declare, Move
      <3>. QED BY <3>1, <3>2, EventsTyped
    <2>4. DeclaredOwned'
      <3>1. ASSUME NEW p \in Panes, declared'[p] # 0
            PROVE  /\ source'[declared'[p]].pane = p
                   /\ \A g \in 1 .. new : source'[g].pane = p => g <= declared'[p]
        <4>1. CASE p = s.pane
          BY <2>0, <2>1, <4>1, EventsTyped
        <4>2. CASE p # s.pane
          <5>1. declared'[p] = declared[p] /\ declared[p] \in 1 .. Len(source)
            BY <2>1, <3>1, <4>2, EventsTyped
          <5>2. ASSUME NEW g \in 1 .. new, source'[g].pane = p PROVE g <= declared[p]
            <6>1. g # new
              BY <2>1, <4>2, <5>2
            <6>2. g \in 1 .. Len(source) /\ source[g].pane = p
              BY <2>0, <2>1, <5>2, <6>1, EventsTyped
            <6>. QED BY <5>1, <6>2 DEF Queued, DeclaredOwned
          <5>. QED BY <2>1, <5>1, <5>2 DEF Queued, DeclaredOwned
        <4>. QED BY <4>1, <4>2
      <3>. QED BY <2>1, <3>1 DEF DeclaredOwned
    <2>5. RemovesOwned'
      BY <1>1, <2>1, EventsTyped DEF Queued, RemovesOwned
    <2>6. MovesFollow'
      <3> SUFFICES ASSUME NEW g \in Generations, NEW n, n = movedTo'[g], n # 0
                   PROVE  Replaces(n, g)'
        BY DEF MovesFollow, Replaces
      <3>1. \A h \in 1 .. Len(source') : h = new \/ h \in 1 .. Len(source)
        BY <2>0, <2>1, EventsTyped
      <3>2. CASE n = movedTo[g]
        <4>1. Replaces(n, g)
          BY <3>2 DEF Queued, MovesFollow
        <4>2. /\ g \in 1 .. Len(source') /\ n \in 1 .. Len(source') /\ g < n /\ new >= n
              /\ source'[n] = source[n] /\ source'[g] = source[g]
          BY <2>1, <4>1, EventsTyped DEF Replaces
        <4>. QED BY <2>1, <3>1, <4>1, <4>2 DEF Replaces
      <3>3. CASE old # 0 /\ g = old /\ n = new
        <4>1. /\ g \in 1 .. Len(source') /\ n \in 1 .. Len(source') /\ g < n
              /\ source'[n].pane = s.pane /\ source'[g].pane = s.pane
          BY <2>1, <2>3, <3>3, EventsTyped
        <4>2. \A h \in 1 .. Len(source) : source'[h].pane = s.pane => h <= g
          BY <2>0, <2>1, <3>3 DEF Queued, DeclaredOwned
        <4>. QED BY <2>1, <3>1, <3>3, <4>1, <4>2 DEF Replaces
      <3>. QED BY <2>3, <3>2, <3>3
    <2>7. ASSUME NEW g \in 1 .. Len(source), StillToRemove(g) PROVE StillToRemove(g)'
      <3>1. source'[g] = source[g] /\ pending \subseteq pending' /\ source[g].pane \in Panes
        BY <2>1, <2>2, EventsTyped
      <3>2. CASE Removal(g) \in pending
        BY <3>1, <3>2 DEF StillToRemove
      <3>3. CASE declared[source[g].pane] = g /\ source[g].pane = s.pane
        <4>1. Removal(g) \in pending'
          BY <2>0, <2>2, <3>3
        <4>. QED BY <4>1 DEF StillToRemove, Removal
      <3>4. CASE declared[source[g].pane] = g /\ source[g].pane # s.pane
        <4>1. declared'[source[g].pane] = g
          BY <2>1, <3>1, <3>4, EventsTyped
        <4>. QED BY <3>1, <4>1 DEF StillToRemove
      <3>. QED BY <2>7, <3>2, <3>3, <3>4 DEF StillToRemove
    <2>8. StillToRemove(new)'
      BY <2>1, EventsTyped DEF StillToRemove
    <2>9. ASSUME NEW event \in pending', event.op = "start" PROVE StillToRemove(event.gen)'
      <3>1. CASE event \in pending
        BY <2>7, <2>9, <3>1, EventsTyped DEF Queued
      <3>2. CASE event = [op |-> "start", gen |-> new]
        BY <2>8, <3>2
      <3>. QED BY <2>2, <2>9, <3>1, <3>2 DEF Removal
    <2>10. ASSUME NEW t \in Callers, call[t].op = "start" PROVE StartWaits(t)'
      <3>1. /\ call[t].named \in 1 .. Len(source) /\ source[call[t].named].pane = call[t].pane
            /\ StartWaits(t)
        BY <1>2, <2>10 DEF Queued
      <3>2. StillToRemove(call[t].named)'
        BY <1>1, <2>7, <2>10, <3>1 DEF StartWaits, StillToRemove
      <3>3. ASSUME NEW event \in pending', source'[event.gen].pane = call[t].pane
            PROVE  event.gen >= call[t].named \/ movedTo'[event.gen] = call[t].named
        <4>1. CASE event \in pending
          <5>1. event.gen \in 1 .. Len(source) /\ event.gen \in Generations
            BY <4>1, EventsTyped
          <5>2. event.gen >= call[t].named \/ movedTo[event.gen] = call[t].named
            BY <2>1, <2>10, <3>1, <3>3, <4>1, <5>1 DEF StartWaits
          <5>. QED BY <2>3, <3>1, <5>1, <5>2
        <4>2. CASE event = [op |-> "start", gen |-> new]
          BY <2>1, <3>1, <4>2, EventsTyped
        <4>3. CASE old # 0 /\ event = Removal(old)
          <5>1. event.gen = old /\ source[old].pane = call[t].pane
            BY <2>1, <3>3, <4>3, EventsTyped DEF Removal
          <5>. QED BY <2>0, <2>1, <2>3, <3>1, <4>3, <5>1 DEF Queued, DeclaredOwned
        <4>. QED BY <2>2, <4>1, <4>2, <4>3
      <3>. QED BY <1>1, <2>10, <3>1, <3>2, <3>3 DEF StartWaits
    <2>. QED BY <1>1, <2>4, <2>5, <2>6, <2>9, <2>10 DEF Queued, StartWaits
  <1>4. ASSUME NEW p \in Panes, Undeclare(p) PROVE Queued'
    <2>1. /\ declared[p] # 0 /\ UNCHANGED <<source, movedTo>>
          /\ declared' = [declared EXCEPT ![p] = 0]
          /\ pending' = pending \cup {Removal(declared[p])}
      BY <1>4 DEF Undeclare, Removal
    <2>2. DeclaredOwned'
      BY <2>1, EventsTyped DEF Queued, DeclaredOwned
    <2>3. RemovesOwned' /\ MovesFollow'
      BY <1>1, <2>1 DEF Queued, RemovesOwned, MovesFollow, Replaces
    <2>4. ASSUME NEW g \in 1 .. Len(source), StillToRemove(g) PROVE StillToRemove(g)'
      <3>1. CASE Removal(g) \in pending
        BY <2>1, <3>1 DEF StillToRemove
      <3>2. CASE declared[source[g].pane] = g
        BY <2>1, <3>2, EventsTyped DEF StillToRemove
      <3>. QED BY <2>4, <3>1, <3>2 DEF StillToRemove
    <2>5. ASSUME NEW event \in pending', event.op = "start" PROVE StillToRemove(event.gen)'
      <3>1. event \in pending
        BY <2>1, <2>5 DEF Removal
      <3>. QED BY <2>4, <2>5, <3>1, EventsTyped DEF Queued
    <2>6. ASSUME NEW t \in Callers, call[t].op = "start" PROVE StartWaits(t)'
      <3>1. /\ call[t].named \in 1 .. Len(source) /\ source[call[t].named].pane = call[t].pane
            /\ StartWaits(t)
        BY <1>2, <2>6 DEF Queued
      <3>2. StillToRemove(call[t].named)'
        BY <1>1, <2>4, <2>6, <3>1 DEF StartWaits, StillToRemove
      <3>3. ASSUME NEW event \in pending', source[event.gen].pane = call[t].pane
            PROVE  event.gen >= call[t].named \/ movedTo[event.gen] = call[t].named
        <4>1. CASE event \in pending
          BY <2>6, <3>1, <3>3, <4>1 DEF StartWaits
        <4>2. CASE event = Removal(declared[p])
          <5>1. event.gen = declared[p] /\ source[declared[p]].pane = p
            BY <2>1, <4>2 DEF Removal, Queued, DeclaredOwned
          <5>. QED BY <2>1, <3>1, <3>3, <5>1, EventsTyped DEF Queued, DeclaredOwned
        <4>. QED BY <2>1, <4>1, <4>2
      <3>. QED BY <1>1, <2>1, <2>6, <3>1, <3>2, <3>3 DEF StartWaits
    <2>. QED BY <1>1, <2>2, <2>3, <2>5, <2>6 DEF Queued, StartWaits
  <1>5. ASSUME NEW u \in Units, Crash(u) PROVE Queued'
    BY <1>5 DEF Crash, Queued, DeclaredOwned, RemovesOwned, MovesFollow, Replaces, StartWaits,
               StillToRemove
  <1>. QED BY <1>3, <1>4, <1>5 DEF World

\* A Remove goes on with its record, or ends with the record gone, another's or
\* left half closed.
LEMMA RemoveStep ==
  ASSUME Typing, Locking, RemovesOwned, NEW t \in Callers, Begin(t) \/ Verb(t) \/ Step(t),
         call[t].op = "remove"
  PROVE  \/ /\ call'[t].op = "remove" /\ call'[t].named = call[t].named
            /\ call'[t].pane = call[t].pane /\ call'[t].at \in ClosingPoints
         \/ /\ call'[t].op \notin {"start", "remove"}
            /\ panes'[call[t].pane] # call[t].named \/ call[t].named \in abandoned'
  <1> DEFINE p == call[t].pane
             h == call[t].named
             Removed == \/ /\ call'[t].op = "remove" /\ call'[t].named = h
                           /\ call'[t].pane = p /\ call'[t].at \in ClosingPoints
                        \/ /\ call'[t].op \notin {"start", "remove"}
                           /\ panes'[p] # h \/ h \in abandoned'
  <1> SUFFICES Removed
    OBVIOUS
  <1>1. /\ call \in [Callers -> Frames] /\ call[t] \in Frames
        /\ panes \in [Panes -> 0 .. MaxGeneration] /\ p \in Panes
        /\ h # 0 /\ call[t].at \in {"lock"} \cup ClosingPoints
    BY DEF Typing, TypeOK, FramesNameDeclared, FrameDeclared, RemovesOwned
  <1>2. LockClosing(t) \/ SkipClosing(t) \/ CloseSurface(t) \/ Detach(t) \/ CloseShell(t)
    <2>1. ~Begin(t) /\ ~Verb(t)
      BY <1>1 DEF Begin, Verb, BeginStart, BeginRemove, BeginEvent, BeginRestart, BeginStop,
                  BeginResize, BeginVerb, At, ClosingPoints
    <2>2. ~Opening(t)
      BY <1>1, OpeningStep, PointsApart DEF Opens, OpeningPoints
    <2>3. /\ ~StartUnits(t) /\ ~InstallStart(t) /\ ~StaleStart(t) /\ ~LockRestart(t)
          /\ ~SkipRestart(t) /\ ~ResizeSurface(t) /\ ~ResizeShell(t) /\ ~NoteGrid(t)
      BY <1>1 DEF StartUnits, InstallStart, StaleStart, LockRestart, SkipRestart, ResizeSurface,
                  ResizeShell, NoteGrid, At, ClosingPoints
    <2>. QED BY <2>1, <2>2, <2>3 DEF Step
  <1>3. CASE LockClosing(t)
    BY <1>1, <1>3 DEF LockClosing, Frames, ClosingPoints
  <1>4. CASE SkipClosing(t)
    <2>1. panes'[p] # h
      BY <1>1, <1>4 DEF SkipClosing, Closes
    <2>2. call'[t].op = "none"
      BY <1>1, <1>4 DEF SkipClosing, Return, Idle
    <2>. QED BY <2>1, <2>2
  <1>5. CASE CloseSurface(t) \/ Detach(t) \/ CloseShell(t)
    <2>1. call[t].at \in ClosingPoints
      BY <1>5 DEF CloseSurface, Detach, CloseShell, At, ClosingPoints
    <2>2. call[t].gen = h /\ panes[p] = h
      BY <2>1 DEF Locking, RemoveNamesItsRecord, LockGuardsRecord, HoldingPoints
    <2>3. ASSUME Leave(t) PROVE call'[t].op \notin {"start", "remove"}
      BY <1>1, <2>3 DEF Leave, Idle
    <2>4. CASE Abandon(t)
      BY <2>2, <2>3, <2>4 DEF Abandon
    <2>5. CASE Drop(t)
      <3>1. panes'[p] = 0
        BY <1>1, <2>2, <2>5 DEF Drop
      <3>. QED BY <1>1, <2>3, <2>5, <3>1 DEF Drop
    <2>6. CASE ~Abandon(t) /\ ~Drop(t)
      <3>1. Goto(t, "detach") \/ Goto(t, "close")
        BY <1>5, <2>6 DEF CloseSurface, Detach, CloseShell
      <3>. QED BY <1>1, <3>1 DEF Goto, Frames, ClosingPoints
    <2>. QED BY <2>4, <2>5, <2>6
  <1>. QED BY <1>2, <1>3, <1>4, <1>5

LEMMA DeclaredStep ==
  ASSUME NEW t \in Callers, Begin(t) \/ Verb(t) \/ Step(t)
  PROVE  UNCHANGED <<declared, movedTo>>
  <1>1. CASE Begin(t) \/ Verb(t)
    BY <1>1 DEF Begin, Verb, BeginStart, BeginRemove, BeginEvent, BeginRestart, BeginStop,
                BeginResize, BeginVerb
  <1>2. CASE Opening(t)
    BY <1>2 DEF Opening, Rehydrate, Measure, Prepare, OpenShell, FitShell, Ensure, Bind,
                OpenSurface, hostVars
  <1>3. CASE Step(t) /\ ~Opening(t)
    BY <1>3 DEF Step, StartUnits, InstallStart, StaleStart, LockRestart, SkipRestart, LockClosing,
                SkipClosing, CloseSurface, Detach, CloseShell, ResizeSurface, ResizeShell,
                NoteGrid, hostVars
  <1>. QED BY <1>1, <1>2, <1>3

LEMMA StepQueued ==
  ASSUME OrderedHost, Typing, Locking, Phasing, Queued,
         NEW t \in Callers, Begin(t) \/ Verb(t) \/ Step(t)
  PROVE  Queued'
  <1>1. UNCHANGED <<source, declared, movedTo>> /\ OthersUnchanged(t)
    BY EventStep, DeclaredStep
  <1>2. DeclaredOwned' /\ MovesFollow'
    BY <1>1 DEF Queued, DeclaredOwned, MovesFollow, Replaces
  <1>3. CASE \E event \in pending : Takeup(t, event)
    <2>1. PICK taken \in pending : Takeup(t, taken)
      BY <1>3
    <2>2. /\ InTurn(taken) /\ pending' = pending \ {taken}
          /\ call'[t].op = taken.op /\ call'[t].named = taken.gen
          /\ call'[t].pane = source[taken.gen].pane
          /\ call'[t].at = IF taken.op = "start" THEN "units" ELSE "lock"
      BY <2>1 DEF Takeup
    <2>3. /\ taken.gen \in 1 .. Len(source) /\ taken \in [op : {"start", "remove"}, gen : Generations]
          /\ \A other \in pending : source[other.gen].pane = source[taken.gen].pane =>
               Turn(taken) <= Turn(other)
          /\ \A u \in Callers : call[u].op \in {"start", "remove"} =>
               call[u].pane # source[taken.gen].pane
      BY <2>2, EventsTyped DEF InTurn
    <2>4. RemovesOwned'
      <3>1. /\ taken.gen # 0 /\ taken.op \in {"start", "remove"}
            /\ source'[call'[t].named].pane = call'[t].pane
        BY <1>1, <2>2, <2>3
      <3>2. ASSUME NEW u \in Callers \ {t} PROVE call'[u] = call[u]
        BY <1>1 DEF OthersUnchanged
      <3>. QED BY <1>1, <2>2, <3>1, <3>2 DEF Queued, RemovesOwned
    <2>5. ASSUME NEW g \in 1 .. Len(source), StillToRemove(g), taken # Removal(g)
          PROVE  StillToRemove(g)'
      BY <1>1, <2>2, <2>5 DEF StillToRemove
    <2>6. ASSUME NEW event \in pending', event.op = "start" PROVE StillToRemove(event.gen)'
      <3>1. event \in pending /\ StillToRemove(event.gen) /\ event.gen \in 1 .. Len(source)
        BY <2>2, <2>6, EventsTyped DEF Queued
      <3>2. taken # Removal(event.gen)
        <4>1. ASSUME taken = Removal(event.gen) PROVE FALSE
          <5>1. Turn(taken) <= Turn(event) /\ taken.op = "remove" /\ taken.gen = event.gen
            BY <2>3, <3>1, <4>1 DEF Removal
          <5>2. movedTo[event.gen] # 0 => event.gen < movedTo[event.gen]
            BY <3>1, EventsTyped DEF Queued, MovesFollow, Replaces
          <5>3. event.gen \in Nat /\ movedTo[event.gen] \in Nat
            BY <3>1, EventsTyped
          <5>. QED BY <2>6, <5>1, <5>2, <5>3 DEF Turn
        <4>. QED BY <4>1
      <3>. QED BY <2>5, <3>1, <3>2
    <2>7. StartWaits(t)'
      <3> SUFFICES ASSUME taken.op = "start" PROVE StartWaits(t)'
        BY <2>2 DEF StartWaits
      <3>1. StillToRemove(taken.gen)'
        BY <2>3, <2>5 DEF Queued, Removal
      <3>2. ASSUME NEW event \in pending', source[event.gen].pane = source[taken.gen].pane
            PROVE  event.gen >= taken.gen \/ movedTo[event.gen] = taken.gen
        <4>1. Turn(taken) <= Turn(event) /\ event \in pending
          BY <2>2, <2>3, <3>2
        <4>2. /\ event.gen \in Nat /\ taken.gen \in Nat /\ event.op \in {"start", "remove"}
              /\ event.gen \in Generations /\ movedTo[event.gen] \in Nat
          BY <2>3, <4>1, EventsTyped
        <4>3. CASE event.op = "remove" /\ movedTo[event.gen] # 0
          <5>1. 3 * taken.gen <= 3 * movedTo[event.gen] + 1
            BY <4>1, <4>3 DEF Turn
          <5>2. taken.gen <= movedTo[event.gen]
            BY <4>2, <5>1
          <5>3. taken.gen <= event.gen \/ taken.gen >= movedTo[event.gen]
            BY <2>3, <3>2, <4>2, <4>3 DEF Queued, MovesFollow, Replaces
          <5>. QED BY <4>2, <5>2, <5>3
        <4>4. CASE event.op = "start" \/ movedTo[event.gen] = 0
          BY <4>1, <4>2, <4>4 DEF Turn
        <4>. QED BY <4>2, <4>3, <4>4
      <3>. QED BY <1>1, <2>2, <2>3, <3>1, <3>2 DEF StartWaits, OthersUnchanged, StillToRemove
    <2>8. ASSUME NEW u \in Callers \ {t}, call[u].op = "start" PROVE StartWaits(u)'
      <3>1. /\ call[u].named \in 1 .. Len(source) /\ source[call[u].named].pane = call[u].pane
            /\ StartWaits(u) /\ call'[u] = call[u]
        BY <1>1, <2>8, EventsTyped DEF Queued, Phasing, RecordsOwned, OthersUnchanged
      <3>2. call[u].pane # source[taken.gen].pane
        BY <2>3, <2>8
      <3>3. StillToRemove(call[u].named)'
        <4>1. taken # Removal(call[u].named)
          BY <3>1, <3>2 DEF Removal
        <4>2. declared[source[call[u].named].pane] = call[u].named
                \/ Removal(call[u].named) \in pending'
          BY <2>2, <2>8, <3>1, <4>1 DEF StartWaits, StillToRemove
        <4>. QED BY <1>1, <3>1, <4>2 DEF StillToRemove
      <3>. QED BY <1>1, <2>2, <2>8, <3>1, <3>2, <3>3 DEF StartWaits, OthersUnchanged
    <2>9. \A u \in Callers : StartWaits(u)'
      BY <1>1, <2>7, <2>8 DEF StartWaits, OthersUnchanged
    <2>. QED BY <1>2, <2>4, <2>6, <2>9 DEF Queued
  <1>4. CASE /\ UNCHANGED pending
             /\ \/ call'[t].op \notin {"start", "remove"}
                \/ /\ call'[t].op = call[t].op /\ call'[t].named = call[t].named
                   /\ call'[t].pane = call[t].pane
    <2>1. RemovesOwned'
      <3>1. call'[t].op = "remove" =>
              /\ call[t].op = "remove" /\ call'[t].named = call[t].named
              /\ call'[t].pane = call[t].pane /\ call'[t].at \in ClosingPoints
        BY <1>4, RemoveStep DEF Queued
      <3>. QED BY <1>1, <3>1 DEF Queued, RemovesOwned, OthersUnchanged
    <2>2. ASSUME NEW u \in Callers PROVE StartWaits(u)'
      <3>1. StartWaits(u)
        BY DEF Queued
      <3>2. /\ call'[u].op = "start" => call[u].op = "start" /\ call'[u].named = call[u].named
                                        /\ call'[u].pane = call[u].pane
            /\ \A v \in Callers : call'[v].op \in {"start", "remove"} =>
                 call[v].op \in {"start", "remove"} /\ call'[v].pane = call[v].pane
        BY <1>1, <1>4 DEF OthersUnchanged
      <3>. QED BY <1>1, <1>4, <3>1, <3>2 DEF StartWaits, StillToRemove
    <2>3. \A event \in pending' : event.op = "start" => StillToRemove(event.gen)'
      BY <1>1, <1>4 DEF Queued, StillToRemove
    <2>. QED BY <1>2, <2>1, <2>2, <2>3 DEF Queued
  <1>. QED BY <1>3, <1>4, EventStep

-----------------------------------------------------------------------------
(* Whose surfaces are open *)

\* A Remove of the generation is still to come, or under way.
ToRemove(g) ==
  Removal(g) \in pending \/ \E t \in Callers : call[t].op = "remove" /\ call[t].named = g

\* The record a pane holds is of its declared generation, or is to be removed, or a
\* Stop or Remove of it failed.
RecordWanted(p) ==
  panes[p] # 0 /\ panes[p] \notin abandoned => declared[p] = panes[p] \/ ToRemove(panes[p])

\* A surface that is open is at the engine of the pane's record, whose generation
\* opened it or has it from an older one; or it was left open.
SurfaceWanted(u, p) == LET g == surface[u][p].by IN
  g # 0 => \/ panes[p] # 0 /\ g <= panes[p] /\ Engine(panes[p]) = u
           \/ LeftOpen(g, u, p)

Wanted ==
  /\ \A p \in Panes : RecordWanted(p)
  /\ \A u \in Units, p \in Panes : SurfaceWanted(u, p)

LEMMA InitWanted == Init => Wanted
  BY DEF Init, Wanted, RecordWanted, SurfaceWanted, NoSurface

\* What was left open stays so, whatever is declared or done after it.
LEMMA WorldLeaves ==
  ASSUME Typing, Queued, World, NEW g, NEW u, NEW p, LeftOpen(g, u, p)
  PROVE  LeftOpen(g, u, p)'
  <1>1. /\ Len(source) \in Nat /\ Len(source') \in Nat /\ Len(source) <= Len(source')
        /\ \A h \in 1 .. Len(source) : source'[h] = source[h]
        /\ UNCHANGED abandoned
    <2>1. Len(source) \in Nat /\ Len(source') \in Nat
      BY WorldTyping DEF Typing, TypeOK
    <2>2. UNCHANGED abandoned
      BY DEF World, Declare, Move, Undeclare, Crash
    <2>3. \A h \in 1 .. Len(source) : h \in Generations /\ h <= Len(source)
      BY <2>1, EventsTyped
    <2>. QED BY <2>1, <2>2, <2>3, WorldStep
  <1>2. \A h \in Generations : movedTo[h] # 0 => movedTo'[h] = movedTo[h]
    <2>1. ASSUME NEW s \in Sources, Move(s) PROVE <1>2
      <3>1. declared[s.pane] # 0 /\ movedTo' = [movedTo EXCEPT ![declared[s.pane]] = Len(source) + 1]
        BY <2>1 DEF Move
      <3>2. movedTo[declared[s.pane]] = 0
        BY <3>1, DeclaredStays, SourcesAssumption DEF Queued
      <3>. QED BY <3>1, <3>2, EventsTyped
    <2>. QED BY <2>1 DEF World, Declare, Undeclare, Crash
  <1>3. PICK h \in 1 .. Len(source) : /\ h >= g /\ source[h].pane = p /\ Engine(h) = u
                                      /\ h \in abandoned \/ MovedAway(h)
    BY DEF LeftOpen
  <1>4. h \in 1 .. Len(source') /\ source'[h].pane = p /\ Engine(h)' = u
    BY <1>1, <1>3 DEF Engine
  <1>5. MovedAway(h) => MovedAway(h)'
    <2> SUFFICES ASSUME MovedAway(h) PROVE MovedAway(h)'
      OBVIOUS
    <2>1. h \in Generations /\ movedTo[h] # 0
      BY EventsTyped DEF MovedAway
    <2>2. movedTo[h] \in 1 .. Len(source)
      BY <2>1 DEF Queued, MovesFollow, Replaces
    <2>. QED BY <1>1, <1>2, <2>1, <2>2 DEF MovedAway, Engine
  <1>. QED BY <1>1, <1>3, <1>4, <1>5 DEF LeftOpen

LEMMA StepLeaves ==
  ASSUME Typing, Locking, NEW t \in Callers, Begin(t) \/ Verb(t) \/ Step(t),
         NEW g, NEW u, NEW p, LeftOpen(g, u, p)
  PROVE  LeftOpen(g, u, p)'
  <1>1. UNCHANGED <<source, movedTo>> /\ abandoned \subseteq abandoned'
    BY EventStep, DeclaredStep, AbandonedStep
  <1>. QED BY <1>1 DEF LeftOpen, MovedAway, Engine

LEMMA WorldWanted ==
  ASSUME Typing, Queued, Wanted, World PROVE Wanted'
  <1>1. /\ UNCHANGED <<panes, call, abandoned>>
        /\ \A g \in Generations : g <= Len(source) => source'[g] = source[g]
    BY WorldStep DEF World, Declare, Move, Undeclare, Crash
  <1>2. ASSUME NEW p \in Panes PROVE RecordWanted(p)'
    <2>1. CASE \E s \in Sources : Declare(s) \/ Move(s)
      BY <1>1, <2>1, EventsTyped DEF Declare, Move, Wanted, RecordWanted, ToRemove, Removal
    <2>2. CASE \E q \in Panes : Undeclare(q)
      BY <1>1, <2>2, EventsTyped DEF Undeclare, Wanted, RecordWanted, ToRemove, Removal
    <2>3. CASE \E u \in Units : Crash(u)
      BY <1>1, <2>3 DEF Crash, Wanted, RecordWanted, ToRemove
    <2>. QED BY <2>1, <2>2, <2>3 DEF World
  <1>3. ASSUME NEW u \in Units, NEW p \in Panes PROVE SurfaceWanted(u, p)'
    <2>1. surface'[u][p].by \in {surface[u][p].by, 0}
      <3>1. surface \in [Units -> [Panes -> [by : 0 .. MaxGeneration, grid : Grids]]]
        BY DEF Typing, TypeOK
      <3>2. UNCHANGED surface
              \/ \E v \in Units : surface' = [surface EXCEPT ![v] = [q \in Panes |-> NoSurface]]
        BY DEF World, Declare, Move, Undeclare, Crash, sidecarVars
      <3>. QED BY <3>1, <3>2 DEF NoSurface
    <2>2. ASSUME panes[p] # 0 PROVE Engine(panes[p])' = Engine(panes[p])
      <3>1. panes[p] \in Generations /\ panes[p] <= Len(source)
        BY <2>2 DEF Typing, TypeOK, FramesNameDeclared, Generations
      <3>. QED BY <1>1, <3>1 DEF Engine
    <2>3. ASSUME NEW g, LeftOpen(g, u, p) PROVE LeftOpen(g, u, p)'
      BY <2>3, WorldLeaves
    <2>. QED BY <1>1, <2>1, <2>2, <2>3 DEF Wanted, SurfaceWanted
  <1>. QED BY <1>2, <1>3 DEF Wanted

\* What a step that installs no record does to the generation a pane is to hold.
LEMMA StepRecordWanted ==
  ASSUME OrderedHost, Typing, Locking, Phasing, Queued, Wanted,
         NEW t \in Callers, Begin(t) \/ Verb(t) \/ Step(t), NEW p \in Panes
  PROVE  RecordWanted(p)'
  <1>1. /\ UNCHANGED <<source, declared>> /\ OthersUnchanged(t) /\ abandoned \subseteq abandoned'
        /\ panes \in [Panes -> 0 .. MaxGeneration]
    BY EventStep, DeclaredStep, AbandonedStep DEF Typing, TypeOK
  <1> SUFFICES ASSUME NEW h, h = panes'[p], h # 0, h \notin abandoned'
               PROVE  declared[p] = h \/ ToRemove(h)'
    BY <1>1 DEF RecordWanted, ToRemove
  <1>2. CASE Installs(t, p)
    <2>1. h = call[t].named /\ call[t].op = "start" /\ call[t].pane = p
      BY <1>1, <1>2 DEF Installs
    <2>2. StillToRemove(h) /\ source[h].pane = p
      BY <2>1 DEF Queued, StartWaits, Phasing, RecordsOwned
    <2>3. UNCHANGED pending
      <3>1. ~\E event \in pending : Takeup(t, event)
        BY <1>2 DEF Takeup, Installs
      <3>. QED BY <3>1, EventStep
    <2>. QED BY <1>1, <2>2, <2>3 DEF StillToRemove, ToRemove
  <1>3. CASE panes[p] = h
    <2>1. declared[p] = h \/ ToRemove(h)
      BY <1>1, <1>3 DEF Wanted, RecordWanted
    <2>2. ASSUME Removal(h) \in pending PROVE ToRemove(h)'
      <3>1. CASE UNCHANGED pending
        BY <2>2, <3>1 DEF ToRemove
      <3>2. CASE \E event \in pending : Takeup(t, event)
        <4>1. PICK event \in pending : Takeup(t, event)
          BY <3>2
        <4>2. CASE event = Removal(h)
          BY <4>1, <4>2 DEF Takeup, ToRemove, Removal
        <4>3. CASE event # Removal(h)
          BY <2>2, <4>1, <4>3 DEF Takeup, ToRemove
        <4>. QED BY <4>2, <4>3
      <3>. QED BY <3>1, <3>2, EventStep
    <2>3. ASSUME NEW u \in Callers, call[u].op = "remove", call[u].named = h
          PROVE  ToRemove(h)'
      <3>1. CASE u # t
        BY <1>1, <2>3, <3>1 DEF OthersUnchanged, ToRemove
      <3>2. CASE u = t
        <4>1. source[h].pane = p /\ call[t].pane = p
          BY <1>3, <2>3, <3>2 DEF Phasing, RecordsOwned, Queued, RemovesOwned
        <4>. QED BY <2>3, <3>2, <4>1, RemoveStep DEF Queued, ToRemove
      <3>. QED BY <3>1, <3>2
    <2>. QED BY <2>1, <2>2, <2>3 DEF ToRemove
  <1>4. panes'[p] \in {0, panes[p]} \/ Installs(t, p)
    <2>1. CASE Outside(t) \/ Opens(t)
      BY <2>1 DEF Outside, Opens, OpeningEnds, OpeningOn, SameWork
    <2>2. CASE Closing(t)
      BY <1>1, <2>2 DEF Closing, ClosingEnds, ClosingOn, SameWork
    <2>3. CASE Taking(t)
      BY <1>1, <2>3 DEF Taking, Installs, Reopens, ToClose
    <2>. QED BY <2>1, <2>2, <2>3, StepKinds
  <1>. QED BY <1>2, <1>3, <1>4

\* A Start finds no record but one it takes the place of, or one a Stop or Remove
\* of which failed.
LEMMA InstallsOver ==
  ASSUME OrderedHost, Typing, Phasing, Queued, Wanted, NEW t \in Callers, NEW p \in Panes,
         Installs(t, p), panes[p] # 0
  PROVE  panes[p] \in abandoned \/ movedTo[panes[p]] = call[t].named
  <1> SUFFICES ASSUME panes[p] \notin abandoned, movedTo[panes[p]] # call[t].named PROVE FALSE
    OBVIOUS
  <1> DEFINE h == panes[p]
             g == call[t].named
  <1>1. /\ h < g /\ call[t].op = "start" /\ call[t].pane = p
        /\ source[h].pane = p /\ source[g].pane = p /\ StartWaits(t)
    BY DEF Installs, Phasing, RecordsOwned, Queued
  <1>2. h \in Nat /\ g \in 1 .. Len(source)
    BY <1>1, EventsTyped DEF Typing, TypeOK, Phasing, RecordsOwned
  <1>3. declared[p] # h
    BY <1>1, <1>2 DEF Queued, DeclaredOwned
  <1>4. Removal(h) \notin pending
    BY <1>1, <1>2 DEF StartWaits, Removal
  <1>5. ASSUME NEW u \in Callers, call[u].op = "remove", call[u].named = h PROVE FALSE
    <2>1. call[u].pane = p /\ u # t
      BY <1>1, <1>5 DEF Queued, RemovesOwned
    <2>. QED BY <1>1, <1>5, <2>1 DEF StartWaits
  <1>. QED BY <1>3, <1>4, <1>5 DEF Wanted, RecordWanted, ToRemove

LEMMA StepSurfaceWanted ==
  ASSUME OrderedHost, Typing, Locking, Phasing, Truth, Queued, Wanted,
         NEW t \in Callers, Begin(t) \/ Verb(t) \/ Step(t), NEW u \in Units, NEW p \in Panes
  PROVE  SurfaceWanted(u, p)'
  <1>1. /\ UNCHANGED source
        /\ panes \in [Panes -> 0 .. MaxGeneration]
        /\ surface \in [Units -> [Panes -> [by : 0 .. MaxGeneration, grid : Grids]]]
    BY EventStep DEF Typing, TypeOK
  <1>2. SurfaceWanted(u, p) /\ \A g : LeftOpen(g, u, p) => LeftOpen(g, u, p)'
    BY StepLeaves DEF Wanted
  <1>3. CASE call[t].at \in HoldingPoints => p # call[t].pane
    <2>1. surface'[u][p].by = surface[u][p].by
      BY <1>3, SidecarStep DEF SidecarsSame, SurfaceSame
    <2>2. panes'[p] = panes[p] \/ Installs(t, p)
      <3>1. CASE Outside(t) \/ Opens(t)
        BY <3>1 DEF Outside, Opens, OpeningEnds, OpeningOn, SameWork
      <3>2. CASE Closing(t)
        BY <1>1, <1>3, <3>2 DEF Closing, ClosingEnds, ClosingOn, SameWork, HoldingPoints
      <3>3. CASE Taking(t)
        BY <1>1, <3>3 DEF Taking, Installs, Reopens, ToClose
      <3>. QED BY <3>1, <3>2, <3>3, StepKinds
    <2>3. CASE panes'[p] = panes[p]
      BY <1>1, <1>2, <2>1, <2>3 DEF SurfaceWanted, Engine
    <2>4. CASE Installs(t, p)
      <3> SUFFICES ASSUME NEW b, b = surface[u][p].by, b # 0, ~LeftOpen(b, u, p),
                          NEW h, h = panes[p], NEW n, n = call[t].named
                   PROVE  panes'[p] # 0 /\ b <= panes'[p] /\ Engine(panes'[p]) = u
        BY <1>1, <1>2, <2>1 DEF SurfaceWanted, Engine
      <3>1. h # 0 /\ b <= h /\ Engine(h) = u
        BY <1>2 DEF SurfaceWanted
      <3>2. panes'[p] = n /\ h < n /\ b \in Nat /\ n \in Nat /\ h \in Nat
        BY <1>1, <2>4, EventsTyped DEF Installs
      <3>3. h \in 1 .. Len(source) /\ source[h].pane = p
        BY <1>1, <3>1, EventsTyped DEF Typing, FramesNameDeclared, Phasing, RecordsOwned
      <3>4. h \notin abandoned /\ ~MovedAway(h)
        BY <1>1, <3>1, <3>2, <3>3 DEF LeftOpen
      <3>5. movedTo[h] = n
        BY <2>4, <3>1, <3>4, InstallsOver
      <3>. QED BY <3>1, <3>2, <3>4, <3>5 DEF MovedAway
    <2>. QED BY <2>2, <2>3, <2>4
  <1>4. ASSUME call[t].at \in HoldingPoints, p = call[t].pane, NEW g, g = call[t].gen
        PROVE  SurfaceWanted(u, p)'
    <2>1. panes[p] = g /\ g # 0 /\ Engine(g) \in Units /\ Engine(g)' = Engine(g)
      BY <1>1, <1>4, OwnPane DEF Engine
    <2>2. CASE Opening(t)
      <3>1. UNCHANGED panes
        BY <2>2, OpeningStep DEF Opens, OpeningEnds, OpeningOn, SameWork
      <3>2. \/ surface'[u][p] = surface[u][p]
            \/ u = Engine(g) /\ surface'[u][p].by = g
        <4>1. CASE UNCHANGED surface
          BY <4>1
        <4>2. CASE \E grid \in Grids :
                     surface' = [surface EXCEPT ![Engine(g)][p] = [by |-> g, grid |-> grid]]
          <5>1. PICK grid \in Grids :
                     surface' = [surface EXCEPT ![Engine(g)][p] = [by |-> g, grid |-> grid]]
            BY <4>2
          <5>2. surface'[u][p] = IF u = Engine(g) THEN [by |-> g, grid |-> grid] ELSE surface[u][p]
            BY <1>1, <5>1, CellChange
          <5>. QED BY <5>2
        <4>3. CASE OpenSurface(t)
          BY <1>4, <4>1, <4>2, <4>3 DEF OpenSurface
        <4>. QED BY <2>2, <4>1, <4>3
             DEF Opening, Rehydrate, Measure, Prepare, OpenShell, FitShell, Ensure, Bind, sidecarVars
      <3>3. g \in Nat /\ surface[u][p].by \in Nat
        BY <1>1, <1>4, <2>1
      <3>. QED BY <1>1, <1>2, <2>1, <3>1, <3>2, <3>3 DEF SurfaceWanted, Engine
    <2>3. CASE CloseSurface(t) \/ Detach(t) \/ CloseShell(t)
      <3>1. surface'[u][p] \in {surface[u][p], NoSurface}
        <4>1. CASE UNCHANGED surface
          BY <4>1
        <4>2. CASE surface' = [surface EXCEPT ![Engine(g)][p] = NoSurface]
          BY <1>1, <4>2, CellChange
        <4>. QED BY <1>4, <2>3, <4>1, <4>2 DEF CloseSurface, Detach, CloseShell, sidecarVars
      <3>2. CASE panes'[p] = panes[p]
        BY <1>1, <1>2, <3>1, <3>2 DEF SurfaceWanted, Engine, NoSurface
      <3>3. CASE panes'[p] # panes[p]
        <4>1. call[t].at \in {"detach", "close"}
          BY <2>3, <3>3 DEF CloseSurface, Detach, CloseShell, Abandon, At
        <4>2. surface[Engine(g)][p] = NoSurface
          BY <1>4, <4>1 DEF Truth, ClosedFirst
        <4>3. surface[u][p].by = 0 \/ LeftOpen(surface[u][p].by, u, p)
          BY <1>2, <2>1, <4>2 DEF SurfaceWanted, NoSurface
        <4>. QED BY <1>2, <3>1, <4>3 DEF SurfaceWanted, NoSurface
      <3>. QED BY <3>2, <3>3
    <2>4. Opening(t) \/ CloseSurface(t) \/ Detach(t) \/ CloseShell(t)
      <3>1. ~Outside(t) /\ ~Taking(t)
        BY <1>4 DEF Outside, Taking, Installs, Reopens, ToClose, Takes
      <3>. QED BY <3>1, OutsideStep, TakingStep DEF Step
    <2>. QED BY <2>2, <2>3, <2>4
  <1>. QED BY <1>3, <1>4

LEMMA NextWanted ==
  OrderedHost /\ Typing /\ Locking /\ Phasing /\ Truth /\ Queued /\ Wanted /\ [Next]_vars
  => Queued' /\ Wanted'
  <1> SUFFICES ASSUME OrderedHost, Typing, Locking, Phasing, Truth, Queued, Wanted, [Next]_vars
               PROVE  Queued' /\ Wanted'
    OBVIOUS
  <1>1. CASE UNCHANGED vars
    BY <1>1 DEF vars, Queued, DeclaredOwned, RemovesOwned, MovesFollow, Replaces, StartWaits,
                StillToRemove, Wanted, RecordWanted, SurfaceWanted, ToRemove, LeftOpen,
                MovedAway, Engine
  <1>2. CASE World
    BY <1>2, WorldQueued, WorldWanted
  <1>3. ASSUME NEW t \in Callers, Begin(t) \/ Verb(t) \/ Step(t) PROVE Queued' /\ Wanted'
    <2>1. Queued'
      BY <1>3, StepQueued
    <2>2. Wanted'
      BY <1>3, StepRecordWanted, StepSurfaceWanted DEF Wanted
    <2>. QED BY <2>1, <2>2
  <1>. QED BY <1>1, <1>2, <1>3 DEF Next, Rest

\* With a host that runs a pane's Starts and Removes as they are reported, an open
\* surface is at last the one its pane's declared record is of, which its Remove will
\* close; or it was left open by a failed Stop or Remove or by a move to another
\* engine, and in no other way (pane.go:178-192, 236-246, 531-551).
THEOREM NoOrphans == OrderedHost => (Spec => []SurfacesTended)
  <1> SUFFICES ASSUME OrderedHost PROVE Spec => []SurfacesTended
    OBVIOUS
  <1>1. Init => Queued /\ Wanted
    BY InitQueued, InitWanted
  <1>2. Typing /\ Locking /\ Phasing /\ Truth /\ Queued /\ Wanted /\ [Next]_vars => Queued' /\ Wanted'
    BY NextWanted
  <1>3. Typing /\ Phasing /\ Queued /\ Wanted => SurfacesTended
    <2> SUFFICES ASSUME Typing, Phasing, Queued, Wanted, Quiet, NEW u \in Units, NEW p \in Panes,
                        NEW b, b = surface[u][p].by, b # 0, ~LeftOpen(b, u, p)
                 PROVE  declared[p] # 0 /\ panes[p] = declared[p] /\ Engine(declared[p]) = u
      BY DEF SurfacesTended
    <2>1. panes[p] # 0 /\ b <= panes[p] /\ Engine(panes[p]) = u
      BY DEF Wanted, SurfaceWanted
    <2>2. panes[p] \notin abandoned
      <3>1. panes \in [Panes -> Nat] /\ b \in Nat
        BY DEF Typing, TypeOK
      <3>2. panes[p] \in 1 .. Len(source) /\ source[panes[p]].pane = p
        BY <2>1, <3>1, EventsTyped DEF Typing, FramesNameDeclared, Phasing, RecordsOwned
      <3>. QED BY <2>1, <3>1, <3>2 DEF LeftOpen
    <2>3. declared[p] = panes[p] \/ ToRemove(panes[p])
      BY <2>1, <2>2 DEF Wanted, RecordWanted
    <2>4. ~ToRemove(panes[p])
      BY DEF Quiet, ToRemove, At, Queued, RemovesOwned, ClosingPoints
    <2>. QED BY <2>1, <2>3, <2>4
  <1>. QED BY <1>1, <1>2, <1>3, TruthInvariant, PTL DEF Spec

=============================================================================
