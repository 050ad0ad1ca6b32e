--------------------------- MODULE SessionsProofs ---------------------------
(***************************************************************************)
(* Theorems about Sessions, for any panes, units, callers and bounds.      *)
(***************************************************************************)
EXTENDS Sessions, TLAPS

\* Every generation that the sessions, the host or a goroutine names has been
\* declared, and a goroutine that has a pane or a record to work on has both.
FrameDeclared(c) ==
  /\ c.gen <= Len(source) /\ c.named <= Len(source)
  /\ c.op \in {"start", "remove", "stopDetach", "stopClose"} => c.pane \in Panes
  /\ c.at \in HoldingPoints \cup ResizePoints => c.gen # 0 /\ c.pane \in Panes

FramesNameDeclared ==
  /\ \A p \in Panes : panes[p] <= Len(source) /\ declared[p] <= Len(source)
  /\ \A g \in Generations : movedTo[g] <= Len(source)
  /\ \A event \in pending : event.gen <= Len(source)
  /\ \A t \in Callers : FrameDeclared(call[t])

Typing == TypeOK /\ FramesNameDeclared

LEMMA InitTyping == Init => Typing
  <1> SUFFICES ASSUME Init PROVE Typing
      OBVIOUS
  <1> USE PanesAssumption, SourcesAssumption, CallersAssumption, UnitsAssumption,
          GridsAssumption, BoundsAssumption
  <1>1. TypeOK
    <2>1. record \in [Generations -> Records]
      BY DEF Init, Records, NewRecord, Phases
    <2>2. Idle \in Frames
      BY DEF Frames, Idle, Operations, Points
    <2>3. /\ NoSurface \in [by : 0 .. MaxGeneration, grid : Grids]
          /\ NoShell \in [session : Nat, grid : Grids]
      BY DEF NoSurface, NoShell
    <2>4. /\ source \in Seq(Sources) /\ Len(source) <= MaxGeneration
          /\ spent \in [verbs : 0 .. MaxVerbs, crashes : 0 .. MaxCrashes, sessions : Nat]
      BY DEF Init
    <2>5. /\ panes \in [Panes -> 0 .. MaxGeneration]
          /\ failed \in [Panes -> 0 .. MaxGeneration]
          /\ declared \in [Panes -> 0 .. MaxGeneration]
          /\ movedTo \in [Generations -> 0 .. MaxGeneration]
      BY DEF Init
    <2>6. /\ lock \in [Panes -> Callers \cup {Free}]
          /\ bound \in [Panes -> Units \cup {Unbound}]
      BY DEF Init
    <2>7. /\ surface \in [Units -> [Panes -> [by : 0 .. MaxGeneration, grid : Grids]]]
          /\ shell \in [Units -> [Panes -> [session : Nat, grid : Grids]]]
      BY <2>3 DEF Init
    <2>8. call \in [Callers -> Frames]
      BY <2>2 DEF Init
    <2>. QED BY <2>1, <2>4, <2>5, <2>6, <2>7, <2>8 DEF Init, TypeOK
  <1>2. FramesNameDeclared
    BY DEF Init, FramesNameDeclared, FrameDeclared, Idle, HoldingPoints, OpeningPoints, ClosingPoints,
           ResizePoints
  <1>. QED BY <1>1, <1>2 DEF Typing

\* What a goroutine's frame may become, without the rest of the step.
Framed == call \in [Callers -> Frames] /\ \A t \in Callers : FrameDeclared(call[t])

LEMMA IdleFrame == Idle \in Frames /\ (Len(source) \in Nat => FrameDeclared(Idle))
  BY GridsAssumption, BoundsAssumption
  DEF Frames, Idle, Operations, Points, FrameDeclared, HoldingPoints, OpeningPoints,
      ClosingPoints, ResizePoints

LEMMA FrameChange ==
  ASSUME Framed, UNCHANGED source, NEW t \in Callers, NEW c \in Frames, FrameDeclared(c),
         call' = [call EXCEPT ![t] = c]
  PROVE  Framed'
  BY DEF Framed, FrameDeclared

LEMMA GotoFramed ==
  ASSUME Framed, UNCHANGED source, NEW t \in Callers, NEW point \in Points, Goto(t, point),
         call[t].at \in HoldingPoints \cup ResizePoints \/ point \notin HoldingPoints \cup ResizePoints
  PROVE  Framed'
  <1>1. call' \in [Callers -> Frames]
    BY DEF Framed, Goto, Frames
  <1>2. \A u \in Callers : FrameDeclared(call[u])'
    BY DEF Framed, Goto, Frames, FrameDeclared
  <1>. QED BY <1>1, <1>2 DEF Framed

LEMMA ReturnFramed ==
  ASSUME Framed, UNCHANGED source, Len(source) \in Nat, NEW t \in Callers, Return(t)
  PROVE  Framed'
  BY IdleFrame DEF Framed, Return, FrameDeclared

LEMMA LeaveFramed ==
  ASSUME Framed, UNCHANGED source, Len(source) \in Nat, NEW t \in Callers, Leave(t)
  PROVE  Framed'
  <1> DEFINE next == IF call[t].todo = {} THEN Idle
                     ELSE [Idle EXCEPT !.op = "restart", !.at = "lock",
                                       !.unit = call[t].unit, !.todo = call[t].todo]
  <1>1. call[t] \in Frames
    BY DEF Framed
  <1>2. next \in Frames
    <2>1. call[t].unit \in Units \cup {Unbound} /\ call[t].todo \in SUBSET Panes
      BY <1>1 DEF Frames
    <2>2. "restart" \in Operations /\ "lock" \in Points
      BY DEF Operations, Points
    <2>. QED BY <2>1, <2>2, IdleFrame DEF Frames
  <1>3. FrameDeclared(next)
    BY <1>1, IdleFrame DEF FrameDeclared, Idle, HoldingPoints, OpeningPoints, ClosingPoints,
       ResizePoints
  <1> HIDE DEF next
  <1>4. call' = [call EXCEPT ![t] = next]
    BY DEF Leave, next
  <1>. QED BY <1>2, <1>3, <1>4 DEF Framed, FrameDeclared

\* A declaration, new or in the place of another, names the next generation.
LEMMA DeclareTyping ==
  ASSUME Typing, NEW s \in Sources, Declare(s) \/ Move(s) PROVE Typing'
  <1> USE PanesAssumption, SourcesAssumption, BoundsAssumption
  <1>1. /\ s.pane \in Panes
        /\ Len(source) \in Nat
        /\ source' \in Seq(Sources)
        /\ Len(source') = Len(source) + 1
        /\ Len(source') <= MaxGeneration
        /\ Len(source') \in Generations
    <2>1. s.pane \in Panes /\ source \in Seq(Sources) /\ Len(source) \in Nat
      BY DEF Typing, TypeOK
    <2>2. source' = Append(source, s) /\ Len(source) + 1 <= MaxGeneration
      BY DEF Declare, Move
    <2>. QED BY <2>1, <2>2 DEF Generations
  <1>2. /\ UNCHANGED <<sessionsVars, call, sidecarVars, due, spent, abandoned>>
        /\ declared' = [declared EXCEPT ![s.pane] = Len(source')]
    BY <1>1 DEF Declare, Move
  <1>3. /\ declared \in [Panes -> 0 .. MaxGeneration]
        /\ movedTo \in [Generations -> 0 .. MaxGeneration]
        /\ pending \subseteq [op : {"start", "remove"}, gen : Generations]
        /\ declared[s.pane] # 0 => declared[s.pane] \in Generations
        /\ \A p \in Panes : declared[p] <= Len(source)
        /\ \A g \in Generations : movedTo[g] <= Len(source)
        /\ \A event \in pending : event.gen <= Len(source)
    <2>1. /\ declared \in [Panes -> 0 .. MaxGeneration]
          /\ movedTo \in [Generations -> 0 .. MaxGeneration]
          /\ pending \subseteq [op : {"start", "remove"}, gen : Generations]
      BY DEF Typing, TypeOK
    <2>2. declared[s.pane] # 0 => declared[s.pane] \in Generations
      <3>1. declared[s.pane] \in 0 .. MaxGeneration
        BY <1>1, <2>1
      <3>. QED BY <3>1 DEF Generations
    <2>. QED BY <2>1, <2>2 DEF Typing, FramesNameDeclared
  <1>4. /\ movedTo' \in [Generations -> 0 .. MaxGeneration]
        /\ \A g \in Generations : movedTo'[g] \in {movedTo[g], Len(source')}
    BY <1>1, <1>3 DEF Declare, Move
  <1>5. \A event \in pending' :
          \/ event \in pending
          \/ event = [op |-> "start", gen |-> Len(source')]
          \/ declared[s.pane] # 0 /\ event = [op |-> "remove", gen |-> declared[s.pane]]
    BY <1>1 DEF Declare, Move
  <1>6. TypeOK'
    <2>1. declared' \in [Panes -> 0 .. MaxGeneration]
      BY <1>1, <1>2, <1>3
    <2>2. pending' \subseteq [op : {"start", "remove"}, gen : Generations]
      BY <1>1, <1>3, <1>5
    <2>. QED BY <1>1, <1>2, <1>4, <2>1, <2>2 DEF Typing, TypeOK, sessionsVars, sidecarVars
  <1>7. FramesNameDeclared'
    <2>1. /\ UNCHANGED <<panes, call>>
          /\ \A p \in Panes : declared'[p] \in {declared[p], Len(source')}
      BY <1>1, <1>2, <1>3 DEF sessionsVars
    <2>2. /\ \A p \in Panes : panes[p] \in Nat /\ declared[p] \in Nat
          /\ \A event \in pending : event.gen \in Nat
          /\ \A g \in Generations : movedTo[g] \in Nat
      BY <1>3 DEF Typing, TypeOK, Generations
    <2>3. \A t \in Callers : FrameDeclared(call[t])'
      <3>1. \A t \in Callers : call[t].gen \in Nat /\ call[t].named \in Nat
        BY DEF Typing, TypeOK, Frames
      <3>. QED BY <1>1, <2>1, <3>1 DEF Typing, FramesNameDeclared, FrameDeclared
    <2>4. \A event \in pending' : event.gen <= Len(source')
      <3> SUFFICES ASSUME NEW event \in pending' PROVE event.gen <= Len(source')
        OBVIOUS
      <3>1. CASE event \in pending
        BY <1>1, <1>3, <2>2, <3>1
      <3>2. CASE event = [op |-> "start", gen |-> Len(source')]
        BY <1>1, <3>2
      <3>3. CASE event = [op |-> "remove", gen |-> declared[s.pane]]
        <4>1. event.gen = declared[s.pane]
          BY <3>3
        <4>2. declared[s.pane] \in Nat /\ declared[s.pane] <= Len(source)
          BY <1>1, <1>3, <2>2
        <4>. QED BY <1>1, <4>1, <4>2
      <3>. QED BY <1>5, <3>1, <3>2, <3>3
    <2>5. \A g \in Generations : movedTo'[g] <= Len(source')
      BY <1>1, <1>3, <1>4, <2>2
    <2>6. \A p \in Panes : panes'[p] <= Len(source') /\ declared'[p] <= Len(source')
      BY <1>1, <1>3, <2>1, <2>2 DEF Typing, FramesNameDeclared
    <2>. QED BY <2>3, <2>4, <2>5, <2>6 DEF FramesNameDeclared
  <1>. QED BY <1>6, <1>7 DEF Typing

LEMMA TypingFramed ==
  ASSUME Typing
  PROVE  /\ Framed
         /\ Len(source) \in Nat
         /\ \A t \in Callers : call[t] \in Frames
  BY DEF Typing, TypeOK, FramesNameDeclared, Framed

LEMMA SourceTyped ==
  ASSUME Typing, NEW g \in 1 .. Len(source)
  PROVE  source[g].pane \in Panes /\ Engine(g) \in Units /\ Pty(g) \in Units
  <1>1. source \in Seq(Sources)
    BY DEF Typing, TypeOK
  <1>2. source[g] \in Sources
    BY <1>1
  <1>3. source[g] \in [pane : Panes, engine : Units, pty : Units]
    BY <1>2, SourcesAssumption
  <1>. QED BY <1>3 DEF Engine, Pty

\* Updates of the heap and of what a sidecar keeps, wherever they point.
LEMMA PhaseTyped ==
  ASSUME NEW f \in [Generations -> Records], NEW g, NEW phase \in Phases
  PROVE  [f EXCEPT ![g].phase = phase] \in [Generations -> Records]
  BY DEF Records

LEMMA TokenTyped ==
  ASSUME NEW f \in [Generations -> Records], NEW g, NEW token \in BOOLEAN
  PROVE  [f EXCEPT ![g].token = token] \in [Generations -> Records]
  BY DEF Records

LEMMA SessionTyped ==
  ASSUME NEW f \in [Generations -> Records], NEW g, NEW session \in Nat
  PROVE  [f EXCEPT ![g].session = session] \in [Generations -> Records]
  BY DEF Records

LEMMA GridTyped ==
  ASSUME NEW f \in [Generations -> Records], NEW g, NEW grid \in Grids
  PROVE  [f EXCEPT ![g].grid = grid] \in [Generations -> Records]
  BY DEF Records

LEMMA KeptGridTyped ==
  ASSUME NEW K, NEW f \in [Units -> [Panes -> K]], NEW u, NEW p, NEW grid \in Grids,
         \A kept \in K : [kept EXCEPT !.grid = grid] \in K
  PROVE  [f EXCEPT ![u][p].grid = grid] \in [Units -> [Panes -> K]]
  <1> DEFINE row == [f[u] EXCEPT ![p].grid = grid]
  <1>1. u \in Units => row \in [Panes -> K]
    OBVIOUS
  <1>. QED BY <1>1

\* The parts of Typing that a goroutine's step within a call can disturb.
LEMMA BlockTyping ==
  ASSUME Typing, UNCHANGED source, NEW t \in Callers, Block(t)
  PROVE  /\ record' \in [Generations -> Records]
         /\ lock' \in [Panes -> Callers \cup {Free}]
         /\ Framed'
  <1>1. record' \in [Generations -> Records]
    BY PhaseTyped DEF Typing, TypeOK, Block, Phases
  <1>2. lock' \in [Panes -> Callers \cup {Free}]
    BY DEF Typing, TypeOK, Block, Leave
  <1>3. Framed'
    BY TypingFramed, LeaveFramed DEF Block
  <1>. QED BY <1>1, <1>2, <1>3

LEMMA InnerStepTyping ==
  ASSUME Typing,
         UNCHANGED <<panes, failed, declared, source, movedTo, pending, due, abandoned>>,
         record' \in [Generations -> Records],
         lock' \in [Panes -> Callers \cup {Free}],
         bound' \in [Panes -> Units \cup {Unbound}],
         surface' \in [Units -> [Panes -> [by : 0 .. MaxGeneration, grid : Grids]]],
         shell' \in [Units -> [Panes -> [session : Nat, grid : Grids]]],
         spent' \in [verbs : 0 .. MaxVerbs, crashes : 0 .. MaxCrashes, sessions : Nat],
         Framed'
  PROVE  Typing'
  BY DEF Typing, TypeOK, FramesNameDeclared, Framed

LEMMA ResizedTyping ==
  ASSUME Typing, NEW t \in Callers
  PROVE  Resized(t) \in [Units -> [Panes -> [session : Nat, grid : Grids]]]
  <1> DEFINE K == [session : Nat, grid : Grids]
             p == call[t].pane
             y == Pty(call[t].gen)
             grid == IF Keeps(call[t].gen, p) THEN call[t].grid ELSE shell[y][p].grid
  <1>1. shell \in [Units -> [Panes -> K]] /\ call[t].grid \in Grids
    BY TypingFramed DEF Typing, TypeOK, Frames
  <1>2. CASE y \in Units /\ p \in Panes
    <2>1. grid \in Grids
      BY <1>1, <1>2
    <2>2. \A kept \in K : [kept EXCEPT !.grid = grid] \in K
      BY <2>1
    <2>3. Resized(t) = [shell EXCEPT ![y][p].grid = grid]
      BY DEF Resized
    <2> HIDE DEF grid, y, p, K
    <2>4. [shell EXCEPT ![y][p].grid = grid] \in [Units -> [Panes -> K]]
      BY <1>1, <2>1, <2>2, KeptGridTyped
    <2>. QED BY <2>3, <2>4 DEF K
  <1>3. CASE ~(y \in Units /\ p \in Panes)
    BY <1>1, <1>3 DEF Resized
  <1>. QED BY <1>2, <1>3

LEMMA OpeningTyping ==
  ASSUME Typing, NEW t \in Callers, Opening(t) PROVE Typing'
  <1>1. /\ Framed /\ Len(source) \in Nat /\ call[t] \in Frames
        /\ {"rehydrate", "measure", "prepare", "open", "fit", "ensure", "bind", "surface"}
             \subseteq Points \cap HoldingPoints
    BY TypingFramed DEF Points, HoldingPoints, OpeningPoints
  <1>2. /\ record \in [Generations -> Records]
        /\ lock \in [Panes -> Callers \cup {Free}]
        /\ bound \in [Panes -> Units \cup {Unbound}]
        /\ surface \in [Units -> [Panes -> [by : 0 .. MaxGeneration, grid : Grids]]]
        /\ shell \in [Units -> [Panes -> [session : Nat, grid : Grids]]]
        /\ spent \in [verbs : 0 .. MaxVerbs, crashes : 0 .. MaxCrashes, sessions : Nat]
    BY DEF Typing, TypeOK
  <1>3. CASE Rehydrate(t)
    <2>1. PICK warm \in BOOLEAN : call' = [call EXCEPT ![t].at = "measure", ![t].warm = warm]
      BY <1>3 DEF Rehydrate
    <2> DEFINE c == [call[t] EXCEPT !.at = "measure", !.warm = warm]
    <2>2. c \in Frames /\ FrameDeclared(c)
      BY <1>1, <1>3 DEF Rehydrate, Framed, FrameDeclared, Frames, At
    <2>3. call' = [call EXCEPT ![t] = c]
      BY <2>1, <1>1 DEF Framed
    <2> HIDE DEF c
    <2>4. Framed'
      BY <1>1, <1>3, <2>2, <2>3, FrameChange DEF Rehydrate, hostVars
    <2>. QED BY <1>2, <1>3, <2>4, InnerStepTyping DEF Rehydrate, sessionsVars, sidecarVars, hostVars
  <1>4. CASE Measure(t)
    <2>1. CASE Block(t)
      BY <1>2, <1>4, <2>1, BlockTyping, InnerStepTyping DEF Measure, sidecarVars, hostVars
    <2>2. CASE ~Block(t)
      <3>1. Framed'
        <4>1. PICK point \in {"open", "prepare"}, grid \in Grids :
                call' = [call EXCEPT ![t].at = point, ![t].grid = grid]
          BY <1>4, <2>2 DEF Measure
        <4> DEFINE c == [call[t] EXCEPT !.at = point, !.grid = grid]
        <4>2. c \in Frames /\ FrameDeclared(c)
          BY <1>1, <1>4 DEF Measure, Framed, FrameDeclared, Frames, At
        <4>3. call' = [call EXCEPT ![t] = c]
          BY <4>1, <1>1 DEF Framed
        <4> HIDE DEF c
        <4>. QED BY <1>1, <1>4, <4>2, <4>3, FrameChange DEF Measure, hostVars
      <3>. QED BY <1>2, <1>4, <2>2, <3>1, InnerStepTyping DEF Measure, sidecarVars, hostVars
    <2>. QED BY <2>1, <2>2
  <1>5. CASE Prepare(t)
    <2>1. CASE Block(t)
      BY <1>2, <1>5, <2>1, BlockTyping, InnerStepTyping DEF Prepare, sidecarVars, hostVars
    <2>2. CASE ~Block(t)
      <3>1. record' \in [Generations -> Records]
        <4> DEFINE g == panes[call[t].pane]
                   f == [record EXCEPT ![g].phase = "prepared"]
        <4>1. f \in [Generations -> Records]
          BY <1>2, PhaseTyped DEF Phases
        <4>2. record' = [f EXCEPT ![g].token = TRUE]
          BY <1>5, <2>2 DEF Prepare
        <4> HIDE DEF f, g
        <4>. QED BY <4>1, <4>2, TokenTyped
      <3>2. Framed' /\ UNCHANGED lock
        <4>1. Goto(t, "open") /\ At(t, "prepare") /\ UNCHANGED source
          BY <1>5, <2>2 DEF Prepare, hostVars
        <4>. QED BY <1>1, <4>1, GotoFramed DEF Goto, At
      <3>. QED BY <1>2, <1>5, <3>1, <3>2, InnerStepTyping DEF Prepare, sidecarVars, hostVars
    <2>. QED BY <2>1, <2>2
  <1>6. CASE OpenShell(t)
    <2>1. /\ shell' \in [Units -> [Panes -> [session : Nat, grid : Grids]]]
          /\ spent' \in [verbs : 0 .. MaxVerbs, crashes : 0 .. MaxCrashes, sessions : Nat]
      <3>1. spent.sessions + 1 \in Nat /\ call[t].grid \in Grids
        BY <1>1, <1>2 DEF Frames
      <3> DEFINE K == [session : Nat, grid : Grids]
                 y == Pty(call[t].gen)
                 kept == [session |-> spent.sessions + 1, grid |-> call[t].grid]
      <3>2. \/ UNCHANGED <<shell, spent>>
            \/ /\ shell' = [shell EXCEPT ![y][call[t].pane] = kept]
               /\ spent' = [spent EXCEPT !.sessions = spent.sessions + 1]
        BY <1>6 DEF OpenShell
      <3>3. kept \in K /\ shell \in [Units -> [Panes -> K]]
        BY <1>2, <3>1
      <3>4. spent' \in [verbs : 0 .. MaxVerbs, crashes : 0 .. MaxCrashes, sessions : Nat]
        BY <1>2, <3>1, <3>2
      <3> HIDE DEF K, y, kept
      <3>5. shell' \in [Units -> [Panes -> K]]
        BY <3>2, <3>3
      <3>. QED BY <3>4, <3>5 DEF K
    <2>2. /\ record' \in [Generations -> Records]
          /\ lock' \in [Panes -> Callers \cup {Free}]
          /\ Framed'
      <3>1. CASE Block(t)
        BY <1>6, <3>1, BlockTyping DEF OpenShell
      <3>2. CASE ~Block(t)
        <4>1. PICK point \in {"fit", "ensure", "bind"} : Goto(t, point)
          BY <1>6, <3>2 DEF OpenShell, AfterOpen
        <4>2. Framed' /\ UNCHANGED lock
          BY <1>1, <1>6, <4>1, GotoFramed DEF OpenShell, Goto, At
        <4>3. PICK session \in Nat :
                record' = [record EXCEPT ![call[t].gen].session = session,
                                         ![call[t].gen].phase = "opened"]
          <5>1. /\ spent.sessions + 1 \in Nat
                /\ shell[Pty(call[t].gen)][call[t].pane].session \in Nat
            <6>1. call[t].gen \in 1 .. Len(source) /\ call[t].pane \in Panes
              BY <1>1, <1>6 DEF OpenShell, At, Framed, FrameDeclared, Frames
            <6>2. Pty(call[t].gen) \in Units
              BY <6>1, SourceTyped
            <6>. QED BY <1>2, <6>1, <6>2
          <5>. QED BY <1>6, <3>2, <5>1 DEF OpenShell
        <4>4. record' \in [Generations -> Records]
          <5> DEFINE f == [record EXCEPT ![call[t].gen].session = session]
          <5>1. f \in [Generations -> Records]
            BY <1>2, SessionTyped
          <5>2. record' = [f EXCEPT ![call[t].gen].phase = "opened"]
            BY <4>3
          <5> HIDE DEF f
          <5>. QED BY <5>1, <5>2, PhaseTyped DEF Phases
        <4>. QED BY <1>2, <4>2, <4>4
      <3>. QED BY <3>1, <3>2
    <2>. QED BY <1>2, <1>6, <2>1, <2>2, InnerStepTyping DEF OpenShell
  <1>7. CASE FitShell(t)
    <2>1. shell' \in [Units -> [Panes -> [session : Nat, grid : Grids]]]
      BY <1>2, <1>7, ResizedTyping DEF FitShell
    <2>2. CASE Block(t)
      BY <1>2, <1>7, <2>1, <2>2, BlockTyping, InnerStepTyping DEF FitShell, hostVars
    <2>3. CASE ~Block(t)
      <3>1. PICK point \in {"ensure", "bind"} : Goto(t, point)
        BY <1>7, <2>3 DEF FitShell, AfterOpen
      <3>2. Framed' /\ UNCHANGED lock
        BY <1>1, <1>7, <3>1, GotoFramed DEF FitShell, Goto, At, hostVars
      <3>. QED BY <1>2, <1>7, <2>1, <2>3, <3>2, InnerStepTyping DEF FitShell, hostVars
    <2>. QED BY <2>2, <2>3
  <1>8. CASE Ensure(t)
    <2>1. CASE Block(t)
      BY <1>2, <1>8, <2>1, BlockTyping, InnerStepTyping DEF Ensure, sidecarVars, hostVars
    <2>2. CASE ~Block(t)
      <3>1. Goto(t, "bind") /\ At(t, "ensure") /\ UNCHANGED <<source, record>>
        BY <1>8, <2>2 DEF Ensure, hostVars
      <3>2. Framed' /\ UNCHANGED lock
        BY <1>1, <3>1, GotoFramed DEF Goto, At
      <3>. QED BY <1>2, <1>8, <3>1, <3>2, InnerStepTyping DEF Ensure, sidecarVars, hostVars
    <2>. QED BY <2>1, <2>2
  <1>9. CASE Bind(t)
    <2>1. Framed' /\ UNCHANGED lock
      BY <1>1, <1>9, GotoFramed DEF Bind, Goto, At, hostVars
    <2>2. bound' \in [Panes -> Units \cup {Unbound}]
      <3>1. call[t].gen \in 1 .. Len(source)
        BY <1>1, <1>9 DEF Bind, At, Framed, FrameDeclared, Frames
      <3>2. Engine(call[t].gen) \in Units
        BY <3>1, SourceTyped
      <3>. QED BY <1>2, <1>9, <3>2 DEF Bind
    <2>. QED BY <1>2, <1>9, <2>1, <2>2, InnerStepTyping DEF Bind, hostVars
  <1>10. CASE OpenSurface(t)
    <2>1. surface' \in [Units -> [Panes -> [by : 0 .. MaxGeneration, grid : Grids]]]
      <3>1. call[t].gen \in 0 .. MaxGeneration
        BY <1>1 DEF Frames
      <3> DEFINE K == [by : 0 .. MaxGeneration, grid : Grids]
                 e == Engine(call[t].gen)
      <3>2. PICK grid \in Grids :
              \/ surface' = surface
              \/ surface' = [surface EXCEPT ![e][call[t].pane] =
                               [by |-> call[t].gen, grid |-> grid]]
        BY <1>10 DEF OpenSurface
      <3>3. [by |-> call[t].gen, grid |-> grid] \in K
        BY <3>1
      <3> HIDE DEF K, e
      <3>4. surface \in [Units -> [Panes -> K]]
        BY <1>2 DEF K
      <3>5. surface' \in [Units -> [Panes -> K]]
        BY <3>2, <3>3, <3>4
      <3>. QED BY <3>5 DEF K
    <2>2. CASE Block(t)
      BY <1>2, <1>10, <2>1, <2>2, BlockTyping, InnerStepTyping DEF OpenSurface, hostVars
    <2>3. CASE ~Block(t)
      <3>1. record' \in [Generations -> Records]
        <4>1. PICK grid \in Grids :
                record' = [record EXCEPT ![call[t].gen].grid = grid, ![call[t].gen].phase = "live"]
          BY <1>10, <2>3 DEF OpenSurface
        <4> DEFINE f == [record EXCEPT ![call[t].gen].grid = grid]
        <4>2. f \in [Generations -> Records]
          BY <1>2, GridTyped
        <4>3. record' = [f EXCEPT ![call[t].gen].phase = "live"]
          BY <4>1
        <4> HIDE DEF f
        <4>. QED BY <4>2, <4>3, PhaseTyped DEF Phases
      <3>2. lock' \in [Panes -> Callers \cup {Free}] /\ Framed'
        <4>1. Leave(t) /\ UNCHANGED source
          BY <1>10, <2>3 DEF OpenSurface, hostVars
        <4>. QED BY <1>1, <1>2, <4>1, LeaveFramed DEF Leave
      <3>. QED BY <1>2, <1>10, <2>1, <3>1, <3>2, InnerStepTyping DEF OpenSurface, hostVars
    <2>. QED BY <2>2, <2>3
  <1>. QED BY <1>3, <1>4, <1>5, <1>6, <1>7, <1>8, <1>9, <1>10 DEF Opening

\* Steps that install or drop a record, or leave a trace of a failure.
LEMMA OuterStepTyping ==
  ASSUME Typing,
         UNCHANGED <<bound, declared, source, movedTo, pending, due, spent>>,
         panes' \in [Panes -> 0 .. MaxGeneration],
         \A p \in Panes : panes'[p] \in {0, panes[p]} \/ panes'[p] <= Len(source),
         failed' \in [Panes -> 0 .. MaxGeneration],
         record' \in [Generations -> Records],
         lock' \in [Panes -> Callers \cup {Free}],
         surface' \in [Units -> [Panes -> [by : 0 .. MaxGeneration, grid : Grids]]],
         shell' \in [Units -> [Panes -> [session : Nat, grid : Grids]]],
         abandoned' \subseteq Generations,
         Framed'
  PROVE  Typing'
  <1>1. TypeOK'
    BY DEF Typing, TypeOK, Framed
  <1>2. FramesNameDeclared'
    <2>1. \A p \in Panes : panes'[p] <= Len(source') /\ declared'[p] <= Len(source')
      <3>1. Len(source) \in Nat /\ source' = source /\ declared' = declared
        BY TypingFramed
      <3>2. \A p \in Panes : panes[p] <= Len(source) /\ declared[p] <= Len(source)
        BY DEF Typing, FramesNameDeclared
      <3>3. ASSUME NEW p \in Panes PROVE panes'[p] <= Len(source)
        <4>1. CASE panes'[p] = 0
          BY <3>1, <4>1
        <4>2. CASE panes'[p] = panes[p]
          BY <3>2, <4>2
        <4>. QED BY <4>1, <4>2
      <3>. QED BY <3>1, <3>2, <3>3
    <2>2. /\ \A event \in pending' : event.gen <= Len(source')
          /\ \A g \in Generations : movedTo'[g] <= Len(source')
      BY DEF Typing, FramesNameDeclared
    <2>. QED BY <2>1, <2>2 DEF FramesNameDeclared, Framed
  <1>. QED BY <1>1, <1>2 DEF Typing

LEMMA StartTyping ==
  ASSUME Typing, NEW t \in Callers, StartUnits(t) \/ InstallStart(t) \/ StaleStart(t)
  PROVE  Typing'
  <1>1. /\ Framed /\ Len(source) \in Nat /\ Len(source) <= MaxGeneration /\ call[t] \in Frames
        /\ MaxGeneration \in Nat
    BY TypingFramed, BoundsAssumption DEF Typing, TypeOK
  <1>2. /\ panes \in [Panes -> 0 .. MaxGeneration]
        /\ failed \in [Panes -> 0 .. MaxGeneration]
        /\ record \in [Generations -> Records]
        /\ lock \in [Panes -> Callers \cup {Free}]
        /\ surface \in [Units -> [Panes -> [by : 0 .. MaxGeneration, grid : Grids]]]
        /\ shell \in [Units -> [Panes -> [session : Nat, grid : Grids]]]
        /\ abandoned \subseteq Generations
    BY DEF Typing, TypeOK
  <1>3. {"lock", "rehydrate"} \subseteq Points /\ "lock" \notin HoldingPoints \cup ResizePoints
    BY DEF Points, HoldingPoints, OpeningPoints, ClosingPoints, ResizePoints
  <1>4. CASE StartUnits(t)
    <2>1. failed' \in [Panes -> 0 .. MaxGeneration]
      BY <1>1, <1>2, <1>4 DEF StartUnits, RecordPreStartFailure, Frames
    <2>2. Framed' /\ UNCHANGED lock
      <3>1. UNCHANGED source /\ (Goto(t, "lock") \/ Return(t))
        BY <1>4 DEF StartUnits, hostVars
      <3>. QED BY <1>1, <1>3, <3>1, GotoFramed, ReturnFramed DEF Goto, Return
    <2>. QED BY <1>2, <1>4, <2>1, <2>2, OuterStepTyping DEF StartUnits, sidecarVars, hostVars
  <1>5. CASE InstallStart(t)
    <2> DEFINE p == call[t].pane
               g == call[t].named
               c == [call[t] EXCEPT !.at = "rehydrate", !.gen = g]
    <2>1. p \in Panes /\ g \in 0 .. MaxGeneration /\ panes[p] < g
      BY <1>1, <1>2, <1>5 DEF InstallStart, Framed, FrameDeclared, Frames
    <2>2. g \in Generations /\ g <= Len(source)
      BY <1>1, <1>2, <2>1, <1>5 DEF Generations, Framed, FrameDeclared, InstallStart, Frames
    <2>3. c \in Frames /\ FrameDeclared(c)
      <3>1. c \in Frames
        BY <1>1, <1>3, <2>2 DEF Frames, Generations
      <3>2. FrameDeclared(c)
        BY <1>1, <1>3, <2>1, <2>2 DEF Frames, Framed, FrameDeclared, Generations
      <3>. QED BY <3>1, <3>2
    <2>4. call' = [call EXCEPT ![t] = c]
      BY <1>1, <1>5 DEF InstallStart, Framed
    <2>5. Framed'
      <3> HIDE DEF c
      <3>. QED BY <1>1, <1>5, <2>3, <2>4, FrameChange DEF InstallStart, hostVars
    <2>6. NewRecord \in Records
      BY GridsAssumption DEF NewRecord, Records, Phases
    <2>7. /\ panes' = [panes EXCEPT ![p] = g]
          /\ failed' = [failed EXCEPT ![p] = 0]
          /\ record' = [record EXCEPT ![g] = NewRecord]
          /\ lock' = [lock EXCEPT ![p] = t]
      BY <1>5 DEF InstallStart, Acquire
    <2>8. /\ panes' \in [Panes -> 0 .. MaxGeneration]
          /\ \A q \in Panes : panes'[q] \in {0, panes[q]} \/ panes'[q] <= Len(source)
          /\ failed' \in [Panes -> 0 .. MaxGeneration]
          /\ record' \in [Generations -> Records]
          /\ lock' \in [Panes -> Callers \cup {Free}]
      BY <1>1, <1>2, <2>1, <2>2, <2>6, <2>7
    <2>. QED BY <1>2, <1>5, <2>5, <2>8, OuterStepTyping DEF InstallStart, sidecarVars, hostVars
  <1>6. CASE StaleStart(t)
    <2>1. Framed' /\ UNCHANGED lock
      BY <1>1, <1>6, ReturnFramed DEF StaleStart, hostVars, Return
    <2>. QED BY <1>2, <1>6, <2>1, OuterStepTyping DEF StaleStart, sidecarVars, hostVars
  <1>. QED BY <1>4, <1>5, <1>6

LEMMA RestartTyping ==
  ASSUME Typing, NEW t \in Callers, LockRestart(t) \/ SkipRestart(t)
  PROVE  Typing'
  <1>1. /\ Framed /\ Len(source) \in Nat /\ call[t] \in Frames
        /\ panes \in [Panes -> 0 .. MaxGeneration]
        /\ \A p \in Panes : panes[p] <= Len(source)
        /\ record \in [Generations -> Records]
        /\ lock \in [Panes -> Callers \cup {Free}]
    BY TypingFramed DEF Typing, TypeOK, FramesNameDeclared
  <1>2. /\ bound \in [Panes -> Units \cup {Unbound}]
        /\ surface \in [Units -> [Panes -> [by : 0 .. MaxGeneration, grid : Grids]]]
        /\ shell \in [Units -> [Panes -> [session : Nat, grid : Grids]]]
        /\ spent \in [verbs : 0 .. MaxVerbs, crashes : 0 .. MaxCrashes, sessions : Nat]
    BY DEF Typing, TypeOK
  <1>3. CASE LockRestart(t)
    <2>1. PICK p \in call[t].todo :
            /\ panes[p] # 0
            /\ lock' = [lock EXCEPT ![p] = t]
            /\ record' = [record EXCEPT ![panes[p]].phase = "opening",
                                        ![panes[p]].token = FALSE]
            /\ call' = [call EXCEPT ![t].at = "rehydrate", ![t].pane = p,
                                    ![t].gen = panes[p], ![t].todo = @ \ {p}]
      BY <1>3 DEF LockRestart, Acquire
    <2> DEFINE c == [call[t] EXCEPT !.at = "rehydrate", !.pane = p,
                                    !.gen = panes[p], !.todo = @ \ {p}]
    <2>2. p \in Panes /\ panes[p] \in 0 .. MaxGeneration
      BY <1>1 DEF Frames
    <2>3. c \in Frames
      BY <1>1, <2>2 DEF Frames, Points, HoldingPoints, OpeningPoints
    <2>4. FrameDeclared(c)
      BY <1>1, <2>1, <2>2 DEF FrameDeclared, Framed, Frames
    <2>5. call' = [call EXCEPT ![t] = c]
      BY <1>1, <2>1 DEF Framed
    <2>6. Framed'
      <3> HIDE DEF c
      <3>. QED BY <1>1, <1>3, <2>3, <2>4, <2>5, FrameChange DEF LockRestart, hostVars
    <2>7. record' \in [Generations -> Records]
      <3> DEFINE f == [record EXCEPT ![panes[p]].phase = "opening"]
      <3>1. f \in [Generations -> Records]
        BY <1>1, PhaseTyped DEF Phases
      <3>2. record' = [f EXCEPT ![panes[p]].token = FALSE]
        BY <2>1
      <3> HIDE DEF f
      <3>. QED BY <3>1, <3>2, TokenTyped
    <2>8. lock' \in [Panes -> Callers \cup {Free}]
      BY <1>1, <2>1
    <2>. QED BY <1>2, <1>3, <2>6, <2>7, <2>8, InnerStepTyping
             DEF LockRestart, sidecarVars, hostVars
  <1>4. CASE SkipRestart(t)
    <2>1. PICK p \in call[t].todo :
            call' = [call EXCEPT ![t] = IF call[t].todo = {p} THEN Idle
                                        ELSE [call[t] EXCEPT !.todo = @ \ {p}]]
      BY <1>4 DEF SkipRestart
    <2> DEFINE c == IF call[t].todo = {p} THEN Idle ELSE [call[t] EXCEPT !.todo = @ \ {p}]
    <2>2. c \in Frames
      BY <1>1, IdleFrame DEF Frames
    <2>3. FrameDeclared(c)
      BY <1>1, IdleFrame DEF FrameDeclared, Framed, Frames
    <2>4. call' = [call EXCEPT ![t] = c]
      BY <2>1
    <2>5. Framed'
      <3> HIDE DEF c
      <3>. QED BY <1>1, <1>4, <2>2, <2>3, <2>4, FrameChange DEF SkipRestart, hostVars
    <2>. QED BY <1>1, <1>2, <1>4, <2>5, InnerStepTyping
             DEF SkipRestart, sessionsVars, sidecarVars, hostVars
  <1>. QED BY <1>3, <1>4

LEMMA ClosingTyping ==
  ASSUME Typing, NEW t \in Callers,
         LockClosing(t) \/ SkipClosing(t) \/ CloseSurface(t) \/ Detach(t) \/ CloseShell(t)
  PROVE  Typing'
  <1>1. /\ Framed /\ Len(source) \in Nat /\ call[t] \in Frames
        /\ \A p \in Panes : panes[p] <= Len(source)
    BY TypingFramed DEF Typing, FramesNameDeclared
  <1>2. /\ panes \in [Panes -> 0 .. MaxGeneration]
        /\ failed \in [Panes -> 0 .. MaxGeneration]
        /\ record \in [Generations -> Records]
        /\ lock \in [Panes -> Callers \cup {Free}]
        /\ surface \in [Units -> [Panes -> [by : 0 .. MaxGeneration, grid : Grids]]]
        /\ shell \in [Units -> [Panes -> [session : Nat, grid : Grids]]]
        /\ abandoned \subseteq Generations
    BY DEF Typing, TypeOK
  <1>3. ClosingPoints \subseteq Points \cap HoldingPoints
    BY DEF Points, HoldingPoints
  <1>4. ASSUME At(t, "closeSurface") \/ At(t, "detach") \/ At(t, "close"), UNCHANGED source,
               \/ Abandon(t) \/ Drop(t)
               \/ (Goto(t, "detach") \/ Goto(t, "close")) /\ UNCHANGED <<panes, abandoned>>
        PROVE  /\ panes' \in [Panes -> 0 .. MaxGeneration]
               /\ \A p \in Panes : panes'[p] \in {0, panes[p]} \/ panes'[p] <= Len(source)
               /\ abandoned' \subseteq Generations
               /\ lock' \in [Panes -> Callers \cup {Free}]
               /\ Framed'
    <2>1. call[t].at \in HoldingPoints
      BY <1>3, <1>4 DEF At, ClosingPoints
    <2>2. call[t].gen \in Generations
      BY <1>1, <2>1, BoundsAssumption DEF Framed, FrameDeclared, Frames, Generations
    <2>3. /\ panes' \in [Panes -> 0 .. MaxGeneration]
          /\ \A p \in Panes : panes'[p] \in {0, panes[p]} \/ panes'[p] <= Len(source)
          /\ abandoned' \subseteq Generations
      BY <1>1, <1>2, <1>4, <2>2, BoundsAssumption DEF Abandon, Drop
    <2>4. lock' \in [Panes -> Callers \cup {Free}]
      BY <1>2, <1>4 DEF Abandon, Drop, Leave, Goto
    <2>5. Framed'
      <3>1. {"detach", "close"} \subseteq Points
        BY <1>3 DEF ClosingPoints
      <3>2. Leave(t) \/ Goto(t, "detach") \/ Goto(t, "close")
        BY <1>4 DEF Abandon, Drop
      <3>. QED BY <1>1, <1>4, <2>1, <3>1, <3>2, GotoFramed, LeaveFramed
    <2>. QED BY <2>3, <2>4, <2>5
  <1>5. CASE LockClosing(t)
    <2> DEFINE p == call[t].pane
               c == [call[t] EXCEPT !.at = "closeSurface", !.gen = panes[p]]
    <2>1. p \in Panes /\ panes[p] # 0 /\ lock' = [lock EXCEPT ![p] = t]
      BY <1>1, <1>5 DEF LockClosing, Acquire, Framed, FrameDeclared
    <2>2. c \in Frames
      BY <1>1, <1>2, <1>3, <2>1 DEF Frames, ClosingPoints
    <2>3. FrameDeclared(c)
      BY <1>1, <2>1 DEF FrameDeclared, Framed, Frames
    <2>4. call' = [call EXCEPT ![t] = c]
      BY <1>1, <1>5 DEF LockClosing, Framed
    <2>5. Framed'
      <3> HIDE DEF c
      <3>. QED BY <1>1, <1>5, <2>2, <2>3, <2>4, FrameChange DEF LockClosing, hostVars
    <2>6. lock' \in [Panes -> Callers \cup {Free}]
      BY <1>2, <2>1
    <2>. QED BY <1>2, <1>5, <2>5, <2>6, OuterStepTyping DEF LockClosing, sidecarVars, hostVars
  <1>6. CASE SkipClosing(t)
    <2>1. Framed' /\ UNCHANGED lock
      BY <1>1, <1>6, ReturnFramed DEF SkipClosing, hostVars, Return
    <2>. QED BY <1>2, <1>6, <2>1, OuterStepTyping DEF SkipClosing, sidecarVars, hostVars
  <1>7. CASE CloseSurface(t)
    <2>1. surface' \in [Units -> [Panes -> [by : 0 .. MaxGeneration, grid : Grids]]]
      <3> DEFINE K == [by : 0 .. MaxGeneration, grid : Grids]
                 e == Engine(call[t].gen)
      <3>1. NoSurface \in K
        BY GridsAssumption, BoundsAssumption DEF NoSurface
      <3>2. surface' = surface \/ surface' = [surface EXCEPT ![e][call[t].pane] = NoSurface]
        BY <1>7 DEF CloseSurface
      <3> HIDE DEF K, e
      <3>3. surface \in [Units -> [Panes -> K]]
        BY <1>2 DEF K
      <3>4. surface' \in [Units -> [Panes -> K]]
        BY <3>1, <3>2, <3>3
      <3>. QED BY <3>4 DEF K
    <2>2. /\ At(t, "closeSurface") /\ UNCHANGED source
          /\ Abandon(t) \/ (Goto(t, "detach") /\ UNCHANGED <<panes, abandoned>>)
      BY <1>7 DEF CloseSurface, hostVars
    <2>. QED BY <1>2, <1>4, <1>7, <2>1, <2>2, OuterStepTyping DEF CloseSurface, hostVars
  <1>8. CASE Detach(t)
    <2>1. /\ At(t, "detach") /\ UNCHANGED source
          /\ Abandon(t) \/ Drop(t) \/ (Goto(t, "close") /\ UNCHANGED <<panes, abandoned>>)
      BY <1>8 DEF Detach, hostVars
    <2>. QED BY <1>2, <1>4, <1>8, <2>1, OuterStepTyping DEF Detach, sidecarVars, hostVars
  <1>9. CASE CloseShell(t)
    <2>1. shell' \in [Units -> [Panes -> [session : Nat, grid : Grids]]]
      <3> DEFINE K == [session : Nat, grid : Grids]
                 y == Pty(call[t].gen)
      <3>1. NoShell \in K
        BY GridsAssumption DEF NoShell
      <3>2. shell' = shell \/ shell' = [shell EXCEPT ![y][call[t].pane] = NoShell]
        BY <1>9 DEF CloseShell
      <3> HIDE DEF K, y
      <3>3. shell \in [Units -> [Panes -> K]]
        BY <1>2 DEF K
      <3>4. shell' \in [Units -> [Panes -> K]]
        BY <3>1, <3>2, <3>3
      <3>. QED BY <3>4 DEF K
    <2>2. At(t, "close") /\ UNCHANGED source /\ (Abandon(t) \/ Drop(t))
      BY <1>9 DEF CloseShell, hostVars
    <2>. QED BY <1>2, <1>4, <1>9, <2>1, <2>2, OuterStepTyping DEF CloseShell, hostVars
  <1>. QED BY <1>5, <1>6, <1>7, <1>8, <1>9

LEMMA ResizeTyping ==
  ASSUME Typing, NEW t \in Callers, ResizeSurface(t) \/ ResizeShell(t) \/ NoteGrid(t)
  PROVE  Typing'
  <1>1. /\ Framed /\ Len(source) \in Nat /\ call[t] \in Frames
        /\ {"resizeShell", "noteGrid"} \subseteq Points
    BY TypingFramed DEF Points, ResizePoints
  <1>2. /\ record \in [Generations -> Records]
        /\ lock \in [Panes -> Callers \cup {Free}]
        /\ bound \in [Panes -> Units \cup {Unbound}]
        /\ surface \in [Units -> [Panes -> [by : 0 .. MaxGeneration, grid : Grids]]]
        /\ shell \in [Units -> [Panes -> [session : Nat, grid : Grids]]]
        /\ spent \in [verbs : 0 .. MaxVerbs, crashes : 0 .. MaxCrashes, sessions : Nat]
    BY DEF Typing, TypeOK
  <1>3. CASE ResizeSurface(t)
    <2>1. PICK grid \in Grids :
            /\ \/ surface' = surface
               \/ surface' = [surface EXCEPT ![Engine(call[t].gen)][call[t].pane].grid = grid]
            /\ \/ call' = [call EXCEPT ![t].at = "resizeShell", ![t].grid = grid] /\ UNCHANGED lock
               \/ Return(t)
      BY <1>3 DEF ResizeSurface
    <2>2. surface' \in [Units -> [Panes -> [by : 0 .. MaxGeneration, grid : Grids]]]
      <3> DEFINE K == [by : 0 .. MaxGeneration, grid : Grids]
                 e == Engine(call[t].gen)
      <3>1. \A kept \in K : [kept EXCEPT !.grid = grid] \in K
        OBVIOUS
      <3>2. surface' = surface \/ surface' = [surface EXCEPT ![e][call[t].pane].grid = grid]
        BY <2>1
      <3> HIDE DEF K, e
      <3>3. surface \in [Units -> [Panes -> K]]
        BY <1>2 DEF K
      <3>4. [surface EXCEPT ![e][call[t].pane].grid = grid] \in [Units -> [Panes -> K]]
        BY <3>1, <3>3, KeptGridTyped
      <3>5. surface' \in [Units -> [Panes -> K]]
        BY <3>2, <3>3, <3>4
      <3>. QED BY <3>5 DEF K
    <2>3. Framed' /\ UNCHANGED lock
      <3>1. CASE Return(t)
        BY <1>1, <1>3, <3>1, ReturnFramed DEF ResizeSurface, hostVars, Return
      <3>2. CASE ~Return(t)
        <4> DEFINE c == [call[t] EXCEPT !.at = "resizeShell", !.grid = grid]
        <4>1. c \in Frames /\ FrameDeclared(c)
          BY <1>1, <1>3 DEF ResizeSurface, Framed, FrameDeclared, Frames, At, ResizePoints
        <4>2. call' = [call EXCEPT ![t] = c] /\ UNCHANGED lock
          BY <1>1, <2>1, <3>2 DEF Framed
        <4> HIDE DEF c
        <4>. QED BY <1>1, <1>3, <4>1, <4>2, FrameChange DEF ResizeSurface, hostVars
      <3>. QED BY <3>1, <3>2
    <2>. QED BY <1>2, <1>3, <2>2, <2>3, InnerStepTyping DEF ResizeSurface, hostVars
  <1>4. CASE ResizeShell(t)
    <2>1. shell' \in [Units -> [Panes -> [session : Nat, grid : Grids]]]
      BY <1>2, <1>4, ResizedTyping DEF ResizeShell
    <2>2. Framed' /\ UNCHANGED lock
      <3>1. Goto(t, "noteGrid") \/ Return(t)
        BY <1>4 DEF ResizeShell
      <3>. QED BY <1>1, <1>4, <3>1, GotoFramed, ReturnFramed
               DEF ResizeShell, hostVars, Goto, Return, At, ResizePoints
    <2>. QED BY <1>2, <1>4, <2>1, <2>2, InnerStepTyping DEF ResizeShell, hostVars
  <1>5. CASE NoteGrid(t)
    <2>1. record' \in [Generations -> Records]
      <3>1. call[t].grid \in Grids
        BY <1>1 DEF Frames
      <3>. QED BY <1>2, <1>5, <3>1, GridTyped DEF NoteGrid
    <2>2. Framed' /\ UNCHANGED lock
      BY <1>1, <1>5, ReturnFramed DEF NoteGrid, hostVars, Return
    <2>. QED BY <1>2, <1>5, <2>1, <2>2, InnerStepTyping DEF NoteGrid, sidecarVars, hostVars
  <1>. QED BY <1>3, <1>4, <1>5

LEMMA WorldTyping ==
  ASSUME Typing, World PROVE Typing'
  <1>1. CASE \E s \in Sources : Declare(s) \/ Move(s)
    BY <1>1, DeclareTyping
  <1>2. ASSUME NEW p \in Panes, Undeclare(p) PROVE Typing'
    <2>1. declared[p] \in Generations /\ declared[p] <= Len(source)
      BY <1>2, BoundsAssumption DEF Undeclare, Typing, TypeOK, FramesNameDeclared, Generations
    <2>2. TypeOK'
      BY <1>2, <2>1, BoundsAssumption DEF Typing, TypeOK, Undeclare, sessionsVars, sidecarVars
    <2>3. /\ \A q \in Panes : panes'[q] <= Len(source') /\ declared'[q] <= Len(source')
          /\ \A g \in Generations : movedTo'[g] <= Len(source')
          /\ \A event \in pending' : event.gen <= Len(source')
      BY <1>2, <2>1, TypingFramed
         DEF Typing, TypeOK, FramesNameDeclared, Undeclare, sessionsVars
    <2>4. \A t \in Callers : FrameDeclared(call[t])'
      BY <1>2 DEF Typing, FramesNameDeclared, FrameDeclared, Undeclare
    <2>. QED BY <2>2, <2>3, <2>4 DEF Typing, FramesNameDeclared
  <1>3. ASSUME NEW u \in Units, Crash(u) PROVE Typing'
    <2>1. /\ surface' \in [Units -> [Panes -> [by : 0 .. MaxGeneration, grid : Grids]]]
          /\ shell' \in [Units -> [Panes -> [session : Nat, grid : Grids]]]
      <3>1. /\ [p \in Panes |-> NoSurface] \in [Panes -> [by : 0 .. MaxGeneration, grid : Grids]]
            /\ [p \in Panes |-> NoShell] \in [Panes -> [session : Nat, grid : Grids]]
        BY GridsAssumption, BoundsAssumption DEF NoSurface, NoShell
      <3>. QED BY <1>3, <3>1 DEF Crash, Typing, TypeOK
    <2>2. spent' \in [verbs : 0 .. MaxVerbs, crashes : 0 .. MaxCrashes, sessions : Nat]
      <3>1. /\ spent \in [verbs : 0 .. MaxVerbs, crashes : 0 .. MaxCrashes, sessions : Nat]
            /\ spent.crashes < MaxCrashes
            /\ spent' = [spent EXCEPT !.crashes = spent.crashes + 1]
        BY <1>3 DEF Crash, Typing, TypeOK
      <3>2. spent.crashes + 1 \in 0 .. MaxCrashes
        BY <3>1, BoundsAssumption
      <3>. QED BY <3>1, <3>2
    <2>3. TypeOK'
      BY <1>3, <2>1, <2>2 DEF Crash, Typing, TypeOK, sessionsVars
    <2>4. FramesNameDeclared'
      BY <1>3 DEF Crash, Typing, FramesNameDeclared, FrameDeclared, sessionsVars
    <2>. QED BY <2>3, <2>4 DEF Typing
  <1>. QED BY <1>1, <1>2, <1>3 DEF World

\* Taking up a call changes the goroutine's frame and uses up an event, a due
\* unit or a verb.
LEMMA TakeUpTyping ==
  ASSUME Typing, Framed',
         UNCHANGED <<sessionsVars, sidecarVars, declared, source, movedTo, abandoned>>,
         pending' \subseteq pending, due' \subseteq due,
         spent' \in [verbs : 0 .. MaxVerbs, crashes : 0 .. MaxCrashes, sessions : Nat]
  PROVE  Typing'
  BY DEF Typing, TypeOK, FramesNameDeclared, Framed, sessionsVars, sidecarVars

LEMMA BeginTyping ==
  ASSUME Typing, NEW t \in Callers, Begin(t) \/ Verb(t) PROVE Typing'
  <1>1. /\ Framed /\ Len(source) \in Nat
        /\ spent \in [verbs : 0 .. MaxVerbs, crashes : 0 .. MaxCrashes, sessions : Nat]
        /\ Idle \in Frames /\ FrameDeclared(Idle)
    BY TypingFramed, IdleFrame DEF Typing, TypeOK
  <1>2. /\ {"units", "lock", "resizeSurface"} \subseteq Points
        /\ {"units", "lock"} \cap (HoldingPoints \cup ResizePoints) = {}
    BY DEF Points, HoldingPoints, OpeningPoints, ClosingPoints, ResizePoints
  <1>3. ASSUME NEW event \in [op : {"start", "remove"}, gen : Generations],
               NEW point \in {"units", "lock"}, BeginEvent(t, event, point)
        PROVE  Typing'
    <2> DEFINE c == [Idle EXCEPT !.op = event.op, !.at = point, !.named = event.gen,
                                 !.pane = source[event.gen].pane]
    <2>1. event \in pending /\ event.gen \in Generations /\ event.gen <= Len(source)
      BY <1>3 DEF BeginEvent, Typing, FramesNameDeclared
    <2>2. source[event.gen].pane \in Panes
      BY <2>1, SourceTyped DEF Generations
    <2>3. c \in Frames
      <3>1. event.op \in Operations /\ event.gen \in 0 .. MaxGeneration
        BY DEF Operations, Generations
      <3>. QED BY <1>1, <1>2, <2>2, <3>1 DEF Frames
    <2>4. FrameDeclared(c)
      BY <1>1, <1>2, <2>1, <2>2 DEF FrameDeclared, Idle
    <2>5. call' = [call EXCEPT ![t] = c] /\ UNCHANGED source
      BY <1>3 DEF BeginEvent
    <2> HIDE DEF c
    <2>6. Framed'
      BY <1>1, <2>3, <2>4, <2>5, FrameChange
    <2>. QED BY <1>1, <1>3, <2>6, TakeUpTyping DEF BeginEvent
  <1>4. ASSUME NEW u \in Units, BeginRestart(t, u) PROVE Typing'
    <2> DEFINE dependents == {p \in Panes : panes[p] # 0 /\ DependsOn(panes[p], u)}
               c == [Idle EXCEPT !.op = "restart", !.at = "lock", !.unit = u,
                                 !.todo = dependents]
    <2>1. c \in Frames
      BY <1>1, <1>2 DEF Frames, Operations
    <2>2. FrameDeclared(c)
      BY <1>1, <1>2 DEF FrameDeclared, Idle
    <2>3. call' = call \/ call' = [call EXCEPT ![t] = c]
      BY <1>4 DEF BeginRestart
    <2> HIDE DEF c
    <2>4. Framed'
      <3>1. CASE call' = call
        BY <1>1, <1>4, <3>1 DEF BeginRestart, Framed, FrameDeclared
      <3>2. CASE call' = [call EXCEPT ![t] = c]
        BY <1>1, <1>4, <2>1, <2>2, <3>2, FrameChange DEF BeginRestart
      <3>. QED BY <2>3, <3>1, <3>2
    <2>. QED BY <1>1, <1>4, <2>4, TakeUpTyping DEF BeginRestart
  <1>5. ASSUME NEW p \in Panes, BeginVerb(t), NEW c \in Frames, FrameDeclared(c),
               call' = [call EXCEPT ![t] = c]
        PROVE  Typing'
    <2>1. spent' \in [verbs : 0 .. MaxVerbs, crashes : 0 .. MaxCrashes, sessions : Nat]
      BY <1>1, <1>5, BoundsAssumption DEF BeginVerb
    <2>2. Framed'
      BY <1>1, <1>5, FrameChange DEF BeginVerb
    <2>. QED BY <1>5, <2>1, <2>2, TakeUpTyping DEF BeginVerb
  <1>6. ASSUME NEW p \in Panes, NEW op \in {"stopDetach", "stopClose"}, BeginStop(t, p, op)
        PROVE  Typing'
    <2> DEFINE c == [Idle EXCEPT !.op = op, !.at = "lock", !.pane = p]
    <2>1. c \in Frames
      BY <1>1, <1>2 DEF Frames, Operations
    <2>2. FrameDeclared(c)
      BY <1>1, <1>2 DEF FrameDeclared, Idle
    <2>. QED BY <1>5, <1>6, <2>1, <2>2 DEF BeginStop
  <1>7. ASSUME NEW p \in Panes, BeginResize(t, p) PROVE Typing'
    <2> DEFINE c == [Idle EXCEPT !.op = "resize", !.at = "resizeSurface", !.pane = p,
                                 !.gen = panes[p]]
    <2>1. panes[p] \in 0 .. MaxGeneration /\ panes[p] # 0 /\ panes[p] <= Len(source)
      BY <1>7 DEF BeginResize, Typing, TypeOK, FramesNameDeclared
    <2>2. c \in Frames
      BY <1>1, <1>2, <2>1 DEF Frames, Operations
    <2>3. FrameDeclared(c)
      BY <1>1, <1>2, <2>1 DEF FrameDeclared, Idle
    <2>. QED BY <1>5, <1>7, <2>2, <2>3 DEF BeginResize
  <1>. QED BY <1>3, <1>4, <1>6, <1>7 DEF Begin, Verb, BeginStart, BeginRemove

LEMMA NextTyping == Typing /\ [Next]_vars => Typing'
  <1> SUFFICES ASSUME Typing, [Next]_vars PROVE Typing'
    OBVIOUS
  <1>1. CASE UNCHANGED vars
    BY <1>1 DEF Typing, TypeOK, FramesNameDeclared, FrameDeclared, vars
  <1>2. CASE World
    BY <1>2, WorldTyping
  <1>3. ASSUME NEW t \in Callers, Begin(t) \/ Verb(t) \/ Step(t) PROVE Typing'
    BY <1>3, BeginTyping, StartTyping, RestartTyping, OpeningTyping, ClosingTyping, ResizeTyping
       DEF Step
  <1>. QED BY <1>1, <1>2, <1>3 DEF Next, Rest

\* The sessions' maps, records and goroutines keep their types, and each of
\* them names declared generations only.
THEOREM TypeCorrect == Spec => []TypeOK
  <1>1. Spec => []Typing
    BY InitTyping, NextTyping, PTL DEF Spec
  <1>. QED BY <1>1, PTL DEF Typing

-----------------------------------------------------------------------------
(* The pane's lock *)

\* The record a Remove works on is of the generation it names.
RemoveNamesItsRecord ==
  \A t \in Callers : call[t].op = "remove" /\ call[t].at \in ClosingPoints =>
    call[t].gen = call[t].named

\* The inductive invariant: the lock, the goroutine that holds it and the
\* record it works on determine each other.
Locking == LockGuardsRecord /\ RemoveNamesItsRecord

LEMMA InitLocking == Init => Locking
  BY CallersAssumption
  DEF Init, Locking, LockGuardsRecord, RemoveNamesItsRecord, Idle, HoldingPoints,
      OpeningPoints, ClosingPoints

OthersUnchanged(t) == \A u \in Callers \ {t} : call'[u] = call[u]

\* A goroutine goes on with the record whose lock it holds.
LEMMA KeepLocking ==
  ASSUME Typing, Locking, NEW t \in Callers, UNCHANGED <<lock, panes>>, OthersUnchanged(t),
         call[t].at \in HoldingPoints, call'[t].at \in HoldingPoints,
         call'[t].pane = call[t].pane, call'[t].gen = call[t].gen,
         call'[t].op = call[t].op, call'[t].named = call[t].named,
         call'[t].at \in ClosingPoints => call[t].at \in ClosingPoints
  PROVE  Locking'
  <1>1. LockGuardsRecord'
    <2>1. lock \in [Panes -> Callers \cup {Free}]
      BY DEF Typing, TypeOK
    <2>. QED BY <2>1, CallersAssumption DEF Locking, LockGuardsRecord, OthersUnchanged
  <1>2. RemoveNamesItsRecord'
    BY DEF Locking, RemoveNamesItsRecord, OthersUnchanged
  <1>. QED BY <1>1, <1>2 DEF Locking

\* A goroutine that holds no lock, and takes none.
LEMMA OutsideLocking ==
  ASSUME Typing, Locking, NEW t \in Callers, UNCHANGED <<lock, panes>>, OthersUnchanged(t),
         call[t].at \notin HoldingPoints, call'[t].at \notin HoldingPoints
  PROVE  Locking'
  <1>1. LockGuardsRecord'
    <2>1. lock \in [Panes -> Callers \cup {Free}]
      BY DEF Typing, TypeOK
    <2>. QED BY <2>1, CallersAssumption DEF Locking, LockGuardsRecord, OthersUnchanged
  <1>2. RemoveNamesItsRecord'
    BY DEF Locking, RemoveNamesItsRecord, OthersUnchanged, HoldingPoints
  <1>. QED BY <1>1, <1>2 DEF Locking

\* A goroutine takes the lock of a pane and the pane's record.
LEMMA TakeLocking ==
  ASSUME Typing, Locking, NEW t \in Callers, NEW p \in Panes, lock[p] = Free,
         lock' = [lock EXCEPT ![p] = t], OthersUnchanged(t),
         call[t].at \notin HoldingPoints, call'[t].at \in HoldingPoints,
         call'[t].pane = p, call'[t].gen = panes'[p],
         \A q \in Panes \ {p} : panes'[q] = panes[q],
         call'[t].at \in ClosingPoints /\ call'[t].op = "remove" => call'[t].gen = call'[t].named
  PROVE  Locking'
  <1>1. /\ lock \in [Panes -> Callers \cup {Free}]
        /\ \A u \in Callers : call[u].at \in HoldingPoints => call[u].pane \in Panes
    BY DEF Typing, TypeOK, FramesNameDeclared, FrameDeclared
  <1>2. \A u \in Callers : call[u].at \in HoldingPoints => call[u].pane # p
    BY <1>1, CallersAssumption DEF Locking, LockGuardsRecord
  <1>3. LockGuardsRecord'
    BY <1>1, <1>2, CallersAssumption DEF Locking, LockGuardsRecord, OthersUnchanged
  <1>4. RemoveNamesItsRecord'
    BY DEF Locking, RemoveNamesItsRecord, OthersUnchanged
  <1>. QED BY <1>3, <1>4 DEF Locking

\* A goroutine gives the lock back, and may drop the record.
LEMMA LeaveLocking ==
  ASSUME Typing, Locking, NEW t \in Callers, Leave(t), call[t].at \in HoldingPoints,
         \A q \in Panes \ {call[t].pane} : panes'[q] = panes[q]
  PROVE  Locking'
  <1> DEFINE p == call[t].pane
  <1>1. /\ lock \in [Panes -> Callers \cup {Free}]
        /\ p \in Panes
        /\ \A u \in Callers : call[u].at \in HoldingPoints => call[u].pane \in Panes
        /\ call \in [Callers -> Frames]
    BY DEF Typing, TypeOK, FramesNameDeclared, FrameDeclared
  <1>2. lock' = [lock EXCEPT ![p] = Free] /\ OthersUnchanged(t)
    BY <1>1 DEF Leave, OthersUnchanged
  <1>3. call'[t].at \in {"idle", "lock"} /\ call'[t].at \notin HoldingPoints
    BY <1>1 DEF Leave, Idle, HoldingPoints, OpeningPoints, ClosingPoints
  <1>4. \A u \in Callers \ {t} : call[u].at \in HoldingPoints => call[u].pane # p
    BY <1>1 DEF Locking, LockGuardsRecord
  <1>5. \A q \in Panes : lock[q] = t => q = p
    BY CallersAssumption DEF Locking, LockGuardsRecord
  <1>6. LockGuardsRecord'
    <2>1. ASSUME NEW u \in Callers, call'[u].at \in HoldingPoints
          PROVE  lock'[call'[u].pane] = u /\ panes'[call'[u].pane] = call'[u].gen
      BY <1>1, <1>2, <1>3, <1>4, <2>1 DEF Locking, LockGuardsRecord, OthersUnchanged
    <2>2. ASSUME NEW q \in Panes, lock'[q] # Free
          PROVE  call'[lock'[q]].at \in HoldingPoints /\ call'[lock'[q]].pane = q
      BY <1>1, <1>2, <1>5, <2>2 DEF Locking, LockGuardsRecord, OthersUnchanged
    <2>. QED BY <2>1, <2>2 DEF LockGuardsRecord
  <1>7. RemoveNamesItsRecord'
    BY <1>2, <1>3 DEF Locking, RemoveNamesItsRecord, OthersUnchanged, HoldingPoints
  <1>. QED BY <1>6, <1>7 DEF Locking

-----------------------------------------------------------------------------
(* What a step does to locks, panes and records *)

Unsettled == {"opening", "prepared", "opened"}
SettledPhases == {"live", "blocked"}
Carrying == {"open", "fit", "ensure", "bind", "surface"}

SameWork(t) ==
  /\ UNCHANGED <<panes, lock>> /\ OthersUnchanged(t)
  /\ call'[t].pane = call[t].pane /\ call'[t].gen = call[t].gen
  /\ call'[t].op = call[t].op /\ call'[t].named = call[t].named

\* The token of the record, from one point of an opening to the next.
TokenStep(t) == LET g == call[t].gen IN
  \/ /\ call[t].at = "rehydrate" /\ call'[t].at = "measure"
     /\ record'[g].token = record[g].token
  \/ /\ call[t].at = "measure" /\ call'[t].at = IF call[t].warm THEN "open" ELSE "prepare"
     /\ record'[g].token = record[g].token /\ call'[t].warm = call[t].warm
  \/ /\ call[t].at = "prepare" /\ call'[t].at = "open"
     /\ record'[g].token /\ call'[t].warm = call[t].warm
  \/ /\ {call[t].at, call'[t].at} \subseteq Carrying
     /\ record'[g].token = record[g].token /\ call'[t].warm = call[t].warm

\* An opening goes on with its record, or settles it and gives the lock back.
OpeningOn(t) ==
  /\ SameWork(t) /\ TokenStep(t)
  /\ record'[call[t].gen].phase \in Unsettled \cup {record[call[t].gen].phase}
OpeningEnds(t) ==
  Leave(t) /\ UNCHANGED panes /\ record'[call[t].gen].phase \in SettledPhases

Opens(t) ==
  /\ call[t].at \in OpeningPoints
  /\ \A g \in Generations \ {call[t].gen} : record'[g] = record[g]
  /\ OpeningEnds(t) \/ (OpeningOn(t) /\ call'[t].at \in OpeningPoints)

LEMMA OpeningStep == ASSUME Typing, Locking, NEW t \in Callers, Opening(t) PROVE Opens(t)
  <1> DEFINE g == call[t].gen
             Apart == \A h \in Generations \ {g} : record'[h] = record[h]
  <1> SUFFICES /\ call[t].at \in OpeningPoints /\ Apart
               /\ OpeningEnds(t) \/ (OpeningOn(t) /\ call'[t].at \in OpeningPoints)
    BY DEF Opens
  <1>1. /\ call \in [Callers -> Frames] /\ call[t] \in Frames
        /\ record \in [Generations -> Records]
    BY DEF Typing, TypeOK
  <1>2. /\ call[t].at \in OpeningPoints /\ UNCHANGED panes
        /\ call[t].at \in HoldingPoints
    BY DEF Opening, Rehydrate, Measure, Prepare, OpenShell, FitShell, Ensure, Bind, OpenSurface,
           At, OpeningPoints, HoldingPoints, sessionsVars
  <1>3. g \in Generations /\ g = panes[call[t].pane] /\ record[g] \in Records
    BY <1>1, <1>2 DEF Typing, FramesNameDeclared, FrameDeclared, Frames, Generations,
                      Locking, LockGuardsRecord
  <1>4. ASSUME Block(t) PROVE OpeningEnds(t) /\ Apart
    BY <1>1, <1>2, <1>3, <1>4 DEF Block, OpeningEnds, SettledPhases, Records
  <1>5. ASSUME NEW point, Goto(t, point)
        PROVE  SameWork(t) /\ call'[t].at = point /\ call'[t].warm = call[t].warm
    BY <1>1, <1>2, <1>5 DEF Goto, OthersUnchanged, SameWork, Frames
  <1>6. ASSUME NEW point \in Carrying, Goto(t, point), call[t].at \in Carrying,
               \/ UNCHANGED record
               \/ \E session : record' = [record EXCEPT ![g].session = session, ![g].phase = "opened"]
        PROVE  OpeningOn(t) /\ call'[t].at \in OpeningPoints /\ Apart
    <2>1. record'[g].token = record[g].token /\ Apart
          /\ record'[g].phase \in Unsettled \cup {record[g].phase}
      <3>1. CASE UNCHANGED record
        BY <3>1
      <3>2. ASSUME NEW session,
                   record' = [record EXCEPT ![g].session = session, ![g].phase = "opened"]
            PROVE  <2>1
        <4>1. record'[g] = [record[g] EXCEPT !.session = session, !.phase = "opened"] /\ Apart
          BY <1>1, <1>3, <3>2
        <4>. QED BY <1>3, <4>1 DEF Records, Unsettled
      <3>. QED BY <1>6, <3>1, <3>2
    <2>. QED BY <1>5, <1>6, <2>1 DEF OpeningOn, TokenStep, Carrying, OpeningPoints
  <1>7. CASE Rehydrate(t)
    <2>1. UNCHANGED record /\ SameWork(t) /\ call[t].at = "rehydrate" /\ call'[t].at = "measure"
      BY <1>1, <1>2, <1>7 DEF Rehydrate, At, SameWork, OthersUnchanged, sessionsVars, Frames
    <2>. QED BY <1>2, <2>1 DEF OpeningOn, TokenStep, OpeningPoints
  <1>8. CASE Measure(t)
    <2>1. CASE Block(t)
      BY <1>2, <1>4, <2>1
    <2>2. CASE ~Block(t)
      <3>1. /\ UNCHANGED record /\ SameWork(t) /\ call[t].at = "measure"
            /\ call'[t].at = (IF call[t].warm THEN "open" ELSE "prepare")
            /\ call'[t].warm = call[t].warm
        BY <1>1, <1>2, <1>8, <2>2 DEF Measure, At, SameWork, OthersUnchanged, Frames
      <3>. QED BY <1>2, <3>1 DEF OpeningOn, TokenStep, OpeningPoints
    <2>. QED BY <2>1, <2>2
  <1>9. CASE Prepare(t)
    <2>1. CASE Block(t)
      BY <1>2, <1>4, <2>1
    <2>2. CASE ~Block(t)
      <3>1. /\ call[t].at = "prepare" /\ Goto(t, "open")
            /\ record' = [record EXCEPT ![g].phase = "prepared", ![g].token = TRUE]
        BY <1>3, <1>9, <2>2 DEF Prepare, At
      <3>2. Apart /\ record'[g].token /\ record'[g].phase = "prepared"
        BY <1>1, <1>3, <3>1 DEF Records
      <3>. QED BY <1>2, <1>5, <3>1, <3>2 DEF OpeningOn, TokenStep, OpeningPoints, Unsettled
    <2>. QED BY <2>1, <2>2
  <1>10. CASE OpenShell(t)
    <2>1. CASE Block(t)
      BY <1>2, <1>4, <2>1
    <2>2. CASE ~Block(t)
      <3>1. call[t].at = "open" /\ AfterOpen(t) \in {"ensure", "bind"}
        BY <1>10 DEF OpenShell, At, AfterOpen
      <3>2. PICK point, session :
              /\ point \in {AfterOpen(t), "fit"} /\ Goto(t, point)
              /\ record' = [record EXCEPT ![g].session = session, ![g].phase = "opened"]
        BY <1>10, <2>2 DEF OpenShell
      <3>. QED BY <1>2, <1>6, <3>1, <3>2 DEF Carrying
    <2>. QED BY <2>1, <2>2
  <1>11. CASE FitShell(t) \/ Ensure(t) \/ Bind(t)
    <2>1. CASE Block(t)
      BY <1>2, <1>4, <2>1
    <2>2. CASE ~Block(t)
      <3>1. /\ call[t].at \in Carrying /\ UNCHANGED record
            /\ AfterOpen(t) \in {"ensure", "bind"}
            /\ Goto(t, AfterOpen(t)) \/ Goto(t, "bind") \/ Goto(t, "surface")
        BY <1>11, <2>2 DEF FitShell, Ensure, Bind, At, Carrying, AfterOpen
      <3>. QED BY <1>2, <1>6, <3>1 DEF Carrying
    <2>. QED BY <2>1, <2>2
  <1>12. CASE OpenSurface(t)
    <2>1. CASE Block(t)
      BY <1>2, <1>4, <2>1
    <2>2. CASE ~Block(t)
      <3>1. PICK grid \in Grids :
              record' = [record EXCEPT ![g].grid = grid, ![g].phase = "live"] /\ Leave(t)
        BY <1>12, <2>2 DEF OpenSurface
      <3>. QED BY <1>1, <1>2, <1>3, <3>1 DEF OpeningEnds, SettledPhases, Records
    <2>. QED BY <2>1, <2>2
  <1>. QED BY <1>7, <1>8, <1>9, <1>10, <1>11, <1>12 DEF Opening

\* A removal goes on with its record, drops it or leaves it as it was; it does
\* not change it.
ClosingOn(t) == SameWork(t) /\ call'[t].at \in ClosingPoints
ClosingEnds(t) ==
  /\ Leave(t)
  /\ panes' = panes \/ panes' = [panes EXCEPT ![call[t].pane] = 0]

Closing(t) ==
  /\ call[t].at \in ClosingPoints /\ UNCHANGED record
  /\ ClosingEnds(t) \/ ClosingOn(t)

LEMMA ClosingStep ==
  ASSUME Typing, Locking, NEW t \in Callers, CloseSurface(t) \/ Detach(t) \/ CloseShell(t)
  PROVE  Closing(t)
  <1>1. /\ call[t].at \in ClosingPoints /\ call[t].at \in HoldingPoints
        /\ UNCHANGED record
    BY DEF CloseSurface, Detach, CloseShell, At, ClosingPoints, HoldingPoints
  <1>2. /\ panes[call[t].pane] = call[t].gen
        /\ panes \in [Panes -> 0 .. MaxGeneration]
        /\ call \in [Callers -> Frames] /\ call[t] \in Frames
    BY <1>1 DEF Typing, TypeOK, Locking, LockGuardsRecord
  <1>3. CASE Abandon(t) \/ Drop(t)
    BY <1>1, <1>2, <1>3 DEF Abandon, Drop, ClosingEnds, Closing
  <1>4. CASE ~(Abandon(t) \/ Drop(t))
    <2>1. UNCHANGED panes /\ (Goto(t, "detach") \/ Goto(t, "close"))
      BY <1>4 DEF CloseSurface, Detach, CloseShell
    <2>2. ClosingOn(t)
      BY <1>2, <2>1 DEF Goto, OthersUnchanged, ClosingPoints, Frames, ClosingOn, SameWork
    <2>. QED BY <1>1, <2>2 DEF Closing
  <1>. QED BY <1>3, <1>4

\* A goroutine takes the lock of a pane, with a record it installs, puts back
\* to its beginning or is to close.
Takes(t, p) ==
  /\ lock[p] = Free /\ lock' = [lock EXCEPT ![p] = t] /\ OthersUnchanged(t)
  /\ call[t].at \notin HoldingPoints
  /\ call'[t].pane = p /\ call'[t].gen = panes'[p]
  /\ call'[t].op = call[t].op /\ call'[t].named = call[t].named
Installs(t, p) == LET g == call[t].named IN
  /\ Takes(t, p) /\ call[t].op = "start" /\ call[t].at = "lock" /\ call[t].pane = p
  /\ call'[t].at = "rehydrate"
  /\ panes[p] < g /\ panes' = [panes EXCEPT ![p] = g]
  /\ record' = [record EXCEPT ![g] = NewRecord]
Reopens(t, p) ==
  /\ Takes(t, p) /\ call[t].op = "restart" /\ call'[t].at = "rehydrate"
  /\ panes[p] # 0 /\ UNCHANGED panes
  /\ record' = [record EXCEPT ![panes[p]].phase = "opening", ![panes[p]].token = FALSE]
ToClose(t, p) ==
  /\ Takes(t, p) /\ call[t].pane = p /\ call'[t].at = "closeSurface"
  /\ panes[p] # 0 /\ UNCHANGED <<panes, record>>
  /\ call'[t].op = "remove" => call'[t].gen = call'[t].named

Taking(t) == \E p \in Panes : Installs(t, p) \/ Reopens(t, p) \/ ToClose(t, p)

LEMMA TakingStep ==
  ASSUME Typing, NEW t \in Callers, InstallStart(t) \/ LockRestart(t) \/ LockClosing(t)
  PROVE  Taking(t)
  <1>1. /\ call \in [Callers -> Frames] /\ call[t] \in Frames
        /\ panes \in [Panes -> 0 .. MaxGeneration]
        /\ call[t].op \in {"start", "remove", "stopDetach", "stopClose"} => call[t].pane \in Panes
        /\ call[t].todo \subseteq Panes
    BY DEF Typing, TypeOK, FramesNameDeclared, FrameDeclared, Frames
  <1>2. call[t].at = "lock" /\ call[t].at \notin HoldingPoints
    BY DEF InstallStart, LockRestart, LockClosing, Acquire, At, HoldingPoints, OpeningPoints,
           ClosingPoints
  <1>3. CASE InstallStart(t)
    <2> DEFINE p == call[t].pane
    <2>1. p \in Panes
      BY <1>1, <1>3 DEF InstallStart
    <2>2. /\ OthersUnchanged(t) /\ call'[t].at = "rehydrate"
          /\ call'[t].pane = p /\ call'[t].gen = call[t].named
          /\ call'[t].op = call[t].op /\ call'[t].named = call[t].named
      BY <1>1, <1>3 DEF InstallStart, OthersUnchanged, Frames
    <2>3. panes'[p] = call[t].named
      BY <1>1, <1>3, <2>1 DEF InstallStart
    <2>4. Installs(t, p)
      BY <1>2, <1>3, <2>2, <2>3 DEF InstallStart, Acquire, Takes, Installs
    <2>. QED BY <2>1, <2>4 DEF Taking
  <1>4. CASE LockRestart(t)
    <2>1. PICK p \in call[t].todo :
            /\ call[t].op = "restart"
            /\ panes[p] # 0 /\ lock[p] = Free /\ lock' = [lock EXCEPT ![p] = t]
            /\ UNCHANGED panes
            /\ record' = [record EXCEPT ![panes[p]].phase = "opening", ![panes[p]].token = FALSE]
            /\ call' = [call EXCEPT ![t].at = "rehydrate", ![t].pane = p,
                                    ![t].gen = panes[p], ![t].todo = @ \ {p}]
      BY <1>4 DEF LockRestart, Acquire
    <2>2. /\ OthersUnchanged(t) /\ call'[t].at = "rehydrate"
          /\ call'[t].pane = p /\ call'[t].gen = panes[p]
          /\ call'[t].op = call[t].op /\ call'[t].named = call[t].named
      BY <1>1, <2>1 DEF OthersUnchanged, Frames
    <2>. QED BY <1>1, <1>2, <2>1, <2>2 DEF Takes, Reopens, Taking
  <1>5. CASE LockClosing(t)
    <2> DEFINE p == call[t].pane
    <2>1. /\ p \in Panes /\ panes[p] # 0 /\ lock[p] = Free /\ lock' = [lock EXCEPT ![p] = t]
          /\ UNCHANGED <<panes, record>>
          /\ call' = [call EXCEPT ![t].at = "closeSurface", ![t].gen = panes[p]]
          /\ call[t].op = "remove" => panes[p] = call[t].named
      BY <1>1, <1>5 DEF LockClosing, Acquire, Closes
    <2>2. /\ OthersUnchanged(t) /\ call'[t].at = "closeSurface"
          /\ call'[t].pane = p /\ call'[t].gen = panes[p]
          /\ call'[t].op = call[t].op /\ call'[t].named = call[t].named
      BY <1>1, <2>1 DEF OthersUnchanged, Frames
    <2>3. ToClose(t, p)
      BY <1>2, <2>1, <2>2 DEF Takes, ToClose
    <2>. QED BY <2>1, <2>3 DEF Taking
  <1>. QED BY <1>3, <1>4, <1>5 DEF Taking

\* Outside a lock nothing but a grid changes in the records.
RecordKept(g) == record'[g].phase = record[g].phase /\ record'[g].token = record[g].token
Outside(t) ==
  /\ UNCHANGED <<panes, lock>> /\ OthersUnchanged(t)
  /\ call[t].at \notin HoldingPoints /\ call'[t].at \notin HoldingPoints
  /\ \A g \in Generations : RecordKept(g)

LEMMA OutsideStep ==
  ASSUME Typing, NEW t \in Callers,
         \/ Begin(t) \/ Verb(t) \/ StartUnits(t) \/ StaleStart(t) \/ SkipRestart(t)
         \/ SkipClosing(t) \/ ResizeSurface(t) \/ ResizeShell(t) \/ NoteGrid(t)
  PROVE  Outside(t)
  <1>1. call \in [Callers -> Frames] /\ call[t] \in Frames
    BY DEF Typing, TypeOK
  <1>2. /\ {"idle", "units", "lock", "resizeSurface", "resizeShell", "noteGrid"}
             \cap HoldingPoints = {}
        /\ Idle.at = "idle"
    BY DEF HoldingPoints, OpeningPoints, ClosingPoints, Idle
  <1>3. \A g \in Generations : RecordKept(g)
    <2>1. CASE NoteGrid(t)
      <3>1. record \in [Generations -> Records]
        BY DEF Typing, TypeOK
      <3>. QED BY <2>1, <3>1 DEF NoteGrid, RecordKept, Records
    <2>2. CASE ~NoteGrid(t)
      <3>1. UNCHANGED record
        BY <2>2 DEF Begin, Verb, BeginStart, BeginRemove, BeginEvent, BeginRestart, BeginStop,
                    BeginResize, BeginVerb, StartUnits, StaleStart, SkipRestart, SkipClosing,
                    ResizeSurface, ResizeShell, sessionsVars
      <3>. QED BY <3>1 DEF RecordKept
    <2>. QED BY <2>1, <2>2
  <1>4. CASE Begin(t) \/ Verb(t)
    <2>1. call[t].at = "idle" /\ UNCHANGED <<lock, panes>>
      BY <1>4 DEF Begin, Verb, BeginStart, BeginRemove, BeginEvent, BeginRestart, BeginStop,
                  BeginResize, BeginVerb, At, sessionsVars
    <2>2. OthersUnchanged(t) /\ call'[t].at \in {"idle", "units", "lock", "resizeSurface"}
      <3>1. ASSUME NEW g \in Generations, BeginStart(t, g) \/ BeginRemove(t, g)
            PROVE  OthersUnchanged(t) /\ call'[t].at \in {"units", "lock"}
        <4>1. \E p \in {source[g].pane}, op \in {"start", "remove"}, at \in {"units", "lock"} :
                call' = [call EXCEPT ![t] = [Idle EXCEPT !.op = op, !.at = at, !.named = g,
                                                         !.pane = p]]
          BY <3>1 DEF BeginStart, BeginRemove, BeginEvent
        <4>. QED BY <1>1, <4>1 DEF OthersUnchanged, Idle
      <3>3. ASSUME NEW u \in Units, BeginRestart(t, u)
            PROVE  OthersUnchanged(t) /\ call'[t].at \in {"idle", "lock"}
        <4>1. CASE call' = call
          BY <1>1, <2>1, <4>1 DEF OthersUnchanged
        <4>2. CASE \E work \in SUBSET Panes :
                     call' = [call EXCEPT ![t] = [Idle EXCEPT !.op = "restart", !.at = "lock",
                                                              !.unit = u, !.todo = work]]
          BY <1>1, <4>2 DEF OthersUnchanged, Idle
        <4>. QED BY <3>3, <4>1, <4>2 DEF BeginRestart
      <3>2. CASE Verb(t)
        BY <1>1, <3>2 DEF Verb, BeginStop, BeginResize, OthersUnchanged, Idle
      <3>. QED BY <1>4, <3>1, <3>2, <3>3 DEF Begin
    <2>. QED BY <1>2, <1>3, <2>1, <2>2 DEF Outside
  <1>5. CASE StartUnits(t) \/ StaleStart(t) \/ SkipClosing(t)
    <2>1. /\ call[t].at \in {"units", "lock"} /\ UNCHANGED <<lock, panes>>
          /\ Goto(t, "lock") \/ Return(t)
      BY <1>5 DEF StartUnits, StaleStart, SkipClosing, At, Goto, Return
    <2>2. OthersUnchanged(t) /\ call'[t].at \in {"idle", "lock"}
      BY <1>1, <1>2, <2>1 DEF Goto, Return, OthersUnchanged, Frames
    <2>. QED BY <1>2, <1>3, <2>1, <2>2 DEF Outside
  <1>6. CASE SkipRestart(t)
    <2>1. call[t].at = "lock" /\ UNCHANGED <<lock, panes>>
      BY <1>6 DEF SkipRestart, At, sessionsVars
    <2>2. OthersUnchanged(t) /\ call'[t].at \in {"idle", "lock"}
      BY <1>1, <1>2, <1>6, <2>1 DEF SkipRestart, OthersUnchanged, Frames
    <2>. QED BY <1>2, <1>3, <2>1, <2>2 DEF Outside
  <1>7. CASE ResizeSurface(t) \/ ResizeShell(t) \/ NoteGrid(t)
    <2>1. call[t].at \in ResizePoints /\ UNCHANGED <<lock, panes>>
      BY <1>7 DEF ResizeSurface, ResizeShell, NoteGrid, At, ResizePoints, Goto, Return
    <2>2. OthersUnchanged(t) /\ call'[t].at \in {"idle", "resizeShell", "noteGrid"}
      BY <1>1, <1>2, <1>7 DEF ResizeSurface, ResizeShell, NoteGrid, Goto, Return,
                              OthersUnchanged, Frames
    <2>. QED BY <1>2, <1>3, <2>1, <2>2 DEF ResizePoints, Outside
  <1>. QED BY <1>4, <1>5, <1>6, <1>7

\* Whatever a goroutine does is one of these.
LEMMA StepKinds ==
  ASSUME Typing, Locking, NEW t \in Callers, Begin(t) \/ Verb(t) \/ Step(t)
  PROVE  Outside(t) \/ Taking(t) \/ Opens(t) \/ Closing(t)
  BY OutsideStep, TakingStep, OpeningStep, ClosingStep DEF Step

LEMMA WorldStep ==
  ASSUME Typing, World
  PROVE  /\ UNCHANGED <<panes, failed, record, lock, call>>
         /\ Len(source) <= Len(source')
         /\ \A g \in Generations : g <= Len(source) => source'[g] = source[g]
  <1>1. source \in Seq(Sources) /\ UNCHANGED <<panes, failed, record, lock, call>>
    BY DEF World, Declare, Move, Undeclare, Crash, sessionsVars, Typing, TypeOK
  <1>2. ASSUME NEW s \in Sources, Declare(s) \/ Move(s)
        PROVE  /\ Len(source) <= Len(source')
               /\ \A g \in Generations : g <= Len(source) => source'[g] = source[g]
    BY <1>1, <1>2 DEF Declare, Move, Generations
  <1>3. CASE UNCHANGED source
    BY <1>1, <1>3
  <1>. QED BY <1>1, <1>2, <1>3 DEF World, Undeclare, Crash

LEMMA NextLocking == Typing /\ Locking /\ [Next]_vars => Locking'
  <1> SUFFICES ASSUME Typing, Locking, [Next]_vars PROVE Locking'
    OBVIOUS
  <1>1. CASE UNCHANGED <<lock, panes, call>>
    BY <1>1 DEF Locking, LockGuardsRecord, RemoveNamesItsRecord
  <1>2. CASE World
    BY <1>1, <1>2, WorldStep
  <1>3. ASSUME NEW t \in Callers, Opens(t) PROVE Locking'
    <2>1. CASE OpeningEnds(t)
      BY <1>3, <2>1, LeaveLocking DEF Opens, OpeningEnds, HoldingPoints
    <2>2. CASE OpeningOn(t) /\ call'[t].at \in OpeningPoints
      <3>1. call[t].at \in HoldingPoints /\ call'[t].at \in HoldingPoints \ ClosingPoints
        BY <1>3, <2>2 DEF Opens, HoldingPoints, OpeningPoints, ClosingPoints
      <3>. QED BY <2>2, <3>1, KeepLocking DEF OpeningOn, SameWork
    <2>. QED BY <1>3, <2>1, <2>2 DEF Opens
  <1>4. ASSUME NEW t \in Callers, Closing(t) PROVE Locking'
    <2>1. call[t].at \in HoldingPoints /\ call[t].at \in ClosingPoints
      BY <1>4 DEF Closing, HoldingPoints
    <2>2. CASE ClosingEnds(t)
      <3>1. \A q \in Panes \ {call[t].pane} : panes'[q] = panes[q]
        BY <2>2 DEF ClosingEnds, Typing, TypeOK
      <3>. QED BY <2>1, <2>2, <3>1, LeaveLocking DEF ClosingEnds
    <2>3. CASE ClosingOn(t)
      BY <2>1, <2>3, KeepLocking DEF ClosingOn, SameWork, HoldingPoints
    <2>. QED BY <1>4, <2>2, <2>3 DEF Closing
  <1>5. ASSUME NEW t \in Callers, NEW p \in Panes,
               Installs(t, p) \/ Reopens(t, p) \/ ToClose(t, p)
        PROVE  Locking'
    <2>1. Takes(t, p) /\ \A q \in Panes \ {p} : panes'[q] = panes[q]
      BY <1>5 DEF Installs, Reopens, ToClose, Typing, TypeOK
    <2>2. /\ call'[t].at \in HoldingPoints
          /\ call'[t].at \in ClosingPoints /\ call'[t].op = "remove"
               => call'[t].gen = call'[t].named
      BY <1>5 DEF Installs, Reopens, ToClose, HoldingPoints, OpeningPoints, ClosingPoints
    <2>. QED BY <2>1, <2>2, TakeLocking DEF Takes
  <1>6. ASSUME NEW t \in Callers, Outside(t) PROVE Locking'
    BY <1>6, OutsideLocking DEF Outside
  <1>. QED BY <1>1, <1>2, <1>3, <1>4, <1>5, <1>6, StepKinds DEF Next, Rest, vars, Taking

LEMMA LockingInvariant == Spec => [](Typing /\ Locking)
  BY InitTyping, NextTyping, InitLocking, NextLocking, PTL DEF Spec

\* Whoever works on a pane's record holds the pane's lock, whatever the number
\* of panes, generations and goroutines.
THEOREM LockGuards == Spec => []LockGuardsRecord
  BY LockingInvariant, PTL DEF Locking

\* A Remove, from its first request to its last, closes the generation it
\* names while that generation holds the pane.
THEOREM RemoveClosesOwn == Spec => []RemovesOnlyItsOwn
  <1>1. Typing /\ Locking => RemovesOnlyItsOwn
    BY DEF Locking, LockGuardsRecord, RemoveNamesItsRecord, RemovesOnlyItsOwn, HoldingPoints
  <1>. QED BY <1>1, LockingInvariant, PTL

\* No Start puts an older record, or the same again, in the place of a newer one.
THEOREM NewestGenerationWins == Spec => NewestWins
  <1>1. Typing /\ [Next]_vars =>
          [\A p \in Panes : panes'[p] = panes[p] \/ panes'[p] = 0 \/ panes'[p] > panes[p]]_vars
    <2> SUFFICES ASSUME Typing, Next, NEW p \in Panes
                 PROVE  panes'[p] = panes[p] \/ panes'[p] = 0 \/ panes'[p] > panes[p]
      OBVIOUS
    <2>0. panes \in [Panes -> 0 .. MaxGeneration]
      BY DEF Typing, TypeOK
    <2>1. CASE World \/ Rest
      BY <2>1 DEF World, Declare, Move, Undeclare, Crash, Rest, sessionsVars, vars
    <2>2. ASSUME NEW t \in Callers, Begin(t) \/ Verb(t)
          PROVE  UNCHANGED panes
      BY <2>2 DEF Begin, Verb, BeginStart, BeginRemove, BeginEvent, BeginRestart, BeginStop,
                  BeginResize, BeginVerb, sessionsVars
    <2>3. ASSUME NEW t \in Callers, InstallStart(t)
          PROVE  panes'[p] = panes[p] \/ panes'[p] > panes[p]
      <3>1. call[t] \in Frames
        BY DEF Typing, TypeOK
      <3>. QED BY <2>0, <2>3, <3>1 DEF InstallStart, Frames
    <2>4. ASSUME NEW t \in Callers, CloseSurface(t) \/ Detach(t) \/ CloseShell(t)
          PROVE  panes'[p] = panes[p] \/ panes'[p] = 0
      BY <2>0, <2>4 DEF CloseSurface, Detach, CloseShell, Abandon, Drop
    <2>5. ASSUME NEW t \in Callers, Opening(t) PROVE UNCHANGED panes
      BY <2>5 DEF Opening, Rehydrate, Measure, Prepare, OpenShell, FitShell, Ensure, Bind,
                  OpenSurface, sessionsVars
    <2>6. ASSUME NEW t \in Callers,
                 \/ StartUnits(t) \/ StaleStart(t) \/ LockRestart(t) \/ SkipRestart(t)
                 \/ LockClosing(t) \/ SkipClosing(t)
                 \/ ResizeSurface(t) \/ ResizeShell(t) \/ NoteGrid(t)
          PROVE  UNCHANGED panes
      BY <2>6 DEF StartUnits, StaleStart, LockRestart, SkipRestart, LockClosing, SkipClosing,
                  ResizeSurface, ResizeShell, NoteGrid, sessionsVars
    <2>. QED BY <2>1, <2>2, <2>3, <2>4, <2>5, <2>6 DEF Next, Step
  <1>. QED BY <1>1, InitTyping, NextTyping, PTL DEF Spec, NewestWins

=============================================================================
