----------------------------- MODULE PhaseProofs -----------------------------
(***************************************************************************)
(* Theorems about what Status tells of a pane: the phase and the observer  *)
(* token of its record, its failed Start, and the life PaneLifecycle has   *)
(* it lead.                                                                *)
(***************************************************************************)
EXTENDS SessionsProofs

\* A record is that of the pane its generation was declared for, and a Start
\* will install one in that pane.
RecordsOwned ==
  /\ \A p \in Panes : panes[p] # 0 => source[panes[p]].pane = p
  /\ \A t \in Callers : call[t].op = "start" =>
       call[t].named # 0 /\ source[call[t].named].pane = call[t].pane

-----------------------------------------------------------------------------
(* The events a goroutine takes up *)

Takeup(t, event) ==
  /\ call[t].at = "idle" /\ event \in pending /\ pending' = pending \ {event}
  /\ OrderedHost => InTurn(event)
  /\ call'[t].op = event.op /\ call'[t].named = event.gen
  /\ call'[t].pane = source[event.gen].pane
  /\ call'[t].at = IF event.op = "start" THEN "units" ELSE "lock"

\* A goroutine takes up an event, keeps to the one it has, or has none.
LEMMA EventStep ==
  ASSUME Typing, Locking, NEW t \in Callers, Begin(t) \/ Verb(t) \/ Step(t)
  PROVE  /\ OthersUnchanged(t) /\ UNCHANGED source
         /\ \/ \E event \in pending : Takeup(t, event) /\ UNCHANGED failed
            \/ /\ UNCHANGED pending
               /\ \/ call'[t].op \notin {"start", "remove"} /\ call'[t].at # "units"
                  \/ /\ call'[t].op = call[t].op /\ call'[t].named = call[t].named
                     /\ call'[t].pane = call[t].pane
                     /\ call'[t].at # "units" /\ (call'[t].at = "lock" => call[t].at \in {"lock", "units"})
  <1> DEFINE Same == /\ call'[t].op = call[t].op /\ call'[t].named = call[t].named
                     /\ call'[t].pane = call[t].pane
                     /\ call'[t].at # "units" /\ (call'[t].at = "lock" => call[t].at \in {"lock", "units"})
             Other == call'[t].op \notin {"start", "remove"} /\ call'[t].at # "units"
  <1>1. call \in [Callers -> Frames] /\ call[t] \in Frames /\ Idle.op = "none" /\ Idle.at = "idle"
    BY DEF Typing, TypeOK, Idle
  <1>2. ASSUME NEW g \in Generations, BeginStart(t, g) \/ BeginRemove(t, g)
        PROVE  /\ OthersUnchanged(t) /\ UNCHANGED source
               /\ \E event \in pending : Takeup(t, event) /\ UNCHANGED failed
    <2>1. PICK event \in pending, at \in {"units", "lock"} :
            /\ BeginEvent(t, event, at) /\ at = IF event.op = "start" THEN "units" ELSE "lock"
      BY <1>2 DEF BeginStart, BeginRemove, BeginEvent
    <2>2. call' = [call EXCEPT ![t] = [Idle EXCEPT !.op = event.op, !.at = at, !.named = event.gen,
                                                   !.pane = source[event.gen].pane]]
      BY <2>1 DEF BeginEvent
    <2>3. /\ OthersUnchanged(t)
          /\ call'[t].op = event.op /\ call'[t].named = event.gen
          /\ call'[t].pane = source[event.gen].pane /\ call'[t].at = at
      BY <1>1, <2>2 DEF OthersUnchanged, Idle
    <2>. QED BY <2>1, <2>3 DEF BeginEvent, Takeup, At, sessionsVars
  <1>3. ASSUME Return(t) \/ Leave(t) PROVE OthersUnchanged(t) /\ Other
    <2> DEFINE rest == [Idle EXCEPT !.op = "restart", !.at = "lock",
                                    !.unit = call[t].unit, !.todo = call[t].todo]
    <2>1. rest.op = "restart" /\ rest.at = "lock"
      BY DEF Idle
    <2> HIDE DEF rest
    <2>2. PICK c \in {Idle, rest} : call' = [call EXCEPT ![t] = c]
      <3>1. CASE Return(t)
        BY <3>1 DEF Return
      <3>2. CASE Leave(t)
        BY <3>2 DEF Leave, rest
      <3>. QED BY <1>3, <3>1, <3>2
    <2>3. OthersUnchanged(t) /\ call'[t] = c
      BY <1>1, <2>2 DEF OthersUnchanged
    <2>. QED BY <1>1, <2>1, <2>2, <2>3
  <1>4. ASSUME NEW at \in Points, Goto(t, at), at \notin {"units", "lock"}
        PROVE  OthersUnchanged(t) /\ Same
    BY <1>1, <1>4 DEF Goto, OthersUnchanged, Frames
  <1>5. ASSUME NEW u \in Units, BeginRestart(t, u)
        PROVE  OthersUnchanged(t) /\ (Other \/ Same) /\ UNCHANGED <<source, pending>>
    <2>1. UNCHANGED <<source, pending>> /\ call[t].at = "idle"
      BY <1>5 DEF BeginRestart, At
    <2>2. CASE call' = call
      BY <1>1, <2>1, <2>2 DEF OthersUnchanged
    <2>3. CASE \E work \in SUBSET Panes :
                 call' = [call EXCEPT ![t] = [Idle EXCEPT !.op = "restart", !.at = "lock",
                                                          !.unit = u, !.todo = work]]
      BY <1>1, <2>1, <2>3 DEF OthersUnchanged, Idle
    <2>. QED BY <1>5, <2>1, <2>2, <2>3 DEF BeginRestart
  <1>6. CASE Verb(t)
    <2>1. PICK c : call' = [call EXCEPT ![t] = c] /\ c.op \notin {"start", "remove"} /\ c.at # "units"
      <3> DEFINE Becomes(c) == call' = [call EXCEPT ![t] = c] /\ c.op \notin {"start", "remove"}
                                                         /\ c.at # "units"
      <3>1. ASSUME NEW p \in Panes, NEW op \in {"stopDetach", "stopClose"}, BeginStop(t, p, op)
            PROVE  Becomes([Idle EXCEPT !.op = op, !.at = "lock", !.pane = p])
        BY <3>1 DEF BeginStop, Idle
      <3>2. ASSUME NEW p \in Panes, BeginResize(t, p)
            PROVE  Becomes([Idle EXCEPT !.op = "resize", !.at = "resizeSurface", !.pane = p,
                                       !.gen = panes[p]])
        BY <3>2 DEF BeginResize, Idle
      <3> HIDE DEF Becomes
      <3>3. \E c : Becomes(c)
        BY <1>6, <3>1, <3>2 DEF Verb
      <3>. QED BY <3>3 DEF Becomes
    <2>2. OthersUnchanged(t) /\ Other
      BY <1>1, <2>1 DEF OthersUnchanged
    <2>. QED BY <1>6, <2>2 DEF Verb, BeginStop, BeginResize, BeginVerb
  <1>7. CASE StartUnits(t)
    <2>1. CASE Goto(t, "lock")
      BY <1>1, <1>7, <2>1 DEF StartUnits, hostVars, Goto, At, OthersUnchanged, Frames
    <2>. QED BY <1>3, <1>7, <2>1 DEF StartUnits, hostVars
  <1>8. CASE StaleStart(t) \/ SkipClosing(t) \/ ResizeSurface(t) \/ ResizeShell(t) \/ NoteGrid(t)
    <2>1. CASE ResizeSurface(t) /\ ~Return(t)
      <3>1. PICK grid : call' = [call EXCEPT ![t].at = "resizeShell", ![t].grid = grid]
        BY <2>1 DEF ResizeSurface
      <3>. QED BY <1>1, <2>1, <3>1 DEF ResizeSurface, hostVars, OthersUnchanged, Frames
    <2>2. CASE Goto(t, "noteGrid")
      BY <1>4, <1>8, <2>2 DEF StaleStart, SkipClosing, ResizeSurface, ResizeShell, NoteGrid, hostVars,
                              Points, ResizePoints
    <2>. QED BY <1>3, <1>8, <2>1, <2>2 DEF StaleStart, SkipClosing, ResizeSurface, ResizeShell,
                                           NoteGrid, hostVars
  <1>9. CASE SkipRestart(t)
    BY <1>1, <1>9 DEF SkipRestart, At, OthersUnchanged, Frames, Idle, hostVars
  <1>10. ASSUME SameWork(t), call'[t].at \in HoldingPoints PROVE OthersUnchanged(t) /\ Same
    BY <1>10 DEF SameWork, HoldingPoints, OpeningPoints, ClosingPoints
  <1>11. CASE Opening(t)
    <2>1. UNCHANGED <<source, pending>>
      BY <1>11 DEF Opening, Rehydrate, Measure, Prepare, OpenShell, FitShell, Ensure, Bind,
                   OpenSurface, hostVars
    <2>. QED BY <1>3, <1>10, <1>11, <2>1, OpeningStep
             DEF Opens, OpeningEnds, OpeningOn, HoldingPoints
  <1>12. CASE CloseSurface(t) \/ Detach(t) \/ CloseShell(t)
    <2>1. UNCHANGED <<source, pending>>
      BY <1>12 DEF CloseSurface, Detach, CloseShell, hostVars
    <2>. QED BY <1>3, <1>10, <1>12, <2>1, ClosingStep
             DEF Closing, ClosingEnds, ClosingOn, HoldingPoints
  <1>13. CASE InstallStart(t) \/ LockRestart(t) \/ LockClosing(t)
    <2>1. UNCHANGED <<source, pending>>
      BY <1>13 DEF InstallStart, LockRestart, LockClosing, hostVars
    <2>2. PICK p \in Panes : Installs(t, p) \/ Reopens(t, p) \/ ToClose(t, p)
      BY <1>13, TakingStep DEF Taking
    <2>3. OthersUnchanged(t) /\ (Other \/ Same)
      BY <2>2 DEF Installs, Reopens, ToClose, Takes
    <2>. QED BY <2>1, <2>3
  <1>14. CASE Begin(t)
    BY <1>2, <1>5, <1>14 DEF Begin
  <1>. QED BY <1>6, <1>7, <1>8, <1>9, <1>11, <1>12, <1>13, <1>14 DEF Step
-----------------------------------------------------------------------------
(* Records and their panes *)

LEMMA InitOwned == Init => RecordsOwned
  BY DEF Init, RecordsOwned, Idle

LEMMA NextOwned == Typing /\ Locking /\ RecordsOwned /\ [Next]_vars => RecordsOwned'
  <1> SUFFICES ASSUME Typing, Locking, RecordsOwned, [Next]_vars PROVE RecordsOwned'
    OBVIOUS
  <1>1. /\ panes \in [Panes -> 0 .. MaxGeneration] /\ call \in [Callers -> Frames]
        /\ pending \subseteq [op : {"start", "remove"}, gen : Generations]
        /\ \A p \in Panes : panes[p] <= Len(source)
        /\ \A t \in Callers : call[t].named <= Len(source) /\ call[t].named \in 0 .. MaxGeneration
    BY DEF Typing, TypeOK, FramesNameDeclared, FrameDeclared, Frames
  <1>2. CASE UNCHANGED <<panes, call, source>>
    BY <1>2 DEF RecordsOwned
  <1>3. CASE World
    <2>1. \A g \in 0 .. MaxGeneration : g # 0 /\ g <= Len(source) => source'[g] = source[g]
      BY <1>3, WorldStep DEF Generations
    <2>. QED BY <1>1, <1>3, <2>1, WorldStep DEF RecordsOwned
  <1>4. ASSUME NEW t \in Callers, Begin(t) \/ Verb(t) \/ Step(t) PROVE RecordsOwned'
    <2>1. \A p \in Panes : panes'[p] # 0 => source'[panes'[p]].pane = p
      <3>1. UNCHANGED source
        BY <1>4, EventStep
      <3>2. ASSUME NEW p \in Panes, Installs(t, p)
            PROVE  \A q \in Panes : panes'[q] # 0 => source[panes'[q]].pane = q
        BY <1>1, <3>2 DEF Installs, RecordsOwned
      <3>3. UNCHANGED panes \/ panes' = [panes EXCEPT ![call[t].pane] = 0]
              \/ \E p \in Panes : Installs(t, p)
        BY <1>4, StepKinds DEF Outside, Taking, Reopens, ToClose, Opens, OpeningEnds, OpeningOn,
                               Closing, ClosingEnds, ClosingOn, SameWork
      <3>. QED BY <1>1, <3>1, <3>2, <3>3 DEF RecordsOwned
    <2>2. ASSUME NEW u \in Callers, call'[u].op = "start"
          PROVE  call'[u].named # 0 /\ source'[call'[u].named].pane = call'[u].pane
      BY <1>1, <1>4, <2>2, EventStep DEF Takeup, OthersUnchanged, RecordsOwned, Generations
    <2>. QED BY <2>1, <2>2 DEF RecordsOwned
  <1>. QED BY <1>2, <1>3, <1>4 DEF Next, Rest, vars

-----------------------------------------------------------------------------
(* Phases and tokens *)

\* A record being opened is unsettled, one being closed is settled.
PhaseOfPoint ==
  \A t \in Callers :
    /\ call[t].at \in OpeningPoints => record[call[t].gen].phase \in Unsettled
    /\ call[t].at \in ClosingPoints => record[call[t].gen].phase \in SettledPhases

\* An opening begins without a token, and prepares one unless the engine still
\* has the pane's mirror.
TokenOfPoint ==
  \A t \in Callers :
    /\ call[t].at \in {"rehydrate", "measure", "prepare"} => ~record[call[t].gen].token
    /\ call[t].at = "prepare" => ~call[t].warm

\* The inductive invariant: what the record of a pane says follows from where
\* the goroutine that holds its lock stands, if one does.
Phasing ==
  RecordsOwned /\ PhaseOfPoint /\ TokenOfPoint /\ TokenOfThisOpening /\ SettledWhenUnlocked

LEMMA InitPhasing == Init => Phasing
  BY InitOwned
  DEF Init, Phasing, PhaseOfPoint, TokenOfPoint, TokenOfThisOpening, SettledWhenUnlocked, Idle,
      OpeningPoints, ClosingPoints

\* The record a goroutine works on is nobody else's.
LEMMA RecordsApart ==
  ASSUME Typing, Locking, RecordsOwned, NEW t \in Callers, NEW u \in Callers \ {t},
         call[t].at \in HoldingPoints, call[u].at \in HoldingPoints
  PROVE  /\ call[t].pane # call[u].pane /\ call[t].gen # call[u].gen
         /\ call[u].gen \in Generations
  <1>1. \A v \in Callers : call[v].at \in HoldingPoints =>
          /\ call[v].gen \in Generations /\ call[v].pane \in Panes
          /\ lock[call[v].pane] = v /\ panes[call[v].pane] = call[v].gen
          /\ source[call[v].gen].pane = call[v].pane
    BY DEF Typing, TypeOK, FramesNameDeclared, FrameDeclared, Frames, Generations, Locking,
           LockGuardsRecord, RecordsOwned
  <1>. QED BY <1>1

\* What the others stand on stays, if the goroutine keeps to its own record.
LEMMA OthersPhasing ==
  ASSUME Typing, Phasing, NEW t \in Callers, NEW g, OthersUnchanged(t),
         \A u \in Callers \ {t} : call[u].at \in HoldingPoints => call[u].gen # g,
         \A h \in Generations \ {g} : RecordKept(h)
  PROVE  \A u \in Callers \ {t} :
           /\ call'[u].at \in OpeningPoints => record'[call'[u].gen].phase \in Unsettled
           /\ call'[u].at \in ClosingPoints => record'[call'[u].gen].phase \in SettledPhases
           /\ call'[u].at \in {"rehydrate", "measure", "prepare"} => ~record'[call'[u].gen].token
           /\ call'[u].at = "prepare" => ~call'[u].warm
           /\ call'[u].at \in Carrying => (record'[call'[u].gen].token <=> ~call'[u].warm)
  <1> SUFFICES ASSUME NEW u \in Callers \ {t}, call[u].at \in HoldingPoints
               PROVE  call[u].gen \in Generations /\ RecordKept(call[u].gen)
    BY DEF Phasing, PhaseOfPoint, TokenOfPoint, TokenOfThisOpening, Carrying, HoldingPoints,
           OpeningPoints, ClosingPoints, OthersUnchanged, RecordKept
  <1>1. call[u].gen \in Generations
    BY DEF Typing, TypeOK, FramesNameDeclared, FrameDeclared, Frames, Generations
  <1>. QED BY <1>1

LEMMA OthersSettled ==
  ASSUME Typing, Phasing, NEW p \in Panes, NEW g, source[g].pane = p,
         \A q \in Panes \ {p} : lock'[q] = lock[q] /\ panes'[q] = panes[q],
         \A h \in Generations \ {g} : RecordKept(h)
  PROVE  \A q \in Panes \ {p} :
           lock'[q] = Free /\ panes'[q] # 0 => record'[panes'[q]].phase \in SettledPhases
  <1>1. panes \in [Panes -> 0 .. MaxGeneration] /\ \A q \in Panes : panes[q] # 0 => source[panes[q]].pane = q
    BY DEF Typing, TypeOK, Phasing, RecordsOwned
  <1>2. \A q \in Panes \ {p} : panes[q] # 0 => panes[q] \in Generations \ {g}
    BY <1>1 DEF Generations
  <1>. QED BY <1>2 DEF Phasing, SettledWhenUnlocked, RecordKept, SettledPhases

\* The three groups of points share none.
LEMMA PointsApart ==
  /\ OpeningPoints \cap ClosingPoints = {}
  /\ {"idle", "lock"} \cap HoldingPoints = {}
  /\ OpeningPoints = {"rehydrate", "measure", "prepare"} \cup Carrying
  /\ {"rehydrate", "measure", "prepare"} \cap Carrying = {}
  /\ HoldingPoints = OpeningPoints \cup ClosingPoints
  BY DEF OpeningPoints, ClosingPoints, HoldingPoints, Carrying

LEMMA LeaveIdles ==
  ASSUME Typing, NEW t \in Callers, Leave(t), call[t].pane \in Panes
  PROVE  /\ OthersUnchanged(t) /\ call'[t].at \in {"idle", "lock"}
         /\ lock'[call[t].pane] = Free
         /\ \A q \in Panes \ {call[t].pane} : lock'[q] = lock[q]
  <1>1. lock \in [Panes -> Callers \cup {Free}] /\ call \in [Callers -> Frames]
    BY DEF Typing, TypeOK
  <1>. QED BY <1>1 DEF Leave, OthersUnchanged, Idle

LEMMA OpensPhasing ==
  ASSUME Typing, Locking, Phasing, RecordsOwned', NEW t \in Callers, Opens(t)
  PROVE  Phasing'
  <1> DEFINE g == call[t].gen  p == call[t].pane
  <1>1. /\ call[t].at \in OpeningPoints /\ call[t].at \in HoldingPoints
        /\ \A h \in Generations \ {g} : RecordKept(h)
    BY PointsApart DEF Opens, RecordKept
  <1>2. /\ p \in Panes /\ panes[p] = g /\ lock[p] = t /\ source[g].pane = p
        /\ panes \in [Panes -> 0 .. MaxGeneration]
    BY <1>1 DEF Typing, TypeOK, FramesNameDeclared, FrameDeclared, Locking, LockGuardsRecord,
                Phasing, RecordsOwned
  <1>3. \A u \in Callers \ {t} : call[u].at \in HoldingPoints => call[u].gen # g
    BY <1>1, RecordsApart DEF Phasing
  <1>4. CASE OpeningEnds(t)
    <2>1. /\ OthersUnchanged(t) /\ call'[t].at \in {"idle", "lock"} /\ UNCHANGED panes
          /\ \A q \in Panes \ {p} : lock'[q] = lock[q]
          /\ record'[g].phase \in SettledPhases
      BY <1>2, <1>4, LeaveIdles DEF OpeningEnds
    <2>2. SettledWhenUnlocked'
      <3>1. \A q \in Panes \ {p} : lock'[q] = Free /\ panes'[q] # 0
              => record'[panes'[q]].phase \in SettledPhases
        BY <1>1, <1>2, <2>1, OthersSettled
      <3>. QED BY <1>2, <2>1, <3>1 DEF SettledWhenUnlocked, SettledPhases
    <2>3. PhaseOfPoint' /\ TokenOfPoint' /\ TokenOfThisOpening'
      BY <1>1, <1>3, <2>1, OthersPhasing, PointsApart
         DEF PhaseOfPoint, TokenOfPoint, TokenOfThisOpening, Carrying
    <2>. QED BY <2>2, <2>3 DEF Phasing
  <1>5. CASE OpeningOn(t) /\ call'[t].at \in OpeningPoints
    <2>1. OthersUnchanged(t) /\ UNCHANGED <<panes, lock>> /\ call'[t].gen = g
      BY <1>5 DEF OpeningOn, SameWork
    <2>2. SettledWhenUnlocked'
      <3>1. \A q \in Panes \ {p} : lock'[q] = Free /\ panes'[q] # 0
              => record'[panes'[q]].phase \in SettledPhases
        BY <1>1, <1>2, <2>1, OthersSettled
      <3>. QED BY <1>2, <2>1, <3>1, CallersAssumption DEF SettledWhenUnlocked, SettledPhases
    <2>3. record'[g].phase \in Unsettled
      BY <1>1, <1>5 DEF OpeningOn, Phasing, PhaseOfPoint
    <2>4. /\ call'[t].at \in {"rehydrate", "measure", "prepare"} => ~record'[g].token
          /\ call'[t].at = "prepare" => ~call'[t].warm
          /\ call'[t].at \in Carrying => (record'[g].token <=> ~call'[t].warm)
      <3>1. TokenStep(t)
        BY <1>5 DEF OpeningOn
      <3>2. /\ call[t].at \in {"rehydrate", "measure", "prepare"} => ~record[g].token
            /\ call[t].at = "prepare" => ~call[t].warm
            /\ call[t].at \in Carrying => (record[g].token <=> ~call[t].warm)
        BY DEF Phasing, TokenOfPoint, TokenOfThisOpening, Carrying
      <3>. QED BY <3>1, <3>2 DEF TokenStep, Carrying
    <2>5. PhaseOfPoint' /\ TokenOfPoint' /\ TokenOfThisOpening'
      BY <1>1, <1>3, <1>5, <2>1, <2>3, <2>4, OthersPhasing, PointsApart
         DEF PhaseOfPoint, TokenOfPoint, TokenOfThisOpening, Carrying
    <2>. QED BY <2>2, <2>5 DEF Phasing
  <1>. QED BY <1>4, <1>5 DEF Opens

LEMMA ClosingPhasing ==
  ASSUME Typing, Locking, Phasing, RecordsOwned', NEW t \in Callers, Closing(t)
  PROVE  Phasing'
  <1> DEFINE g == call[t].gen  p == call[t].pane
  <1>1. /\ call[t].at \in ClosingPoints /\ call[t].at \in HoldingPoints
        /\ UNCHANGED record /\ \A h \in Generations : RecordKept(h)
    BY PointsApart DEF Closing, RecordKept
  <1>2. /\ p \in Panes /\ panes[p] = g /\ lock[p] = t /\ source[g].pane = p
        /\ panes \in [Panes -> 0 .. MaxGeneration] /\ record[g].phase \in SettledPhases
    BY <1>1 DEF Typing, TypeOK, FramesNameDeclared, FrameDeclared, Locking, LockGuardsRecord,
                Phasing, RecordsOwned, PhaseOfPoint
  <1>3. \A u \in Callers \ {t} : call[u].at \in HoldingPoints => call[u].gen # g
    BY <1>1, RecordsApart DEF Phasing
  <1>4. /\ OthersUnchanged(t)
        /\ \A q \in Panes \ {p} : lock'[q] = lock[q] /\ panes'[q] = panes[q]
        /\ panes'[p] \in {g, 0}
        /\ \/ call'[t].at \in {"idle", "lock"}
           \/ call'[t].at \in ClosingPoints /\ call'[t].gen = g
    BY <1>2, LeaveIdles DEF Closing, ClosingEnds, ClosingOn, SameWork
  <1>5. SettledWhenUnlocked'
    <2>1. \A q \in Panes \ {p} : lock'[q] = Free /\ panes'[q] # 0
            => record'[panes'[q]].phase \in SettledPhases
      BY <1>1, <1>2, <1>4, OthersSettled
    <2>. QED BY <1>1, <1>2, <1>4, <2>1 DEF SettledWhenUnlocked, SettledPhases
  <1>6. PhaseOfPoint' /\ TokenOfPoint' /\ TokenOfThisOpening'
    <2>1. /\ call'[t].at \notin OpeningPoints
          /\ call'[t].at \in ClosingPoints => record'[call'[t].gen].phase \in SettledPhases
      BY <1>1, <1>2, <1>4, PointsApart
    <2>2. ~call'[t].at \in {"rehydrate", "measure", "prepare"} /\ ~call'[t].at \in Carrying
      BY <2>1, PointsApart
    <2> HIDE DEF g
    <2>3. /\ OthersUnchanged(t) /\ \A h \in Generations \ {g} : RecordKept(h)
      BY <1>1, <1>4
    <2>. QED BY <1>3, <2>1, <2>2, <2>3, OthersPhasing
             DEF PhaseOfPoint, TokenOfPoint, TokenOfThisOpening, Carrying
  <1>. QED BY <1>5, <1>6 DEF Phasing

LEMMA TakingPhasing ==
  ASSUME Typing, Locking, Phasing, RecordsOwned', NEW t \in Callers, NEW p \in Panes,
         Installs(t, p) \/ Reopens(t, p) \/ ToClose(t, p)
  PROVE  Phasing'
  <1> DEFINE g == call'[t].gen
  <1>1. /\ panes \in [Panes -> 0 .. MaxGeneration] /\ record \in [Generations -> Records]
        /\ lock \in [Panes -> Callers \cup {Free}] /\ call[t] \in Frames
        /\ \A q \in Panes : panes[q] # 0 => panes[q] \in Generations
    BY DEF Typing, TypeOK, Generations
  <1>2. /\ lock[p] = Free /\ lock'[p] = t /\ OthersUnchanged(t) /\ g = panes'[p]
        /\ \A q \in Panes \ {p} : lock'[q] = lock[q] /\ panes'[q] = panes[q]
    BY <1>1 DEF Installs, Reopens, ToClose, Takes
  <1>3. g \in Generations /\ source[g].pane = p
    BY <1>1, <1>2 DEF Installs, Reopens, ToClose, Phasing, RecordsOwned, Frames, Generations
  <1>4. \A u \in Callers \ {t} : call[u].at \in HoldingPoints => call[u].gen # g
    <2>1. \A u \in Callers : call[u].at \in HoldingPoints =>
            /\ call[u].gen # 0 /\ call[u].pane \in Panes
            /\ lock[call[u].pane] = u /\ panes[call[u].pane] = call[u].gen
      BY DEF Typing, FramesNameDeclared, FrameDeclared, Locking, LockGuardsRecord
    <2>. QED BY <1>2, <1>3, <2>1, CallersAssumption DEF Phasing, RecordsOwned
  <1>5. \A h \in Generations \ {g} : RecordKept(h)
    BY <1>1, <1>2, <1>3 DEF Installs, Reopens, ToClose, RecordKept
  <1>6. \/ /\ call'[t].at = "rehydrate" /\ record'[g].phase = "opening" /\ ~record'[g].token
        \/ /\ call'[t].at = "closeSurface" /\ record'[g].phase \in SettledPhases
    <2>1. CASE Installs(t, p)
      BY <1>1, <1>2, <1>3, <2>1 DEF Installs, NewRecord
    <2>2. CASE Reopens(t, p)
      BY <1>1, <1>2, <1>3, <2>2 DEF Reopens, Records
    <2>3. CASE ToClose(t, p)
      BY <1>1, <1>2, <1>3, <2>3 DEF ToClose, Phasing, SettledWhenUnlocked, SettledPhases
    <2>. QED BY <2>1, <2>2, <2>3
  <1>7. SettledWhenUnlocked'
    <2>1. \A q \in Panes \ {p} : lock'[q] = Free /\ panes'[q] # 0
            => record'[panes'[q]].phase \in SettledPhases
      BY <1>2, <1>3, <1>5, OthersSettled
    <2>. QED BY <1>2, <2>1, CallersAssumption DEF SettledWhenUnlocked, SettledPhases
  <1>8. PhaseOfPoint' /\ TokenOfPoint' /\ TokenOfThisOpening'
    BY <1>2, <1>4, <1>5, <1>6, OthersPhasing, PointsApart
       DEF PhaseOfPoint, TokenOfPoint, TokenOfThisOpening, Carrying, Unsettled, ClosingPoints
  <1>. QED BY <1>7, <1>8 DEF Phasing

LEMMA OutsidePhasing ==
  ASSUME Typing, Phasing, RecordsOwned', NEW t \in Callers, Outside(t)
  PROVE  Phasing'
  <1>1. \A p \in Panes : panes[p] # 0 => panes[p] \in Generations
    BY DEF Typing, TypeOK, Generations
  <1>2. SettledWhenUnlocked'
    BY <1>1 DEF Outside, Phasing, SettledWhenUnlocked, RecordKept
  <1>3. PhaseOfPoint' /\ TokenOfPoint' /\ TokenOfThisOpening'
    <2>1. 0 \notin Generations
      BY DEF Generations
    <2>2. \A u \in Callers \ {t} : call[u].at \in HoldingPoints => call[u].gen # 0
      BY DEF Typing, FramesNameDeclared, FrameDeclared
    <2>. QED BY <2>1, <2>2, OthersPhasing, PointsApart
             DEF Outside, PhaseOfPoint, TokenOfPoint, TokenOfThisOpening, Carrying
  <1>. QED BY <1>2, <1>3 DEF Phasing

LEMMA NextPhasing == Typing /\ Locking /\ Phasing /\ [Next]_vars => Phasing'
  <1> SUFFICES ASSUME Typing, Locking, Phasing, [Next]_vars PROVE Phasing'
    OBVIOUS
  <1>1. RecordsOwned'
    BY NextOwned DEF Phasing
  <1>2. CASE UNCHANGED <<panes, record, lock, call>>
    BY <1>1, <1>2
       DEF Phasing, PhaseOfPoint, TokenOfPoint, TokenOfThisOpening, SettledWhenUnlocked
  <1>3. CASE World
    BY <1>2, <1>3, WorldStep
  <1>4. ASSUME NEW t \in Callers, Begin(t) \/ Verb(t) \/ Step(t) PROVE Phasing'
    BY <1>1, <1>4, StepKinds, OpensPhasing, ClosingPhasing, TakingPhasing, OutsidePhasing
       DEF Taking
  <1>. QED BY <1>2, <1>3, <1>4 DEF Next, Rest, vars

LEMMA PhasingInvariant == Spec => [](Typing /\ Locking /\ Phasing)
  BY InitTyping, NextTyping, InitLocking, NextLocking, InitPhasing, NextPhasing, PTL DEF Spec

\* A pane that nobody works on is live or blocked, whatever was refused, lost or
\* replaced while it was opened.
THEOREM UnlockedIsSettled == Spec => []SettledWhenUnlocked
  BY PhasingInvariant, PTL DEF Phasing

\* An opening carries the token it prepared itself, or none.
THEOREM TokensAreOwn == Spec => []TokenOfThisOpening
  BY PhasingInvariant, PTL DEF Phasing

-----------------------------------------------------------------------------
(* The life PaneLifecycle has a pane lead *)

Shown == [p \in Panes |-> Phase(p)]

LEMMA OthersShown ==
  ASSUME Typing, Phasing, NEW p \in Panes, NEW g, source[g].pane = p,
         \A q \in Panes \ {p} : panes'[q] = panes[q],
         \A h \in Generations \ {g} : RecordKept(h)
  PROVE  Shown' = [Shown EXCEPT ![p] = Phase(p)']
  <1>1. \A q \in Panes \ {p} : panes[q] # 0 => panes[q] \in Generations \ {g}
    BY DEF Typing, TypeOK, Generations, Phasing, RecordsOwned
  <1>2. \A q \in Panes \ {p} : Phase(q)' = Phase(q)
    BY <1>1 DEF Phase, RecordKept
  <1>. QED BY <1>2 DEF Shown

LEMMA OpensShown ==
  ASSUME Typing, Locking, Phasing, NEW t \in Callers, Opens(t)
  PROVE  [Lifecycle!Next]_(Lifecycle!vars)
  <1> SUFFICES ASSUME NEW p \in Panes, p = call[t].pane
               PROVE  [Lifecycle!Next]_(Lifecycle!vars)
    BY PointsApart DEF Opens, Typing, FramesNameDeclared, FrameDeclared
  <1> DEFINE g == call[t].gen
  <1>1. /\ call[t].at \in OpeningPoints /\ call[t].at \in HoldingPoints
        /\ \A h \in Generations \ {g} : RecordKept(h)
        /\ UNCHANGED panes
    BY PointsApart DEF Opens, RecordKept, OpeningEnds, OpeningOn, SameWork
  <1>2. /\ panes[p] = g /\ g # 0 /\ source[g].pane = p
        /\ record[g].phase \in Unsettled
    BY <1>1 DEF Typing, TypeOK, FramesNameDeclared, FrameDeclared, Locking, LockGuardsRecord,
                Phasing, RecordsOwned, PhaseOfPoint
  <1>3. Shown' = [Shown EXCEPT ![p] = Phase(p)'] /\ Shown[p] = "opening"
    <2>1. Shown[p] = "opening"
      BY <1>2 DEF Shown, Phase, Unsettled
    <2>. QED BY <1>1, <1>2, <2>1, OthersShown
  <1>4. Phase(p)' \in {"live", "blocked", "opening"}
    <2>1. record'[g].phase \in Unsettled \cup SettledPhases
      BY <1>2 DEF Opens, OpeningEnds, OpeningOn
    <2>. QED BY <1>1, <1>2, <2>1 DEF Phase, Unsettled, SettledPhases
  <1>5. CASE Phase(p)' = "opening"
    BY <1>1, <1>2, <1>3, <1>5 DEF Lifecycle!vars, Shown
  <1>6. CASE Phase(p)' \in {"live", "blocked"}
    <2>1. Lifecycle!Settle(p)
      BY <1>1, <1>3, <1>6 DEF Lifecycle!Settle, Shown
    <2>. QED BY <1>2, <2>1 DEF Lifecycle!Next
  <1>. QED BY <1>4, <1>5, <1>6

LEMMA ClosingShown ==
  ASSUME Typing, Locking, Phasing, NEW t \in Callers, Closing(t)
  PROVE  [Lifecycle!Next]_(Lifecycle!vars)
  <1> SUFFICES ASSUME NEW p \in Panes, p = call[t].pane
               PROVE  [Lifecycle!Next]_(Lifecycle!vars)
    BY PointsApart DEF Closing, Typing, FramesNameDeclared, FrameDeclared
  <1> DEFINE g == call[t].gen
  <1>1. /\ call[t].at \in ClosingPoints /\ call[t].at \in HoldingPoints
        /\ UNCHANGED record /\ \A h \in Generations : RecordKept(h)
    BY PointsApart DEF Closing, RecordKept
  <1>2. /\ panes[p] = g /\ g # 0 /\ source[g].pane = p
        /\ record[g].phase \in SettledPhases
    BY <1>1 DEF Typing, TypeOK, FramesNameDeclared, FrameDeclared, Locking, LockGuardsRecord,
                Phasing, RecordsOwned, PhaseOfPoint
  <1>3. CASE UNCHANGED panes
    BY <1>1, <1>3 DEF Lifecycle!vars, Phase
  <1>4. CASE panes' = [panes EXCEPT ![p] = 0]
    <2>1. \A q \in Panes \ {p} : panes'[q] = panes[q]
      BY <1>4
    <2>2. panes'[p] = 0
      BY <1>2, <1>4 DEF Typing, TypeOK
    <2>3. /\ Shown' = [Shown EXCEPT ![p] = Phase(p)'] /\ Phase(p)' = "absent"
          /\ Shown[p] \in {"live", "blocked"}
      <3>1. Phase(p)' = "absent" /\ Shown[p] \in {"live", "blocked"}
        BY <1>2, <2>2 DEF Shown, Phase, SettledPhases
      <3>. QED BY <1>1, <1>2, <2>1, <3>1, OthersShown
    <2>4. Lifecycle!Close(p)
      BY <1>4, <2>3 DEF Lifecycle!Close, Lifecycle!Settled, Shown
    <2>. QED BY <1>2, <2>4 DEF Lifecycle!Next
  <1>. QED BY <1>3, <1>4 DEF Closing, ClosingEnds, ClosingOn, SameWork

LEMMA TakingShown ==
  ASSUME Typing, Locking, Phasing, NEW t \in Callers, NEW p \in Panes,
         Installs(t, p) \/ Reopens(t, p) \/ ToClose(t, p)
  PROVE  [Lifecycle!Next]_(Lifecycle!vars)
  <1> DEFINE g == call[t].named
  <1>1. /\ panes \in [Panes -> 0 .. MaxGeneration] /\ record \in [Generations -> Records]
        /\ call[t] \in Frames /\ lock[p] = Free
        /\ panes[p] # 0 => panes[p] \in Generations /\ source[panes[p]].pane = p
                           /\ record[panes[p]].phase \in SettledPhases
    BY DEF Typing, TypeOK, Generations, Installs, Reopens, ToClose, Takes, Phasing,
           SettledWhenUnlocked, SettledPhases, RecordsOwned
  <1>2. Shown[p] # "opening" /\ (panes[p] # 0 => Shown[p] \in {"live", "blocked"})
    BY <1>1 DEF Shown, Phase, SettledPhases
  <1>3. CASE Installs(t, p)
    <2>1. g \in Generations /\ source[g].pane = p
      BY <1>1, <1>3 DEF Installs, Phasing, RecordsOwned, Frames, Generations
    <2>2. /\ \A q \in Panes \ {p} : panes'[q] = panes[q]
          /\ \A h \in Generations \ {g} : RecordKept(h)
          /\ panes'[p] = g /\ record'[g].phase = "opening" /\ g # 0
      <3>1. record'[g] = NewRecord /\ \A h \in Generations \ {g} : record'[h] = record[h]
        BY <1>1, <1>3, <2>1 DEF Installs
      <3>2. panes'[p] = g /\ \A q \in Panes \ {p} : panes'[q] = panes[q]
        BY <1>1, <1>3 DEF Installs
      <3>. QED BY <2>1, <3>1, <3>2 DEF RecordKept, NewRecord, Generations
    <2>3. Shown' = [Shown EXCEPT ![p] = "opening"]
      <3>1. Phase(p)' = "opening"
        BY <2>2 DEF Phase
      <3>. QED BY <2>1, <2>2, <3>1, OthersShown
    <2>4. Lifecycle!Open(p, g)
      BY <1>2, <1>3, <2>3 DEF Lifecycle!Open, Installs, Shown
    <2>. QED BY <2>1, <2>4 DEF Lifecycle!Next
  <1>4. CASE Reopens(t, p)
    <2>1. /\ \A h \in Generations \ {panes[p]} : RecordKept(h)
          /\ UNCHANGED panes
          /\ record'[panes[p]].phase = "opening" /\ panes[p] # 0
      BY <1>1, <1>4 DEF Reopens, RecordKept, Records
    <2>2. Shown' = [Shown EXCEPT ![p] = "opening"]
      <3>1. Phase(p)' = "opening"
        BY <2>1 DEF Phase
      <3>. QED BY <1>1, <2>1, <3>1, OthersShown
    <2>3. Lifecycle!Reopen(p)
      BY <1>2, <2>1, <2>2 DEF Lifecycle!Reopen, Lifecycle!Settled, Shown
    <2>. QED BY <2>3 DEF Lifecycle!Next
  <1>5. CASE ToClose(t, p)
    BY <1>5 DEF ToClose, Lifecycle!vars, Phase
  <1>. QED BY <1>3, <1>4, <1>5

LEMMA NextShown ==
  Typing /\ Locking /\ Phasing /\ [Next]_vars => [Lifecycle!Next]_(Lifecycle!vars)
  <1> SUFFICES ASSUME Typing, Locking, Phasing, [Next]_vars
               PROVE  [Lifecycle!Next]_(Lifecycle!vars)
    OBVIOUS
  <1>1. CASE UNCHANGED <<panes, record>>
    BY <1>1 DEF Lifecycle!vars, Phase
  <1>2. CASE World
    BY <1>1, <1>2, WorldStep
  <1>3. ASSUME NEW t \in Callers, Outside(t) PROVE [Lifecycle!Next]_(Lifecycle!vars)
    <2>1. \A p \in Panes : panes[p] # 0 => RecordKept(panes[p])
      BY <1>3 DEF Outside, Typing, TypeOK, Generations
    <2>. QED BY <1>3, <2>1 DEF Outside, RecordKept, Lifecycle!vars, Phase
  <1>. QED BY <1>1, <1>2, <1>3, StepKinds, OpensShown, ClosingShown, TakingShown
           DEF Next, Rest, vars, Taking

\* However calls cross and sidecars are replaced, no step of the sessions
\* departs from the life of a pane that PaneLifecycle describes.
THEOREM FollowsStepsOfLifecycle == Spec => StepsOfLifecycle
  <1>1. Init => Lifecycle!Init
    BY DEF Init, Lifecycle!Init, Phase
  <1>. QED BY <1>1, NextShown, PhasingInvariant, PTL DEF Spec, StepsOfLifecycle, Lifecycle!Steps

-----------------------------------------------------------------------------
(* Failed Starts *)

\* A Start yet to install its record, or to fail without one.
Starting(t) == call[t].op = "start" /\ call[t].at \in {"units", "lock"}
StartEvents == {event \in pending : event.op = "start"}

\* A declaration is started once: one that is to be started holds no pane, and
\* no two goroutines start the same.
StartedOnce ==
  /\ \A event \in StartEvents :
       /\ \A t \in Callers : Starting(t) => call[t].named # event.gen
       /\ \A p \in Panes : panes[p] # event.gen
  /\ \A t \in Callers : Starting(t) => \A p \in Panes : panes[p] # call[t].named
  /\ \A t, u \in Callers : Starting(t) /\ Starting(u) /\ t # u => call[t].named # call[u].named

FailuresDeclared ==
  /\ \A p \in Panes : failed[p] <= Len(source)
  /\ \A t \in Callers : call[t].at = "units" => call[t].op = "start"

\* The inductive invariant of what the sessions do with failed Starts, whatever
\* the host.
Failing == RecordsOwned /\ StartedOnce /\ FailuresDeclared /\ NoFailureHidden

LEMMA InitFailing == Init => Failing
  BY InitOwned
  DEF Init, Failing, StartedOnce, FailuresDeclared, NoFailureHidden, StartEvents, Starting, Idle

\* The record a pane comes to hold.
LEMMA PanesStep ==
  ASSUME Typing, Locking, NEW t \in Callers, Begin(t) \/ Verb(t) \/ Step(t)
  PROVE  \/ \A p \in Panes : panes'[p] \in {panes[p], 0}
         \/ \E p \in Panes : Installs(t, p) /\ \A q \in Panes \ {p} : panes'[q] = panes[q]
  <1>1. panes \in [Panes -> 0 .. MaxGeneration]
    BY DEF Typing, TypeOK
  <1>2. CASE UNCHANGED panes
    BY <1>2
  <1>3. CASE Closing(t)
    <2>1. panes' = panes \/ panes' = [panes EXCEPT ![call[t].pane] = 0]
      BY <1>3 DEF Closing, ClosingEnds, ClosingOn, SameWork
    <2>. QED BY <1>1, <2>1
  <1>4. ASSUME NEW p \in Panes, Installs(t, p)
        PROVE  \A q \in Panes \ {p} : panes'[q] = panes[q]
    BY <1>1, <1>4 DEF Installs
  <1>5. CASE Taking(t)
    <2>1. PICK p \in Panes : Installs(t, p) \/ Reopens(t, p) \/ ToClose(t, p)
      BY <1>5 DEF Taking
    <2>2. CASE Installs(t, p)
      BY <1>4, <2>2
    <2>. QED BY <1>2, <2>1, <2>2 DEF Reopens, ToClose
  <1>6. CASE Outside(t) \/ Opens(t)
    BY <1>2, <1>6 DEF Outside, Opens, OpeningEnds, OpeningOn, SameWork
  <1>. QED BY <1>3, <1>5, <1>6, StepKinds

\* The failure on record of a pane changes when units fail to start, and goes
\* when a record is installed.
UnitsFail(t) ==
  /\ call[t].at = "units" /\ UNCHANGED <<panes, pending>> /\ Return(t)
  /\ RecordPreStartFailure(call[t].pane, call[t].named)

LEMMA FailedStep ==
  ASSUME Typing, Locking, NEW t \in Callers, Begin(t) \/ Verb(t) \/ Step(t)
  PROVE  \/ UNCHANGED failed /\ \A p \in Panes : panes'[p] \in {panes[p], 0}
         \/ UnitsFail(t)
         \/ \E p \in Panes : Installs(t, p) /\ failed' = [failed EXCEPT ![p] = 0]
  <1>1. CASE StartUnits(t)
    BY <1>1 DEF StartUnits, UnitsFail, At, hostVars
  <1>2. CASE InstallStart(t)
    <2>1. PICK p \in Panes : Installs(t, p) \/ Reopens(t, p) \/ ToClose(t, p)
      BY <1>2, TakingStep DEF Taking
    <2>2. Installs(t, p) /\ failed' = [failed EXCEPT ![p] = 0]
      <3>1. call'[t].at = "rehydrate" /\ call[t].op = "start"
        BY <1>2 DEF InstallStart, Typing, TypeOK, Frames
      <3>. QED BY <1>2, <2>1, <3>1 DEF InstallStart, Installs, Reopens, ToClose
    <2>. QED BY <2>2
  <1>3. CASE ~StartUnits(t) /\ ~InstallStart(t)
    <2>0. ASSUME NEW p \in Panes, Installs(t, p) PROVE FALSE
      <3>1. call[t].at = "lock" /\ call[t].op = "start" /\ call'[t].at = "rehydrate"
        BY <2>0 DEF Installs
      <3>2. ~Outside(t) /\ ~Opens(t) /\ ~Closing(t)
        BY <3>1 DEF Outside, Opens, Closing, HoldingPoints, OpeningPoints, ClosingPoints
      <3>3. ~LockRestart(t) /\ ~LockClosing(t)
        BY <3>1 DEF LockRestart, LockClosing
      <3>. QED BY <1>3, <3>2, <3>3, OutsideStep, OpeningStep, ClosingStep DEF Step
    <2>1. CASE Begin(t) \/ Verb(t)
      BY <2>1 DEF Begin, Verb, BeginStart, BeginRemove, BeginEvent, BeginRestart, BeginStop,
                  BeginResize, BeginVerb, sessionsVars
    <2>2. CASE Opening(t)
      BY <2>2 DEF Opening, Rehydrate, Measure, Prepare, OpenShell, FitShell, Ensure, Bind,
                  OpenSurface, sessionsVars
    <2>3. CASE \/ StaleStart(t) \/ LockRestart(t) \/ SkipRestart(t) \/ LockClosing(t)
               \/ SkipClosing(t) \/ CloseSurface(t) \/ Detach(t) \/ CloseShell(t)
               \/ ResizeSurface(t) \/ ResizeShell(t) \/ NoteGrid(t)
      <3>1. UNCHANGED failed
        BY <2>3 DEF StaleStart, LockRestart, SkipRestart, LockClosing, SkipClosing, CloseSurface,
                    Detach, CloseShell, ResizeSurface, ResizeShell, NoteGrid, sessionsVars
      <3>. QED BY <3>1, <2>0, PanesStep
    <2>. QED BY <1>3, <2>1, <2>2, <2>3 DEF Step
  <1>. QED BY <1>1, <1>2, <1>3

\* What the compositor declares is new, and nobody names it yet.
LEMMA WorldEvents ==
  ASSUME Typing, World
  PROVE  \/ UNCHANGED <<source, StartEvents>>
         \/ /\ Len(source') = Len(source) + 1
            /\ StartEvents' = StartEvents \cup {[op |-> "start", gen |-> Len(source) + 1]}
  <1>1. ASSUME NEW s \in Sources, Declare(s) \/ Move(s)
        PROVE  /\ Len(source') = Len(source) + 1
               /\ StartEvents' = StartEvents \cup {[op |-> "start", gen |-> Len(source) + 1]}
    BY <1>1 DEF Declare, Move, StartEvents, Typing, TypeOK
  <1>2. ASSUME NEW p \in Panes, Undeclare(p) PROVE UNCHANGED <<source, StartEvents>>
    BY <1>2 DEF Undeclare, StartEvents
  <1>3. ASSUME NEW u \in Units, Crash(u) PROVE UNCHANGED <<source, StartEvents>>
    BY <1>3 DEF Crash, StartEvents
  <1>. QED BY <1>1, <1>2, <1>3 DEF World

\* How starts go on: a goroutine takes one up, keeps to it, or is done with it.
LEMMA StartingStep ==
  ASSUME Typing, Locking, NEW t \in Callers, Begin(t) \/ Verb(t) \/ Step(t)
  PROVE  /\ UNCHANGED source
         /\ \A u \in Callers \ {t} : call'[u] = call[u] /\ (Starting(u)' <=> Starting(u))
         /\ \/ /\ Starting(t)' => Starting(t) /\ call'[t].named = call[t].named
                                  /\ call'[t].pane = call[t].pane
               /\ StartEvents' \subseteq StartEvents
            \/ \E event \in StartEvents :
                 Takeup(t, event) /\ StartEvents' = StartEvents \ {event} /\ UNCHANGED failed
  <1>1. /\ UNCHANGED source
        /\ \A u \in Callers \ {t} : call'[u] = call[u] /\ (Starting(u)' <=> Starting(u))
    BY EventStep DEF OthersUnchanged, Starting
  <1>2. CASE UNCHANGED pending
    BY <1>1, <1>2, EventStep DEF StartEvents, Starting, Takeup
  <1>3. ASSUME NEW event \in pending, Takeup(t, event), UNCHANGED failed
        PROVE  \/ /\ ~Starting(t)' /\ StartEvents' \subseteq StartEvents
               \/ event \in StartEvents /\ StartEvents' = StartEvents \ {event}
    BY <1>3 DEF Takeup, StartEvents, Starting
  <1>. QED BY <1>1, <1>2, <1>3, EventStep

LEMMA NextStartedOnce ==
  ASSUME Typing, Locking, RecordsOwned, StartedOnce, NEW t \in Callers,
         Begin(t) \/ Verb(t) \/ Step(t)
  PROVE  StartedOnce'
  <1>1. /\ panes \in [Panes -> 0 .. MaxGeneration]
        /\ \A event \in StartEvents : event.op = "start" /\ event.gen \in Generations
        /\ \A event \in StartEvents : event = [op |-> "start", gen |-> event.gen]
    BY DEF Typing, TypeOK, StartEvents
  <1>2. /\ \A u \in Callers \ {t} : call'[u] = call[u] /\ (Starting(u)' <=> Starting(u))
        /\ StartEvents' \subseteq StartEvents
    BY StartingStep
  <1>3. ASSUME NEW event \in StartEvents, Takeup(t, event), StartEvents' = StartEvents \ {event},
               \A p \in Panes : panes'[p] \in {panes[p], 0}
        PROVE  StartedOnce'
    <2>1. call'[t].named = event.gen /\ event.gen # 0 /\ ~Starting(t)
      BY <1>1, <1>3 DEF Takeup, Generations, Starting
    <2>2. \A other \in StartEvents' : other \in StartEvents /\ other.gen # event.gen
      BY <1>1, <1>3
    <2>3. \A g \in Generations : \A p \in Panes : panes[p] # g => panes'[p] # g
      BY <1>1, <1>3 DEF Generations
    <2>4. \A other \in StartEvents' :
            /\ \A u \in Callers : Starting(u)' => call'[u].named # other.gen
            /\ \A p \in Panes : panes'[p] # other.gen
      BY <1>1, <1>2, <2>1, <2>2, <2>3 DEF StartedOnce
    <2>5. ASSUME NEW u \in Callers, Starting(u)'
          PROVE  /\ \A p \in Panes : panes'[p] # call'[u].named
                 /\ \A v \in Callers : Starting(v)' /\ u # v => call'[u].named # call'[v].named
      <3>1. CASE u = t
        BY <1>1, <1>2, <1>3, <2>1, <2>3, <3>1 DEF StartedOnce
      <3>2. CASE u # t
        <4>1. Starting(u) /\ call'[u] = call[u] /\ call[u].named \in Generations
          BY <1>2, <2>5, <3>2 DEF Typing, TypeOK, Frames, RecordsOwned, Generations, Starting
        <4>. QED BY <1>1, <1>2, <1>3, <2>1, <2>3, <3>2, <4>1 DEF StartedOnce
      <3>. QED BY <3>1, <3>2
    <2>. QED BY <2>4, <2>5 DEF StartedOnce
  <1>4. ASSUME NEW p \in Panes, Installs(t, p), \A q \in Panes \ {p} : panes'[q] = panes[q],
               Starting(t)' => Starting(t) /\ call'[t].named = call[t].named
        PROVE  StartedOnce'
    <2>1. ~Starting(t)' /\ panes'[p] = call[t].named /\ Starting(t)
      BY <1>1, <1>4 DEF Installs, Starting
    <2>. QED BY <1>2, <1>4, <2>1 DEF StartedOnce
  <1>5. ASSUME \A p \in Panes : panes'[p] \in {panes[p], 0},
               Starting(t)' => Starting(t) /\ call'[t].named = call[t].named
        PROVE  StartedOnce'
    <2>1. \A event \in StartEvents' : \A p \in Panes : panes'[p] # event.gen
      BY <1>1, <1>2, <1>5 DEF StartedOnce, Generations
    <2>2. \A u \in Callers : Starting(u)' => Starting(u) /\ call'[u].named = call[u].named
      BY <1>2, <1>5
    <2>3. \A u \in Callers : Starting(u) => call[u].named # 0
      BY DEF RecordsOwned, Starting
    <2>4. \A u \in Callers : Starting(u)' => \A p \in Panes : panes'[p] # call'[u].named
      BY <1>5, <2>2, <2>3 DEF StartedOnce
    <2>. QED BY <1>2, <2>1, <2>2, <2>4 DEF StartedOnce
  <1>6. \A event \in StartEvents, p \in Panes : ~(Takeup(t, event) /\ Installs(t, p))
    BY DEF Takeup, Installs
  <1>. QED BY StartingStep, PanesStep, <1>3, <1>4, <1>5, <1>6

LEMMA NextFailures ==
  ASSUME Typing, Locking, Failing, NEW t \in Callers, Begin(t) \/ Verb(t) \/ Step(t)
  PROVE  FailuresDeclared' /\ NoFailureHidden'
  <1>1. /\ panes \in [Panes -> 0 .. MaxGeneration] /\ failed \in [Panes -> 0 .. MaxGeneration]
        /\ call \in [Callers -> Frames]
        /\ \A u \in Callers : call[u].named \in Nat /\ call[u].named <= Len(source)
        /\ Len(source) \in Nat /\ UNCHANGED source
    BY StartingStep DEF Typing, TypeOK, FramesNameDeclared, FrameDeclared, Frames
  <1>2. \A u \in Callers : call'[u].at = "units" => call'[u].op = "start"
    <2>1. call'[t].at = "units" => call'[t].op = "start"
      BY EventStep DEF Takeup
    <2>. QED BY <1>1, <2>1, EventStep DEF Failing, FailuresDeclared, OthersUnchanged
  <1>3. CASE UNCHANGED failed /\ \A p \in Panes : panes'[p] \in {panes[p], 0}
    BY <1>1, <1>2, <1>3 DEF Failing, FailuresDeclared, NoFailureHidden
  <1>4. CASE UnitsFail(t)
    <2> DEFINE p == call[t].pane  g == call[t].named
    <2>1. call[t].op = "start" /\ p \in Panes /\ call[t].at = "units" /\ UNCHANGED panes
      BY <1>4 DEF UnitsFail, Failing, FailuresDeclared, Typing, FramesNameDeclared, FrameDeclared
    <2>2. g # panes[p]
      BY <2>1 DEF Failing, StartedOnce, Starting
    <2>3. failed' = failed \/ (panes[p] <= g /\ failed' = [failed EXCEPT ![p] = g])
      BY <1>1, <1>4, <2>1 DEF UnitsFail, RecordPreStartFailure
    <2>4. g \in Nat /\ g <= Len(source) /\ panes[p] \in Nat /\ failed[p] \in Nat
      BY <1>1, <2>1
    <2>5. CASE failed' = failed
      BY <1>1, <1>2, <2>1, <2>5 DEF Failing, FailuresDeclared, NoFailureHidden
    <2>6. CASE panes[p] <= g /\ failed' = [failed EXCEPT ![p] = g]
      <3>1. \A q \in Panes : failed'[q] = IF q = p THEN g ELSE failed[q]
        BY <1>1, <2>6
      <3>2. FailuresDeclared'
        BY <1>1, <1>2, <2>4, <3>1 DEF Failing, FailuresDeclared
      <3>3. NoFailureHidden'
        BY <2>1, <2>2, <2>4, <2>6, <3>1 DEF Failing, NoFailureHidden
      <3>. QED BY <3>2, <3>3
    <2>. QED BY <2>3, <2>5, <2>6
  <1>5. ASSUME NEW p \in Panes, Installs(t, p), failed' = [failed EXCEPT ![p] = 0]
        PROVE  FailuresDeclared' /\ NoFailureHidden'
    <2>1. panes' = [panes EXCEPT ![p] = call[t].named]
      BY <1>5 DEF Installs
    <2>. QED BY <1>1, <1>2, <1>5, <2>1 DEF Failing, FailuresDeclared, NoFailureHidden
  <1>. QED BY <1>3, <1>4, <1>5, FailedStep

LEMMA WorldFailing ==
  ASSUME Typing, Failing, World PROVE StartedOnce' /\ FailuresDeclared' /\ NoFailureHidden'
  <1>1. UNCHANGED <<panes, failed, call>> /\ Len(source) <= Len(source')
    BY WorldStep
  <1>2. /\ \A u \in Callers : Starting(u)' <=> Starting(u)
        /\ \A u \in Callers : call[u].named \in Nat /\ call[u].named <= Len(source)
        /\ \A p \in Panes : panes[p] \in Nat /\ failed[p] \in Nat /\ panes[p] <= Len(source)
        /\ Len(source) \in Nat /\ Len(source') \in Nat
    <2>1. Len(source') \in Nat
      BY WorldEvents DEF Typing, TypeOK
    <2>. QED BY <1>1, <2>1
         DEF Typing, TypeOK, FramesNameDeclared, FrameDeclared, Frames, Starting
  <1>3. StartedOnce'
    <2>1. CASE UNCHANGED StartEvents
      BY <1>1, <1>2, <2>1 DEF Failing, StartedOnce
    <2>2. CASE StartEvents' = StartEvents \cup {[op |-> "start", gen |-> Len(source) + 1]}
      <3>1. \A event \in StartEvents' : event \in StartEvents \/ event.gen = Len(source) + 1
        BY <2>2
      <3>. QED BY <1>1, <1>2, <3>1 DEF Failing, StartedOnce
    <2>. QED BY <2>1, <2>2, WorldEvents
  <1>. QED BY <1>1, <1>2, <1>3 DEF Failing, FailuresDeclared, NoFailureHidden

LEMMA NextFailing == Typing /\ Locking /\ Failing /\ [Next]_vars => Failing'
  <1> SUFFICES ASSUME Typing, Locking, Failing, [Next]_vars PROVE Failing'
    OBVIOUS
  <1>1. RecordsOwned'
    BY NextOwned DEF Failing
  <1>2. CASE UNCHANGED vars
    BY <1>1, <1>2
    DEF vars, Failing, StartedOnce, FailuresDeclared, NoFailureHidden, StartEvents, Starting
  <1>3. CASE World
    BY <1>1, <1>3, WorldFailing DEF Failing
  <1>4. ASSUME NEW t \in Callers, Begin(t) \/ Verb(t) \/ Step(t) PROVE Failing'
    BY <1>1, <1>4, NextStartedOnce, NextFailures DEF Failing
  <1>. QED BY <1>2, <1>3, <1>4 DEF Next, Rest

LEMMA FailingInvariant == Spec => [](Typing /\ Locking /\ Failing)
  BY InitTyping, NextTyping, InitLocking, NextLocking, InitFailing, NextFailing, PTL DEF Spec

\* A failed Start is never on record behind the record of a newer generation,
\* so Status shows every failure there is.
THEOREM FailuresAreShown == Spec => []NoFailureHidden
  BY FailingInvariant, PTL DEF Failing

-----------------------------------------------------------------------------
(* A host that orders the calls of one pane *)

\* The failure on record of a pane is older than every generation of it that
\* is still to be started.
OrderKept ==
  /\ \A t, u \in Callers :
       {call[t].op, call[u].op} \subseteq {"start", "remove"} /\ t # u => call[t].pane # call[u].pane
  /\ \A t \in Callers : Starting(t) => failed[call[t].pane] < call[t].named
  /\ \A event \in StartEvents :
       /\ failed[source[event.gen].pane] < event.gen
       /\ \A t \in Callers : Starting(t) /\ call[t].pane = source[event.gen].pane =>
            call[t].named < event.gen

\* The inductive invariant of what an ordered host does with failed Starts.
Ordering == Failing /\ OrderKept

LEMMA InitOrdering == Init => Ordering
  BY InitFailing DEF Init, Ordering, OrderKept, StartEvents, Starting, Idle

LEMMA WorldOrdering == ASSUME Typing, Ordering, World PROVE OrderKept'
  <1>1. UNCHANGED <<panes, failed, call>> /\ Len(source) <= Len(source')
    BY WorldStep
  <1>2. /\ \A t \in Callers : Starting(t)' <=> Starting(t)
        /\ \A t \in Callers : Starting(t) =>
             call[t].pane \in Panes /\ call[t].named \in Nat /\ call[t].named <= Len(source)
        /\ \A p \in Panes : failed[p] \in Nat /\ failed[p] <= Len(source)
        /\ Len(source) \in Nat
    BY <1>1 DEF Typing, TypeOK, FramesNameDeclared, FrameDeclared, Frames, Starting, Ordering,
                Failing, FailuresDeclared
  <1>3. \A event \in StartEvents : source'[event.gen] = source[event.gen]
    BY WorldStep DEF StartEvents, Typing, TypeOK, FramesNameDeclared
  <1>4. ASSUME NEW event \in StartEvents'
        PROVE  /\ failed[source'[event.gen].pane] < event.gen
               /\ \A t \in Callers : Starting(t) /\ call[t].pane = source'[event.gen].pane =>
                    call[t].named < event.gen
    <2>1. CASE event \in StartEvents
      BY <1>3, <2>1 DEF Ordering, OrderKept
    <2>2. CASE event \notin StartEvents
      <3>1. event.gen = Len(source) + 1 /\ Len(source') = Len(source) + 1
        BY <1>4, <2>2, WorldEvents
      <3>2. source'[event.gen].pane \in Panes
        <4>1. source' \in Seq(Sources)
          BY WorldTyping, <1>1 DEF Typing, TypeOK
        <4>. QED BY <1>2, <3>1, <4>1, SourcesAssumption
      <3>. QED BY <1>2, <3>1, <3>2
    <2>. QED BY <2>1, <2>2
  <1>. QED BY <1>1, <1>2, <1>4 DEF Ordering, OrderKept

LEMMA StepOrdering ==
  ASSUME Typing, Locking, Ordering, OrderedHost, NEW t \in Callers,
         Begin(t) \/ Verb(t) \/ Step(t)
  PROVE  OrderKept'
  <1>1. /\ UNCHANGED source /\ StartEvents' \subseteq StartEvents
        /\ \A u \in Callers \ {t} : call'[u] = call[u] /\ (Starting(u)' <=> Starting(u))
        /\ failed \in [Panes -> Nat]
        /\ \A event \in StartEvents : /\ event.op = "start" /\ event \in pending
                                      /\ event.gen \in Nat \ {0}
                                      /\ event = [op |-> "start", gen |-> event.gen]
                                      /\ source[event.gen].pane \in Panes
    <2>1. failed \in [Panes -> Nat]
      BY DEF Typing, TypeOK
    <2>2. ASSUME NEW event \in StartEvents
          PROVE  /\ event.op = "start" /\ event \in pending
                 /\ event.gen \in Nat \ {0}
                 /\ event = [op |-> "start", gen |-> event.gen]
                 /\ source[event.gen].pane \in Panes
      <3>1. event \in pending /\ event \in [op : {"start", "remove"}, gen : Generations]
            /\ event.op = "start" /\ event.gen <= Len(source) /\ source \in Seq(Sources)
        BY <2>2 DEF StartEvents, Typing, TypeOK, FramesNameDeclared
      <3>. QED BY <3>1, SourcesAssumption DEF Generations
    <2>. QED BY <2>1, <2>2, StartingStep
  <1>2. \A u, v \in Callers :
          {call'[u].op, call'[v].op} \subseteq {"start", "remove"} /\ u # v =>
            call'[u].pane # call'[v].pane
    <2>1. ASSUME NEW u \in Callers \ {t}, call[u].op \in {"start", "remove"},
                 call'[t].op \in {"start", "remove"}
          PROVE  call'[t].pane # call[u].pane
      <3>1. ASSUME NEW event \in pending, Takeup(t, event) PROVE call'[t].pane # call[u].pane
        BY <2>1, <3>1 DEF Takeup, InTurn
      <3>2. ASSUME call'[t].op = call[t].op, call'[t].pane = call[t].pane
            PROVE  call'[t].pane # call[u].pane
        BY <2>1, <3>2 DEF Ordering, OrderKept
      <3>. QED BY <2>1, <3>1, <3>2, EventStep
    <2>. QED BY <1>1, <2>1 DEF Ordering, OrderKept
  <1>3. ASSUME NEW event \in StartEvents, Takeup(t, event), StartEvents' = StartEvents \ {event},
               UNCHANGED failed
        PROVE  OrderKept'
    <2>1. call'[t].named = event.gen /\ call'[t].pane = source[event.gen].pane
      BY <1>3 DEF Takeup
    <2>2. ASSUME NEW other \in StartEvents, other # event,
                 source[other.gen].pane = source[event.gen].pane
          PROVE  event.gen < other.gen
      <3>1. Turn(event) <= Turn(other)
        BY <1>1, <1>3, <2>2 DEF Takeup, InTurn
      <3>2. event.gen <= other.gen
        BY <1>1, <3>1 DEF Turn
      <3>. QED BY <1>1, <2>2, <3>2
    <2>3. ASSUME NEW u \in Callers, Starting(u)'
          PROVE  /\ failed[call'[u].pane] < call'[u].named
                 /\ \A other \in StartEvents' : call'[u].pane = source[other.gen].pane =>
                      call'[u].named < other.gen
      <3>1. CASE u = t
        BY <1>1, <1>3, <2>1, <2>2, <3>1 DEF Ordering, OrderKept
      <3>2. CASE u # t
        BY <1>1, <1>3, <2>3, <3>2 DEF Ordering, OrderKept
      <3>. QED BY <3>1, <3>2
    <2>. QED BY <1>1, <1>2, <1>3, <2>3 DEF Ordering, OrderKept
  <1>4. ASSUME Starting(t)' => Starting(t) /\ call'[t].named = call[t].named
                                         /\ call'[t].pane = call[t].pane
        PROVE  OrderKept'
    <2>1. \A u \in Callers : Starting(u)' => Starting(u) /\ call'[u].named = call[u].named
                                                        /\ call'[u].pane = call[u].pane
      BY <1>1, <1>4
    <2>2. CASE UNCHANGED failed
      BY <1>1, <1>2, <2>1, <2>2 DEF Ordering, OrderKept
    <2>3. CASE UnitsFail(t)
      <3>1. /\ call[t].op = "start" /\ Starting(t) /\ ~Starting(t)'
        <4>1. call[t].op = "start" /\ call[t].at = "units" /\ call'[t] = Idle
          BY <2>3 DEF UnitsFail, Return, Ordering, Failing, FailuresDeclared, Typing, TypeOK
        <4>. QED BY <4>1 DEF Starting, Idle
      <3>2. \A q \in Panes : failed'[q] = failed[q] \/ (q = call[t].pane /\ failed'[q] = call[t].named)
        <4>1. failed' = failed \/ failed' = [failed EXCEPT ![call[t].pane] = call[t].named]
          BY <2>3 DEF UnitsFail, RecordPreStartFailure
        <4>. QED BY <1>1, <4>1
      <3>3. \A u \in Callers : Starting(u)' => u # t /\ call[u].pane \in Panes /\ call[u].pane # call[t].pane
        <4>1. \A u \in Callers : Starting(u) => call[u].op = "start" /\ call[u].pane \in Panes
          BY DEF Starting, Typing, FramesNameDeclared, FrameDeclared
        <4>. QED BY <2>1, <3>1, <4>1 DEF Ordering, OrderKept
      <3>4. \A u \in Callers : Starting(u)' => failed'[call'[u].pane] < call'[u].named
        BY <1>1, <2>1, <3>2, <3>3 DEF Ordering, OrderKept
      <3>5. \A event \in StartEvents' : failed'[source[event.gen].pane] < event.gen
        BY <1>1, <3>1, <3>2 DEF Ordering, OrderKept
      <3>. QED BY <1>1, <1>2, <2>1, <3>4, <3>5 DEF Ordering, OrderKept
    <2>4. ASSUME NEW p \in Panes, failed' = [failed EXCEPT ![p] = 0] PROVE OrderKept'
      <3>1. \A q \in Panes : failed'[q] = failed[q] \/ failed'[q] = 0
        BY <1>1, <2>4
      <3>2. \A u \in Callers : Starting(u)' => failed'[call'[u].pane] < call'[u].named
        <4>1. \A u \in Callers : Starting(u) =>
                call[u].pane \in Panes /\ call[u].named \in Nat \ {0}
          BY DEF Starting, Typing, TypeOK, Frames, FramesNameDeclared, FrameDeclared, Ordering,
                 Failing, RecordsOwned
        <4>. QED BY <1>1, <2>1, <3>1, <4>1 DEF Ordering, OrderKept
      <3>3. \A event \in StartEvents' : failed'[source[event.gen].pane] < event.gen
        BY <1>1, <3>1 DEF Ordering, OrderKept
      <3>. QED BY <1>1, <1>2, <2>1, <3>2, <3>3 DEF Ordering, OrderKept
    <2>. QED BY <2>2, <2>3, <2>4, FailedStep
  <1>. QED BY <1>3, <1>4, StartingStep

LEMMA NextOrdering == OrderedHost /\ Typing /\ Locking /\ Ordering /\ [Next]_vars => Ordering'
  <1> SUFFICES ASSUME OrderedHost, Typing, Locking, Ordering, [Next]_vars PROVE Ordering'
    OBVIOUS
  <1>1. Failing'
    BY NextFailing DEF Ordering
  <1>2. CASE UNCHANGED vars
    BY <1>1, <1>2 DEF vars, Ordering, OrderKept, StartEvents, Starting
  <1>3. CASE World
    BY <1>1, <1>3, WorldOrdering DEF Ordering
  <1>4. ASSUME NEW t \in Callers, Begin(t) \/ Verb(t) \/ Step(t) PROVE Ordering'
    BY <1>1, <1>4, StepOrdering DEF Ordering
  <1>. QED BY <1>2, <1>3, <1>4 DEF Next, Rest

LEMMA FailureStays ==
  ASSUME Typing, Locking, Ordering, [Next]_vars, NEW p \in Panes
  PROVE  failed'[p] >= failed[p] \/ panes'[p] > failed[p]
  <1>1. /\ failed \in [Panes -> Nat] /\ panes \in [Panes -> 0 .. MaxGeneration]
        /\ \A t \in Callers : call[t].named \in Nat
    BY DEF Typing, TypeOK, Frames
  <1>2. CASE UNCHANGED failed
    BY <1>1, <1>2
  <1>3. ASSUME NEW t \in Callers, UnitsFail(t) PROVE failed'[p] >= failed[p]
    BY <1>1, <1>3 DEF UnitsFail, RecordPreStartFailure
  <1>4. ASSUME NEW t \in Callers, NEW q \in Panes, Installs(t, q), failed' = [failed EXCEPT ![q] = 0]
        PROVE  failed'[p] >= failed[p] \/ panes'[p] > failed[p]
    <2>1. failed[q] < call[t].named /\ panes'[q] = call[t].named
      BY <1>1, <1>4 DEF Installs, Ordering, OrderKept, Starting
    <2>. QED BY <1>1, <1>4, <2>1
  <1>5. World => UNCHANGED failed
    BY WorldStep
  <1>. QED BY <1>2, <1>3, <1>4, <1>5, FailedStep DEF Next, Rest, vars

\* When the host runs one pane's Start and Remove in order, a failed Start stays
\* readable until the record of a newer generation is installed.
THEOREM FailuresStay == OrderedHost => (Spec => FailureKept)
  <1> SUFFICES ASSUME OrderedHost PROVE Spec => FailureKept
    OBVIOUS
  <1>1. Typing /\ Locking /\ Ordering /\ [Next]_vars =>
          \A p \in Panes : failed[p] # 0 => failed'[p] >= failed[p] \/ panes'[p] > failed[p]
    BY FailureStays
  <1>2. Ordering /\ Typing /\ Locking /\ [Next]_vars => Ordering'
    BY NextOrdering
  <1>. QED BY <1>1, <1>2, InitTyping, NextTyping, InitLocking, NextLocking, InitOrdering, PTL
           DEF Spec, FailureKept

=============================================================================
