----------------------------- MODULE VerbsProofs -----------------------------
(***************************************************************************)
(* Theorems about Verbs, for any panes, units, callers, clients and        *)
(* bounds.                                                                 *)
(***************************************************************************)
EXTENDS Verbs, TruthProofs

\* Between a verb's delivery and its end: it has a pane, nothing of it is written,
\* a record is at hand when the engine or the pty is called, only a Forward asks
\* the engine, once, and only Input or what an engine returned is written.
UnderWay(v) ==
  /\ v.at # "idle" => /\ v.pane \in Panes /\ v.op \in {"input", "forward"}
                      /\ v.writes = 0 /\ ~v.ok
  /\ v.at \in {"engine", "write"} => v.gen # 0
  /\ v.at = "engine" => v.op = "forward" /\ ~v.returned
  /\ v.at = "write" => v.op = "input" \/ v.returned

\* The verb that has ended was written as its result says.
WrittenOnce(v) ==
  /\ v.writes <= 1
  /\ v.ok => v.writes = IF v.op = "input" \/ v.returned THEN 1 ELSE 0

Proper(v) == v \in Verbs /\ UnderWay(v) /\ WrittenOnce(v)

ClientsProper == client \in [Clients -> Verbs] /\ \A c \in Clients : Proper(client[c])

Delivering == /\ Typing /\ ClientsProper
              /\ asked \in 0 .. MaxAsked /\ crossed \subseteq Panes

LEMMA NoVerbProper == Proper(NoVerb)
  BY BoundsAssumption DEF Proper, UnderWay, WrittenOnce, NoVerb, Verbs

LEMMA InitDelivering == VerbsInit => Delivering
  BY InitTyping, NoVerbProper, AskedAssumption
  DEF VerbsInit, Delivering, ClientsProper, Proper

\* One verb's step replaces what its client runs.
LEMMA ClientChange ==
  ASSUME ClientsProper, NEW c \in Clients, NEW v, Proper(v),
         client' = [client EXCEPT ![c] = v]
  PROVE  ClientsProper'
  BY DEF ClientsProper, Proper

LEMMA AnswerProper ==
  ASSUME ClientsProper, NEW c \in Clients, NEW ok \in BOOLEAN, Answer(c, ok),
         client[c].at # "idle",
         ok => client[c].op = "forward" /\ ~client[c].returned
  PROVE  ClientsProper'
  <1> DEFINE v == client[c]
             ended == [v EXCEPT !.at = "idle", !.ok = ok, !.gen = 0, !.pane = 0]
  <1>1. Proper(v)
    BY DEF ClientsProper
  <1>2. client' = [client EXCEPT ![c] = ended]
    BY DEF ClientsProper, Answer
  <1>3. Proper(ended)
    <2>1. v \in Verbs /\ v.writes = 0
      BY <1>1 DEF Proper, UnderWay
    <2>2. 0 \in 0 .. MaxGeneration
      BY BoundsAssumption
    <2> HIDE DEF v
    <2>3. ended \in Verbs
      BY <2>1, <2>2 DEF Verbs
    <2>4. /\ ended.at = "idle" /\ ended.ok = ok /\ ended.writes = 0
          /\ ended.op = v.op /\ ended.returned = v.returned
      BY <2>1 DEF Verbs
    <2>5. ok => v.op = "forward" /\ ~v.returned
      BY DEF v
    <2>. QED BY <2>3, <2>4, <2>5 DEF Proper, UnderWay, WrittenOnce
  <1> HIDE DEF v, ended
  <1>. QED BY <1>2, <1>3, ClientChange

LEMMA DeliverProper ==
  ASSUME ClientsProper, NEW c \in Clients, NEW p \in Panes, NEW op \in {"input", "forward"},
         Deliver(c, p, op)
  PROVE  ClientsProper'
  <1> DEFINE v == [NoVerb EXCEPT !.op = op, !.at = "lookup", !.pane = p]
  <1>1. Proper(v)
    BY NoVerbProper DEF Proper, UnderWay, WrittenOnce, Verbs, NoVerb
  <1>2. client' = [client EXCEPT ![c] = v]
    BY DEF Deliver
  <1> HIDE DEF v
  <1>. QED BY <1>1, <1>2, ClientChange

LEMMA LookupProper ==
  ASSUME Typing, ClientsProper, NEW c \in Clients, Lookup(c)
  PROVE  ClientsProper'
  <1> DEFINE v == client[c]
             g == panes[v.pane]
             point == IF v.op = "forward" /\ ~v.returned THEN "engine" ELSE "write"
             found == [v EXCEPT !.gen = g, !.at = point]
  <1>1. Proper(v) /\ v.at = "lookup"
    BY DEF ClientsProper, Lookup, Stands
  <1>2. g \in 0 .. MaxGeneration
    BY <1>1 DEF Proper, UnderWay, Typing, TypeOK
  <1>3. CASE g = 0 /\ Answer(c, FALSE)
    BY <1>1, <1>3, AnswerProper
  <1>4. CASE /\ g # 0
             /\ client' = [client EXCEPT ![c].gen = g, ![c].at = point]
    <2>1. client' = [client EXCEPT ![c] = found]
      BY <1>4 DEF ClientsProper
    <2>2. Proper(found)
      BY <1>1, <1>2, <1>4 DEF Proper, UnderWay, WrittenOnce, Verbs
    <2> HIDE DEF found
    <2>. QED BY <2>1, <2>2, ClientChange
  <1>. QED BY <1>3, <1>4 DEF Lookup

LEMMA AskEngineProper ==
  ASSUME ClientsProper, NEW c \in Clients, AskEngine(c)
  PROVE  ClientsProper'
  <1> DEFINE v == client[c]
             answered == [v EXCEPT !.at = "lookup", !.returned = TRUE]
  <1>1. Proper(v) /\ v.at = "engine" /\ v.op = "forward" /\ ~v.returned
    BY DEF ClientsProper, Proper, UnderWay, AskEngine, Stands
  <1>2. \/ Answer(c, TRUE) \/ Answer(c, FALSE)
        \/ client' = [client EXCEPT ![c].at = "lookup", ![c].returned = TRUE]
    BY DEF AskEngine
  <1>3. CASE Answer(c, TRUE) \/ Answer(c, FALSE)
    BY <1>1, <1>3, AnswerProper
  <1>4. CASE client' = [client EXCEPT ![c].at = "lookup", ![c].returned = TRUE]
    <2>1. client' = [client EXCEPT ![c] = answered]
      BY <1>4 DEF ClientsProper
    <2>2. Proper(answered)
      BY <1>1 DEF Proper, UnderWay, WrittenOnce, Verbs
    <2> HIDE DEF answered
    <2>. QED BY <2>1, <2>2, ClientChange
  <1>. QED BY <1>2, <1>3, <1>4

LEMMA WriteProper ==
  ASSUME ClientsProper, NEW c \in Clients, Write(c)
  PROVE  ClientsProper'
  <1> DEFINE v == client[c]
  <1>1. Proper(v) /\ v.at = "write"
    BY DEF ClientsProper, Write, Stands
  <1>2. PICK answer \in Answers :
          client' = [client EXCEPT ![c].writes = @ + Taken(c, answer), ![c].at = "idle",
                                   ![c].ok = answer = "ok" /\ Taken(c, answer) = 1,
                                   ![c].gen = 0, ![c].pane = 0]
    BY DEF Write
  <1>3. PICK taken \in {0, 1} : taken = Taken(c, answer)
    BY DEF Taken
  <1>4. PICK ok \in BOOLEAN : ok = (answer = "ok" /\ taken = 1)
    OBVIOUS
  <1> DEFINE ended == [v EXCEPT !.writes = taken, !.at = "idle", !.ok = ok,
                                !.gen = 0, !.pane = 0]
  <1>5. client' = [client EXCEPT ![c] = ended]
    <2>1. v.writes + Taken(c, answer) = taken
      BY <1>1, <1>3 DEF Proper, UnderWay
    <2>. QED BY <1>2, <1>3, <1>4, <2>1 DEF ClientsProper
  <1>6. Proper(ended)
    <2>1. v \in Verbs /\ v.writes = 0 /\ (v.op = "input" \/ v.returned)
      BY <1>1 DEF Proper, UnderWay
    <2>2. 0 \in 0 .. MaxGeneration
      BY BoundsAssumption
    <2> HIDE DEF v
    <2>3. ended \in Verbs
      <3>1. taken \in Nat /\ ok \in BOOLEAN
        BY <1>3, <1>4
      <3>. QED BY <2>1, <2>2, <3>1 DEF Verbs
    <2>4. /\ ended.at = "idle" /\ ended.ok = ok /\ ended.writes = taken
          /\ ended.op = v.op /\ ended.returned = v.returned
      BY <2>1 DEF Verbs
    <2>5. ok => taken = 1
      BY <1>4
    <2>. QED BY <2>1, <2>3, <2>4, <2>5 DEF Proper, UnderWay, WrittenOnce
  <1> HIDE DEF ended
  <1>. QED BY <1>5, <1>6, ClientChange

\* The sessions' steps keep what the clients run, and the clients' steps leave the
\* sessions alone.
LEMMA NextDelivering == Delivering /\ [VerbsNext]_allVars => Delivering'
  <1> SUFFICES ASSUME Delivering, [VerbsNext]_allVars PROVE Delivering'
      OBVIOUS
  <1>1. CASE Next /\ Cross /\ UNCHANGED <<client, asked>>
    <2>1. Typing'
      BY <1>1, NextTyping DEF Delivering
    <2>2. ClientsProper' /\ asked' \in 0 .. MaxAsked
      BY <1>1 DEF Delivering, ClientsProper
    <2>3. crossed' \subseteq Panes
      BY <1>1 DEF Cross
    <2>. QED BY <2>1, <2>2, <2>3 DEF Delivering
  <1>2. ASSUME NEW c \in Clients, VerbStep(c) PROVE Delivering'
    <2>1. UNCHANGED vars /\ crossed' = crossed
      BY <1>2 DEF VerbStep, Deliver, Lookup, AskEngine, Write, Apart
    <2>2. Typing'
      BY <2>1, NextTyping DEF Delivering
    <2>3. asked' \in 0 .. MaxAsked
      <3>1. asked' = asked \/ (asked < MaxAsked /\ asked' = asked + 1)
        BY <1>2 DEF VerbStep, Deliver, Lookup, AskEngine, Write
      <3>. QED BY <3>1, AskedAssumption DEF Delivering
    <2>4. ClientsProper'
      BY <1>2, DeliverProper, LookupProper, AskEngineProper, WriteProper
      DEF VerbStep, Delivering
    <2>. QED BY <2>1, <2>2, <2>3, <2>4 DEF Delivering
  <1>3. CASE UNCHANGED allVars
    <2>1. UNCHANGED vars /\ UNCHANGED <<client, asked, crossed>>
      BY <1>3 DEF allVars
    <2>. QED BY <2>1, NextTyping DEF Delivering, ClientsProper
  <1>. QED BY <1>1, <1>2, <1>3 DEF VerbsNext

LEMMA DeliveringInvariant == VerbsSpec => []Delivering
  BY InitDelivering, NextDelivering, PTL DEF VerbsSpec

\* A verb that calls an engine or a pty has a record at hand, whatever the sessions
\* do meanwhile, and every variable stays within its set (pane.go:553-580, 617-672).
THEOREM VerbsTypeCorrect == VerbsSpec => []VerbsTypeOK
  <1>1. Delivering => VerbsTypeOK
    BY DEF Delivering, Typing, ClientsProper, Proper, UnderWay, VerbsTypeOK
  <1>. QED BY <1>1, DeliveringInvariant, PTL

\* Input that succeeds was written exactly once, input that fails at most once,
\* also what an engine returned (pane.go:553-580, 617-672).
THEOREM InputIsWrittenOnce == VerbsSpec => []InputOnce
  <1>1. Delivering => InputOnce
    BY DEF Delivering, ClientsProper, Proper, WrittenOnce, InputOnce
  <1>. QED BY <1>1, DeliveringInvariant, PTL

-----------------------------------------------------------------------------
(* Grids *)

Works(t, p) == call[t].at \in HoldingPoints \cup ResizePoints /\ call[t].pane = p

\* What the engine and the pty keep for a generation, if they keep it, is of a grid.
SurfaceIs(g, p, grid) == surface[Engine(g)][p].by = g => surface[Engine(g)][p].grid = grid
ShellIs(g, p, grid) == Keeps(g, p) => shell[Pty(g)][p].grid = grid

\* A goroutine has brought its grid to the engine, and then to the pty, or the
\* other way about when it opens the pane.
GridKnown(t) == LET c == call[t] IN
  /\ c.at \in ResizePoints => c.gen = panes[c.pane]
  /\ c.at \in {"resizeShell", "noteGrid"} => SurfaceIs(c.gen, c.pane, c.grid)
  /\ c.at \in {"noteGrid", "ensure", "bind", "surface"} => ShellIs(c.gen, c.pane, c.grid)

\* Between its Resizes the grid of a live pane is the one its record has.
BeingResized(p) == \E t \in Callers : call[t].at \in {"resizeShell", "noteGrid"} /\ call[t].pane = p
LiveGrids(p) == LET g == panes[p] IN
  g # 0 /\ record[g].phase = "live" /\ ~BeingResized(p)
  => SurfaceIs(g, p, record[g].grid) /\ ShellIs(g, p, record[g].grid)

PaneGrids(p) == LiveGrids(p) /\ \A t \in Callers : Works(t, p) => GridKnown(t)

ResizesOwned ==
  \A t \in Callers : call[t].at \in ResizePoints => source[call[t].gen].pane = call[t].pane

\* The inductive invariant of GridsAgree.
Gridding ==
  /\ ResizesOwned
  /\ \A p \in Panes : Crossing(p) => p \in crossed
  /\ \A p \in Panes \ crossed : PaneGrids(p)

Sizing == Typing /\ Locking /\ Phasing /\ Gridding

LEMMA InitSizing == VerbsInit => Sizing
  <1> SUFFICES ASSUME VerbsInit PROVE Sizing
    OBVIOUS
  <1>1. Typing /\ Locking /\ Phasing
    BY InitTyping, InitLocking, InitPhasing DEF VerbsInit
  <1>2. \A t \in Callers : call[t].at = "idle"
    BY DEF VerbsInit, Init, Idle
  <1>3. \A t \in Callers : call[t].at \notin HoldingPoints \cup ResizePoints
    BY <1>2 DEF HoldingPoints, OpeningPoints, ClosingPoints, ResizePoints
  <1>4. \A p \in Panes : panes[p] = 0
    BY DEF VerbsInit, Init
  <1>. QED BY <1>1, <1>3, <1>4
       DEF Sizing, Gridding, ResizesOwned, Crossing, Busy, PaneGrids, LiveGrids, Works

\* Who works on a pane that no Resize crosses is alone with it.
LEMMA WorksAlone ==
  ASSUME Locking, NEW p, ~Crossing(p), NEW t \in Callers, Works(t, p),
         NEW u \in Callers, Works(u, p)
  PROVE  u = t
  <1>1. CASE call[t].at \in ResizePoints \/ call[u].at \in ResizePoints
    BY <1>1 DEF Crossing, Busy, Works
  <1>2. CASE call[t].at \in HoldingPoints /\ call[u].at \in HoldingPoints
    BY <1>2 DEF Works, Locking, LockGuardsRecord
  <1>. QED BY <1>1, <1>2 DEF Works

\* The pane's own generation and sidecars.
LEMMA PaneSource ==
  ASSUME Typing, Phasing, NEW p \in Panes, panes[p] # 0
  PROVE  /\ panes[p] \in Generations /\ panes[p] <= Len(source)
         /\ source[panes[p]].pane = p
         /\ Engine(panes[p]) \in Units /\ Pty(panes[p]) \in Units
  <1>1. panes[p] \in 1 .. Len(source) /\ panes[p] \in Generations
    BY DEF Typing, TypeOK, FramesNameDeclared, Generations
  <1>. QED BY <1>1, SourceTyped DEF Phasing, RecordsOwned

\* The sidecars keep what they kept for a pane, or no longer keep it.
CellsKept(p) ==
  \A u \in Units : /\ surface'[u][p] \in {surface[u][p], NoSurface}
                   /\ shell'[u][p] \in {shell[u][p], NoShell}
HeldKept(p) == panes[p] # 0 =>
  record'[panes[p]] = record[panes[p]] /\ source'[panes[p]] = source[panes[p]]

LEMMA GridsOfKept ==
  ASSUME Typing, Phasing, NEW p \in Panes, HeldKept(p), CellsKept(p), panes[p] # 0,
         NEW g, g = panes[p], NEW grid
  PROVE  /\ SurfaceIs(g, p, grid) => SurfaceIs(g, p, grid)'
         /\ ShellIs(g, p, grid) => ShellIs(g, p, grid)'
  <1>1. /\ Engine(g)' = Engine(g) /\ Pty(g)' = Pty(g)
        /\ Engine(g) \in Units /\ Pty(g) \in Units
        /\ record'[g] = record[g]
    BY PaneSource DEF HeldKept, Engine, Pty
  <1>2. /\ surface'[Engine(g)][p] \in {surface[Engine(g)][p], NoSurface}
        /\ shell'[Pty(g)][p] \in {shell[Pty(g)][p], NoShell}
    BY <1>1 DEF CellsKept
  <1>3. SurfaceIs(g, p, grid) => SurfaceIs(g, p, grid)'
    BY <1>1, <1>2 DEF SurfaceIs, NoSurface
  <1>4. ShellIs(g, p, grid) => ShellIs(g, p, grid)'
    BY <1>1, <1>2 DEF ShellIs, Keeps, NoShell
  <1>. QED BY <1>3, <1>4

\* What nobody touches stays as it was.
LEMMA PaneGridsKept ==
  ASSUME Typing, Locking, Phasing, NEW p \in Panes, PaneGrids(p),
         HeldKept(p), CellsKept(p), panes'[p] = panes[p],
         \A t \in Callers : Works(t, p) \/ Works(t, p)' => call'[t] = call[t]
  PROVE  PaneGrids(p)'
  <1>1. \A t \in Callers : Works(t, p) <=> Works(t, p)'
    BY DEF Works
  <1>2. BeingResized(p)' <=> BeingResized(p)
    BY <1>1 DEF BeingResized, Works, ResizePoints
  <1>3. LiveGrids(p)'
    BY <1>2, GridsOfKept DEF PaneGrids, LiveGrids, HeldKept
  <1>4. ASSUME NEW t \in Callers, Works(t, p)' PROVE GridKnown(t)'
    <2>1. /\ call'[t] = call[t] /\ Works(t, p) /\ GridKnown(t) /\ call[t].pane = p
      BY <1>1, <1>4 DEF PaneGrids, Works
    <2>2. call[t].gen = panes[p] /\ panes[p] # 0
      BY <2>1 DEF Works, GridKnown, Locking, LockGuardsRecord, Typing, FramesNameDeclared,
                  FrameDeclared
    <2>3. /\ SurfaceIs(call[t].gen, p, call[t].grid) => SurfaceIs(call[t].gen, p, call[t].grid)'
          /\ ShellIs(call[t].gen, p, call[t].grid) => ShellIs(call[t].gen, p, call[t].grid)'
      <3>1. PICK g, grid : g = call[t].gen /\ grid = call[t].grid
        OBVIOUS
      <3>2. /\ SurfaceIs(g, p, grid) => SurfaceIs(g, p, grid)'
            /\ ShellIs(g, p, grid) => ShellIs(g, p, grid)'
        BY <2>2, <3>1, GridsOfKept
      <3>. QED BY <2>1, <3>1, <3>2 DEF SurfaceIs, ShellIs
    <2>. QED BY <2>1, <2>2, <2>3 DEF GridKnown
  <1>. QED BY <1>3, <1>4 DEF PaneGrids

\* A goroutine changes what the sidecars keep only of the pane it works on.
LEMMA CellStep ==
  ASSUME Typing, NEW t \in Callers, Begin(t) \/ Verb(t) \/ Step(t), NEW p \in Panes,
         ~Works(t, p) \/ ~(OpenShell(t) \/ FitShell(t) \/ OpenSurface(t) \/ ResizeSurface(t)
                           \/ ResizeShell(t))
  PROVE  CellsKept(p)
  <1> DEFINE S == [by : 0 .. MaxGeneration, grid : Grids]
             K == [session : Nat, grid : Grids]
             q == call[t].pane
  <1>1. surface \in [Units -> [Panes -> S]] /\ shell \in [Units -> [Panes -> K]]
    BY DEF Typing, TypeOK
  <1>2. CASE UNCHANGED <<surface, shell>>
    BY <1>2 DEF CellsKept
  <1>3. CASE OpenShell(t) \/ FitShell(t) \/ OpenSurface(t) \/ ResizeSurface(t) \/ ResizeShell(t)
    <2>1. p # q
      BY <1>3 DEF OpenShell, FitShell, OpenSurface, ResizeSurface, ResizeShell, At, Works,
                  HoldingPoints, OpeningPoints, ResizePoints
    <2>2. /\ surface' = surface \/ \E e, c : surface' = [surface EXCEPT ![e][q] = c]
          /\ shell' = shell \/ \E y, c : shell' = [shell EXCEPT ![y][q] = c]
      BY <1>3 DEF OpenShell, FitShell, OpenSurface, ResizeSurface, ResizeShell, Resized
    <2>3. ASSUME NEW u \in Units
          PROVE  surface'[u][p] = surface[u][p] /\ shell'[u][p] = shell[u][p]
      <3>1. ASSUME NEW e, NEW c, surface' = [surface EXCEPT ![e][q] = c]
            PROVE  surface'[u][p] = surface[u][p]
        BY <1>1, <2>1, <3>1, CellChange
      <3>2. ASSUME NEW y, NEW c, shell' = [shell EXCEPT ![y][q] = c]
            PROVE  shell'[u][p] = shell[u][p]
        BY <1>1, <2>1, <3>2, CellChange
      <3>. QED BY <2>2, <3>1, <3>2
    <2>. QED BY <2>3 DEF CellsKept
  <1>4. CASE CloseSurface(t)
    <2>1. UNCHANGED shell
      BY <1>4 DEF CloseSurface
    <2>2. surface' = surface \/ \E e : surface' = [surface EXCEPT ![e][q] = NoSurface]
      BY <1>4 DEF CloseSurface
    <2>3. ASSUME NEW u \in Units PROVE surface'[u][p] \in {surface[u][p], NoSurface}
      <3>1. \A e : [surface EXCEPT ![e][q] = NoSurface][u][p] \in {surface[u][p], NoSurface}
        BY <1>1, CellChange
      <3>. QED BY <2>2, <3>1
    <2>. QED BY <2>1, <2>3 DEF CellsKept
  <1>5. CASE CloseShell(t)
    <2>1. UNCHANGED surface
      BY <1>5 DEF CloseShell
    <2>2. shell' = shell \/ \E y : shell' = [shell EXCEPT ![y][q] = NoShell]
      BY <1>5 DEF CloseShell
    <2>3. ASSUME NEW u \in Units PROVE shell'[u][p] \in {shell[u][p], NoShell}
      <3>1. \A y : [shell EXCEPT ![y][q] = NoShell][u][p] \in {shell[u][p], NoShell}
        BY <1>1, CellChange
      <3>. QED BY <2>2, <3>1
    <2>. QED BY <2>1, <2>3 DEF CellsKept
  <1>6. CASE Begin(t) \/ Verb(t)
    BY <1>2, <1>6 DEF Begin, Verb, BeginStart, BeginRemove, BeginEvent, BeginRestart, BeginStop,
                BeginResize, BeginVerb, sidecarVars
  <1>7. CASE StartUnits(t) \/ InstallStart(t) \/ StaleStart(t) \/ LockRestart(t) \/ SkipRestart(t)
             \/ LockClosing(t) \/ SkipClosing(t) \/ Detach(t) \/ NoteGrid(t)
    BY <1>2, <1>7 DEF StartUnits, InstallStart, StaleStart, LockRestart, SkipRestart, LockClosing,
                      SkipClosing, Detach, NoteGrid, sidecarVars
  <1>8. CASE Rehydrate(t) \/ Measure(t) \/ Prepare(t) \/ Ensure(t) \/ Bind(t)
    BY <1>2, <1>8 DEF Rehydrate, Measure, Prepare, Ensure, Bind, sidecarVars
  <1>. QED BY <1>3, <1>4, <1>5, <1>6, <1>7, <1>8 DEF Step, Opening

\* Outside a lock only NoteGrid writes a record.
LEMMA RecordOutside ==
  ASSUME NEW t \in Callers,
         \/ Begin(t) \/ Verb(t) \/ StartUnits(t) \/ StaleStart(t) \/ SkipRestart(t)
         \/ SkipClosing(t) \/ ResizeSurface(t) \/ ResizeShell(t)
  PROVE  UNCHANGED record
  BY DEF Begin, Verb, BeginStart, BeginRemove, BeginEvent, BeginRestart, BeginStop, BeginResize,
         BeginVerb, StartUnits, StaleStart, SkipRestart, SkipClosing, ResizeSurface, ResizeShell,
         sessionsVars

\* The pane a goroutine does not work on, before or after its step, holds the
\* record it held.
LEMMA HeldStep ==
  ASSUME Typing, Locking, Phasing, ResizesOwned,
         NEW t \in Callers, Begin(t) \/ Verb(t) \/ Step(t), NEW p \in Panes,
         ~Works(t, p), ~Works(t, p)'
  PROVE  panes'[p] = panes[p] /\ HeldKept(p)
  <1>1. UNCHANGED source /\ panes \in [Panes -> 0 .. MaxGeneration]
    BY EventStep DEF Typing, TypeOK
  <1>2. panes[p] # 0 => panes[p] \in Generations /\ source[panes[p]].pane = p
    BY PaneSource
  <1>3. CASE Opens(t) \/ Closing(t)
    <2>1. call[t].at \in HoldingPoints
      BY <1>3 DEF Opens, Closing, HoldingPoints
    <2>2. source[call[t].gen].pane = call[t].pane /\ call[t].pane # p
      BY <2>1, OwnPane DEF Works
    <2>3. panes[p] # 0 => record'[panes[p]] = record[panes[p]]
      BY <1>2, <1>3, <2>2 DEF Opens, Closing
    <2>4. panes'[p] = panes[p]
      BY <1>1, <1>3, <2>2 DEF Opens, Closing, OpeningEnds, OpeningOn, ClosingEnds, ClosingOn, SameWork
    <2>. QED BY <1>1, <2>3, <2>4 DEF HeldKept
  <1>4. CASE Taking(t)
    <2>1. PICK q \in Panes : Installs(t, q) \/ Reopens(t, q) \/ ToClose(t, q)
      BY <1>4 DEF Taking
    <2>2. q # p
      BY <2>1 DEF Installs, Reopens, ToClose, Takes, Works, HoldingPoints, OpeningPoints, ClosingPoints
    <2>3. panes'[p] = panes[p]
      BY <1>1, <2>1, <2>2 DEF Installs, Reopens, ToClose
    <2>4. panes[p] # 0 => record'[panes[p]] = record[panes[p]]
      <3>1. record \in [Generations -> Records] /\ call[t] \in Frames
        BY DEF Typing, TypeOK
      <3>2. CASE Installs(t, q)
        <4>1. source[call[t].named].pane = q
          BY <3>2 DEF Installs, Phasing, RecordsOwned
        <4>. QED BY <1>2, <2>2, <3>1, <3>2, <4>1 DEF Installs
      <3>3. CASE Reopens(t, q)
        <4>1. source[panes[q]].pane = q
          BY <3>3, PaneSource DEF Reopens
        <4>. QED BY <1>2, <2>2, <3>1, <3>3, <4>1 DEF Reopens
      <3>4. CASE ToClose(t, q)
        BY <3>4 DEF ToClose
      <3>. QED BY <2>1, <3>2, <3>3, <3>4
    <2>. QED BY <1>1, <2>3, <2>4 DEF HeldKept
  <1>5. CASE NoteGrid(t)
    <2>1. /\ source[call[t].gen].pane = call[t].pane /\ call[t].pane # p /\ UNCHANGED panes
          /\ \E grid : record' = [record EXCEPT ![call[t].gen].grid = grid]
      BY <1>5 DEF NoteGrid, ResizesOwned, Works, ResizePoints, At
    <2>. QED BY <1>1, <1>2, <2>1 DEF HeldKept, Typing, TypeOK
  <1>6. CASE \/ Begin(t) \/ Verb(t) \/ StartUnits(t) \/ StaleStart(t) \/ SkipRestart(t)
             \/ SkipClosing(t) \/ ResizeSurface(t) \/ ResizeShell(t)
    BY <1>1, <1>6, RecordOutside, OutsideStep DEF Outside, HeldKept
  <1>. QED BY <1>3, <1>4, <1>5, <1>6, TakingStep, OpeningStep, ClosingStep DEF Step

\* A step of who works on a pane alone, or comes to, leaves nobody else there.
LEMMA AloneStep ==
  ASSUME Locking, Locking', NEW p, ~Crossing(p), ~Crossing(p)', NEW t \in Callers,
         OthersUnchanged(t), Works(t, p) \/ Works(t, p)'
  PROVE  \A u \in Callers \ {t} : ~Works(u, p) /\ ~Works(u, p)'
  <1> SUFFICES ASSUME NEW u \in Callers \ {t} PROVE ~Works(u, p) /\ ~Works(u, p)'
    OBVIOUS
  <1>1. Works(u, p) <=> Works(u, p)'
    BY DEF OthersUnchanged, Works
  <1>2. CASE Works(t, p)
    BY <1>1, <1>2, WorksAlone
  <1>3. CASE Works(t, p)'
    <2>1. CASE call'[t].at \in ResizePoints \/ call'[u].at \in ResizePoints
      BY <1>1, <1>3, <2>1 DEF Crossing, Busy, Works
    <2>2. CASE call'[t].at \in HoldingPoints /\ call'[u].at \in HoldingPoints
      BY <1>1, <1>3, <2>2 DEF Works, Locking, LockGuardsRecord
    <2>. QED BY <1>1, <1>3, <2>1, <2>2 DEF Works
  <1>. QED BY <1>2, <1>3

\* pty.resize of what the pty keeps for a generation.
LEMMA ResizedGrid ==
  ASSUME Typing, NEW t \in Callers, shell' = Resized(t), UNCHANGED <<record, source>>,
         NEW p \in Panes, p = call[t].pane, NEW g, g = call[t].gen,
         NEW grid, grid = call[t].grid, Pty(g) \in Units
  PROVE  ShellIs(g, p, grid)'
  <1> DEFINE K == [session : Nat, grid : Grids]
             new == IF Keeps(g, p) THEN grid ELSE shell[Pty(g)][p].grid
             cell == [shell[Pty(g)][p] EXCEPT !.grid = new]
  <1>1. shell \in [Units -> [Panes -> K]]
    BY DEF Typing, TypeOK
  <1>2. shell' = [shell EXCEPT ![Pty(g)][p] = cell]
    BY DEF Resized
  <1>3. shell'[Pty(g)][p] = cell
    BY <1>1, <1>2, CellChange
  <1>4. cell.session = shell[Pty(g)][p].session /\ cell.grid = new
    BY <1>1
  <1>5. Pty(g)' = Pty(g) /\ record' = record
    BY DEF Pty
  <1>6. Keeps(g, p)' => Keeps(g, p)
    <2> HIDE DEF cell
    <2>. QED BY <1>3, <1>4, <1>5 DEF Keeps
  <1> HIDE DEF cell
  <1>. QED BY <1>3, <1>4, <1>5, <1>6 DEF ShellIs

\* An opening that goes on brings its grid to the pty.
LEMMA OpeningBrings ==
  ASSUME Typing, Locking, Phasing, NEW t \in Callers, Opening(t), GridKnown(t),
         call'[t].at \in {"ensure", "bind", "surface"}
  PROVE  ShellIs(call[t].gen, call[t].pane, call[t].grid)'
  <1> SUFFICES ASSUME NEW p, p = call[t].pane, NEW g, g = call[t].gen,
                      NEW grid, grid = call[t].grid
               PROVE  ShellIs(call[t].gen, call[t].pane, call[t].grid)'
    OBVIOUS
  <1>1. call[t].at \in HoldingPoints
    BY OpeningStep DEF Opens, HoldingPoints
  <1>2. /\ p \in Panes /\ g \in Generations /\ Pty(g) \in Units
        /\ call \in [Callers -> Frames] /\ call[t] \in Frames
        /\ record \in [Generations -> Records]
        /\ shell \in [Units -> [Panes -> [session : Nat, grid : Grids]]]
    BY <1>1, OwnPane DEF Typing, TypeOK
  <1>3. ~Leave(t)
    BY <1>2, LeaveIdles
  <1>4. UNCHANGED source /\ Pty(g)' = Pty(g)
    BY EventStep DEF Step, Pty
  <1>5. CASE Rehydrate(t) \/ Measure(t) \/ Prepare(t)
    <2>1. call'[t].at \in {"measure", "prepare", "open"}
      <3>1. CASE Rehydrate(t) \/ Measure(t)
        BY <1>2, <1>3, <3>1 DEF Rehydrate, Measure, Block, Frames
      <3>2. CASE Prepare(t)
        BY <1>2, <1>3, <3>2 DEF Prepare, Block, Goto, Frames
      <3>. QED BY <1>5, <3>1, <3>2
    <2>. QED BY <2>1
  <1>6. CASE OpenShell(t) \/ FitShell(t) \/ Ensure(t) \/ Bind(t) \/ OpenSurface(t)
    <2>1. \E point : Goto(t, point)
      BY <1>3, <1>6 DEF OpenShell, FitShell, Ensure, Bind, OpenSurface, Block
    <2>2. call'[t].gen = g /\ call'[t].pane = p /\ call'[t].grid = grid
      BY <1>2, <2>1 DEF Goto, Frames
    <2> SUFFICES ShellIs(g, p, grid)'
      BY <2>2
    <2>3. CASE OpenShell(t)
      <3> DEFINE session == spent.sessions + 1
                 made == [session |-> session, grid |-> grid]
      <3>1. /\ shell' = [shell EXCEPT ![Pty(g)][p] = made]
            /\ \E s : record' = [record EXCEPT ![g].session = s, ![g].phase = "opened"]
        <4>1. ~Goto(t, "fit")
          BY <1>2 DEF Goto, Frames
        <4>2. shell[Pty(g)][p].session = 0
          BY <1>3, <2>3, <4>1 DEF OpenShell, Block
        <4>. QED BY <1>3, <2>3, <4>2 DEF OpenShell, Block, Served
      <3>2. shell'[Pty(g)][p].grid = grid
        BY <1>2, <3>1
      <3>. QED BY <1>4, <3>2 DEF ShellIs
    <2>4. CASE FitShell(t)
      <3>1. shell' = Resized(t) /\ UNCHANGED record
        BY <1>3, <2>4 DEF FitShell, Block, Served
      <3>. QED BY <1>2, <1>4, <3>1, ResizedGrid
    <2>5. CASE Ensure(t) \/ Bind(t)
      <3>1. UNCHANGED <<shell, record>> /\ call[t].at \in {"ensure", "bind"}
        BY <1>3, <2>5 DEF Ensure, Bind, Block, sidecarVars, At
      <3>2. ShellIs(g, p, grid)
        BY <3>1 DEF GridKnown
      <3>. QED BY <1>4, <3>1, <3>2 DEF ShellIs, Keeps
    <2>6. CASE OpenSurface(t)
      BY <1>3, <2>6 DEF OpenSurface, Block
    <2>. QED BY <1>6, <2>3, <2>4, <2>5, <2>6
  <1>. QED BY <1>5, <1>6 DEF Opening

\* An opening that ends live leaves the engine, the pty and the record with its grid.
LEMMA OpeningSettles ==
  ASSUME Typing, Locking, Phasing, NEW t \in Callers, Opening(t), GridKnown(t),
         NEW p, p = call[t].pane
  PROVE  LiveGrids(p)'
  <1> SUFFICES ASSUME NEW g, g = call[t].gen PROVE LiveGrids(p)'
    OBVIOUS
  <1>1. Opens(t) /\ call[t].at \in OpeningPoints /\ call[t].at \in HoldingPoints
    BY OpeningStep DEF Opens, HoldingPoints
  <1>2. /\ p \in Panes /\ panes[p] = g /\ g \in Generations
        /\ Engine(g) \in Units /\ Pty(g) \in Units
        /\ record \in [Generations -> Records] /\ record[g].phase \in Unsettled
        /\ surface \in [Units -> [Panes -> [by : 0 .. MaxGeneration, grid : Grids]]]
        /\ UNCHANGED <<panes, source>>
    BY <1>1, OwnPane, EventStep
       DEF Typing, TypeOK, Phasing, PhaseOfPoint, Step, Opens, OpeningEnds, OpeningOn, SameWork
  <1>3. CASE record'[g].phase # "live"
    BY <1>2, <1>3 DEF LiveGrids
  <1>4. CASE record'[g].phase = "live"
    <2>1. ~Block(t)
      BY <1>2, <1>4 DEF Block, Records
    <2>2. Leave(t)
      BY <1>1, <1>2, <1>4 DEF Opens, OpeningEnds, OpeningOn, Unsettled
    <2>3. ~\E point \in OpeningPoints : call'[t].at = point
      BY <1>2, <2>2, LeaveIdles, PointsApart
    <2>4. OpenSurface(t)
      <3>1. ~\E point \in OpeningPoints : Goto(t, point)
        BY <2>3 DEF Typing, TypeOK, Goto, Frames
      <3>2. ~Rehydrate(t) /\ ~Measure(t)
        BY <2>1, <2>3 DEF Rehydrate, Measure, Typing, TypeOK, Frames, OpeningPoints
      <3>. QED BY <2>1, <3>1, <3>2
           DEF Opening, Prepare, OpenShell, FitShell, Ensure, Bind, AfterOpen, OpeningPoints
    <2>5. PICK grid \in Grids :
            /\ surface' = [surface EXCEPT ![Engine(g)][p] = [by |-> g, grid |-> grid]]
            /\ grid = call[t].grid
            /\ record' = [record EXCEPT ![g].grid = grid, ![g].phase = "live"]
            /\ UNCHANGED shell
      BY <2>1, <2>4 DEF OpenSurface, Served
    <2>6. surface'[Engine(g)][p].grid = grid /\ record'[g].grid = grid
          /\ record'[g].session = record[g].session
      BY <1>2, <2>5 DEF Records
    <2>7. ShellIs(g, p, grid)
      BY <2>4, <2>5 DEF GridKnown, OpenSurface, At
    <2>8. /\ Engine(g)' = Engine(g) /\ Pty(g)' = Pty(g)
      BY <1>2 DEF Engine, Pty
    <2>9. SurfaceIs(g, p, grid)' /\ ShellIs(g, p, grid)'
      BY <2>5, <2>6, <2>7, <2>8 DEF SurfaceIs, ShellIs, Keeps
    <2>. QED BY <1>2, <2>6, <2>9 DEF LiveGrids, SurfaceIs, ShellIs, Keeps, Engine, Pty
  <1>. QED BY <1>3, <1>4

\* A removal, and a goroutine that takes a pane, have no grid of their own.
LEMMA ClosingGrids ==
  ASSUME Typing, Locking, Phasing, NEW t \in Callers, CloseSurface(t) \/ Detach(t) \/ CloseShell(t),
         NEW p \in Panes, p = call[t].pane, LiveGrids(p),
         \A u \in Callers \ {t} : ~Works(u, p) /\ ~Works(u, p)'
  PROVE  LiveGrids(p)' /\ (Works(t, p)' => GridKnown(t)')
  <1>1. Closing(t) /\ call[t].at \in HoldingPoints /\ call[t].at \in ClosingPoints
    BY ClosingStep DEF Closing, HoldingPoints
  <1>2. panes'[p] \in {panes[p], 0}
    BY <1>1 DEF Closing, ClosingEnds, ClosingOn, SameWork, Typing, TypeOK
  <1>3. HeldKept(p) /\ CellsKept(p)
    <2>1. UNCHANGED <<record, source>>
      BY <1>1, EventStep DEF Closing, Step
    <2>2. ~(OpenShell(t) \/ FitShell(t) \/ OpenSurface(t) \/ ResizeSurface(t) \/ ResizeShell(t))
      BY <1>1 DEF OpenShell, FitShell, OpenSurface, ResizeSurface, ResizeShell, At, ClosingPoints
    <2>. QED BY <2>1, <2>2, CellStep DEF HeldKept, Step
  <1>4. call'[t].at \in ClosingPoints \cup {"idle", "lock"}
    BY <1>1, LeaveIdles DEF Closing, ClosingEnds, ClosingOn
  <1>5. ~BeingResized(p)
    BY <1>1 DEF BeingResized, Works, ResizePoints, ClosingPoints
  <1>6. LiveGrids(p)'
    BY <1>2, <1>3, <1>5, GridsOfKept DEF LiveGrids, HeldKept
  <1>. QED BY <1>4, <1>6 DEF GridKnown, ClosingPoints, ResizePoints

LEMMA TakingGrids ==
  ASSUME Typing, Locking, Phasing, NEW t \in Callers,
         InstallStart(t) \/ LockRestart(t) \/ LockClosing(t),
         NEW p \in Panes, Works(t, p) \/ Works(t, p)', LiveGrids(p),
         \A u \in Callers \ {t} : ~Works(u, p) /\ ~Works(u, p)'
  PROVE  LiveGrids(p)' /\ (Works(t, p)' => GridKnown(t)')
  <1>1. PICK q \in Panes : Installs(t, q) \/ Reopens(t, q) \/ ToClose(t, q)
    BY TakingStep DEF Taking
  <1>2. call[t].at = "lock" /\ ~Works(t, p)
    BY DEF InstallStart, LockRestart, LockClosing, Acquire, At, Works, HoldingPoints,
           OpeningPoints, ClosingPoints, ResizePoints
  <1>3. q = p /\ call'[t].at \in {"rehydrate", "closeSurface"}
    BY <1>1, <1>2 DEF Installs, Reopens, ToClose, Takes, Works
  <1>4. GridKnown(t)'
    BY <1>3 DEF GridKnown, ResizePoints
  <1>5. CASE Installs(t, p) \/ Reopens(t, p)
    <2>1. /\ panes \in [Panes -> 0 .. MaxGeneration] /\ record \in [Generations -> Records]
          /\ call[t] \in Frames
      BY DEF Typing, TypeOK
    <2>2. panes'[p] # 0 => record'[panes'[p]].phase = "opening"
      <3>1. CASE Installs(t, p)
        BY <2>1, <3>1 DEF Installs, NewRecord, Frames, Generations
      <3>2. CASE Reopens(t, p)
        <4>1. panes'[p] = panes[p] /\ panes[p] \in Generations
          BY <2>1, <3>2 DEF Reopens, Generations
        <4>. QED BY <2>1, <3>2, <4>1 DEF Reopens, Records
      <3>. QED BY <1>5, <3>1, <3>2
    <2>. QED BY <1>4, <2>2 DEF LiveGrids
  <1>6. CASE ToClose(t, p)
    <2>1. UNCHANGED <<panes, record, source>>
      BY <1>6, EventStep DEF ToClose, Step
    <2>2. CellsKept(p)
      BY <1>2, CellStep DEF Step
    <2>3. ~BeingResized(p)
      BY <1>2 DEF BeingResized, Works, ResizePoints
    <2>. QED BY <1>4, <2>1, <2>2, <2>3, GridsOfKept DEF LiveGrids, HeldKept
  <1>. QED BY <1>1, <1>3, <1>5, <1>6

\* A Resize brings its grid to the engine, then to the pty, then to the record.
LEMMA ResizingGrids ==
  ASSUME Typing, Locking, Phasing, ResizesOwned, NEW t \in Callers,
         ResizeSurface(t) \/ ResizeShell(t) \/ NoteGrid(t),
         NEW p, p = call[t].pane, PaneGrids(p), ~Aborting(p),
         \A u \in Callers \ {t} : ~Works(u, p) /\ ~Works(u, p)'
  PROVE  LiveGrids(p)' /\ (Works(t, p)' => GridKnown(t)')
  <1> SUFFICES ASSUME NEW g, g = call[t].gen
               PROVE  LiveGrids(p)' /\ (Works(t, p)' => GridKnown(t)')
    OBVIOUS
  <1>1. call[t].at \in ResizePoints
    BY DEF ResizeSurface, ResizeShell, NoteGrid, At, ResizePoints
  <1>2. /\ p \in Panes /\ g # 0 /\ call \in [Callers -> Frames] /\ call[t] \in Frames
        /\ record \in [Generations -> Records]
        /\ surface \in [Units -> [Panes -> [by : 0 .. MaxGeneration, grid : Grids]]]
    BY <1>1 DEF Typing, TypeOK, FramesNameDeclared, FrameDeclared
  <1>3. GridKnown(t) /\ panes[p] = g
    BY <1>1 DEF PaneGrids, Works, GridKnown
  <1>4. g \in Generations /\ Engine(g) \in Units /\ Pty(g) \in Units
    BY <1>2, <1>3, PaneSource
  <1>5. /\ UNCHANGED <<panes, source>> /\ Engine(g)' = Engine(g) /\ Pty(g)' = Pty(g)
        /\ OthersUnchanged(t)
    <2>1. UNCHANGED source /\ OthersUnchanged(t)
      BY EventStep DEF Step
    <2>2. UNCHANGED panes
      BY DEF ResizeSurface, ResizeShell, NoteGrid
    <2>. QED BY <2>1, <2>2 DEF Engine, Pty
  <1>6. ~NoteGrid(t) => ~Return(t)
    BY <1>1, <1>2 DEF Aborting, Busy, Return, ResizeSurface, ResizeShell, At
  <1>7. CASE ResizeSurface(t)
    <2>1. PICK grid \in Grids :
            /\ surface' = [surface EXCEPT ![Engine(g)][p].grid = grid]
            /\ call' = [call EXCEPT ![t].at = "resizeShell", ![t].grid = grid]
      BY <1>6, <1>7 DEF ResizeSurface, Served, NoteGrid, At
    <2>2. call'[t].at = "resizeShell" /\ call'[t].grid = grid /\ call'[t].pane = p /\ call'[t].gen = g
      BY <1>2, <2>1 DEF Frames
    <2>3. SurfaceIs(g, p, grid)'
      BY <1>2, <1>4, <1>5, <2>1 DEF SurfaceIs
    <2>4. BeingResized(p)'
      BY <2>2 DEF BeingResized
    <2>5. GridKnown(t)'
      BY <1>3, <1>5, <2>2, <2>3 DEF GridKnown, SurfaceIs, Engine
    <2>. QED BY <2>4, <2>5 DEF LiveGrids
  <1>8. CASE ResizeShell(t)
    <2>1. shell' = Resized(t) /\ Goto(t, "noteGrid") /\ UNCHANGED <<record, surface>>
      BY <1>6, <1>8 DEF ResizeShell, Served, NoteGrid, At
    <2>2. /\ call'[t].at = "noteGrid" /\ call'[t].grid = call[t].grid
          /\ call'[t].pane = p /\ call'[t].gen = g
      BY <1>2, <2>1 DEF Frames, Goto
    <2>3. SurfaceIs(g, p, call[t].grid)
      BY <1>3, <1>8 DEF GridKnown, ResizeShell, At
    <2>4. BeingResized(p)'
      BY <2>2 DEF BeingResized
    <2>5. ASSUME NEW grid, grid = call[t].grid
          PROVE  SurfaceIs(g, p, grid)' /\ ShellIs(g, p, grid)'
      <3>1. ShellIs(g, p, grid)'
        BY <1>2, <1>4, <1>5, <2>1, <2>5, ResizedGrid
      <3>. QED BY <1>5, <2>1, <2>3, <2>5, <3>1 DEF SurfaceIs
    <2>6. GridKnown(t)'
      BY <1>3, <1>5, <2>2, <2>5 DEF GridKnown, SurfaceIs, ShellIs, Keeps, Engine, Pty
    <2>. QED BY <2>4, <2>6 DEF LiveGrids
  <1>9. CASE NoteGrid(t)
    <2>1. /\ record' = [record EXCEPT ![g].grid = call[t].grid] /\ Return(t)
          /\ UNCHANGED <<surface, shell>> /\ call[t].at = "noteGrid"
      BY <1>9 DEF NoteGrid, At, sidecarVars
    <2>2. ~Works(t, p)'
      BY <1>2, <2>1 DEF Return, Works, Idle, HoldingPoints, OpeningPoints, ClosingPoints, ResizePoints
    <2>3. SurfaceIs(g, p, call[t].grid) /\ ShellIs(g, p, call[t].grid)
      BY <1>3, <2>1 DEF GridKnown
    <2>4. record'[g].grid = call[t].grid /\ record'[g].session = record[g].session
      BY <1>2, <1>4, <2>1 DEF Records
    <2>5. ASSUME NEW grid, grid = call[t].grid
          PROVE  SurfaceIs(g, p, grid)' /\ ShellIs(g, p, grid)'
      BY <1>5, <2>1, <2>3, <2>4, <2>5 DEF SurfaceIs, ShellIs, Keeps
    <2>6. LiveGrids(p)'
      BY <1>3, <1>5, <2>4, <2>5 DEF LiveGrids, SurfaceIs, ShellIs, Keeps, Engine, Pty
    <2>. QED BY <2>2, <2>6
  <1>. QED BY <1>7, <1>8, <1>9

\* Nothing else but the beginning of a Resize leads to its requests.
LEMMA ResizeBegins ==
  ASSUME Typing, NEW t \in Callers,
         \/ Begin(t) \/ Verb(t) \/ StartUnits(t) \/ StaleStart(t) \/ SkipRestart(t) \/ SkipClosing(t)
  PROVE  /\ call[t].at \in {"idle", "units", "lock"}
         /\ call'[t].at \in {"idle", "units", "lock"} \/ \E q \in Panes : BeginResize(t, q)
  <1>1. call \in [Callers -> Frames] /\ call[t] \in Frames /\ Idle.at = "idle"
    BY DEF Typing, TypeOK, Idle
  <1>2. CASE Begin(t) \/ Verb(t)
    <2>1. call[t].at = "idle"
      BY <1>2 DEF Begin, Verb, BeginStart, BeginRemove, BeginEvent, BeginRestart, BeginStop,
                  BeginResize, BeginVerb, At
    <2>2. ASSUME NEW event, NEW point \in {"units", "lock"}, BeginEvent(t, event, point)
          PROVE  call'[t].at \in {"units", "lock"}
      BY <1>1, <2>2 DEF BeginEvent, Idle
    <2>3. ASSUME NEW u \in Units, BeginRestart(t, u) PROVE call'[t].at \in {"idle", "lock"}
      <3>1. \/ call' = call
            \/ \E work : call' = [call EXCEPT ![t] = [Idle EXCEPT !.op = "restart", !.at = "lock",
                                                                  !.unit = u, !.todo = work]]
        BY <2>3 DEF BeginRestart
      <3>. QED BY <1>1, <2>1, <3>1 DEF Idle
    <2>4. ASSUME NEW q \in Panes, NEW op, BeginStop(t, q, op) PROVE call'[t].at = "lock"
      BY <1>1, <2>4 DEF BeginStop, Idle
    <2>. QED BY <1>2, <2>1, <2>2, <2>3, <2>4 DEF Begin, Verb, BeginStart, BeginRemove
  <1>3. CASE StartUnits(t) \/ StaleStart(t) \/ SkipClosing(t)
    <2>1. call[t].at \in {"units", "lock"} /\ (Goto(t, "lock") \/ Return(t))
      BY <1>3 DEF StartUnits, StaleStart, SkipClosing, At
    <2>. QED BY <1>1, <2>1 DEF Goto, Return, Frames
  <1>4. CASE SkipRestart(t)
    <2>1. /\ call[t].at = "lock"
          /\ \E todo : call' = [call EXCEPT ![t] = Idle]
                    \/ call' = [call EXCEPT ![t] = [call[t] EXCEPT !.todo = todo]]
      BY <1>4 DEF SkipRestart, At
    <2>. QED BY <1>1, <2>1 DEF Frames
  <1>. QED BY <1>2, <1>3, <1>4

LEMMA OutsideGrids ==
  ASSUME Typing, Locking, Phasing, NEW t \in Callers,
         \/ Begin(t) \/ Verb(t) \/ StartUnits(t) \/ StaleStart(t) \/ SkipRestart(t) \/ SkipClosing(t),
         NEW p \in Panes, Works(t, p) \/ Works(t, p)', LiveGrids(p),
         \A u \in Callers \ {t} : ~Works(u, p) /\ ~Works(u, p)'
  PROVE  LiveGrids(p)' /\ (Works(t, p)' => GridKnown(t)')
  <1>1. {"idle", "units", "lock"} \cap (HoldingPoints \cup ResizePoints) = {}
    BY DEF HoldingPoints, OpeningPoints, ClosingPoints, ResizePoints
  <1>2. ~Works(t, p) /\ Works(t, p)'
    BY <1>1, ResizeBegins DEF Works
  <1>3. PICK q \in Panes : BeginResize(t, q)
    BY <1>1, <1>2, ResizeBegins DEF Works
  <1>4. /\ call'[t].at = "resizeSurface" /\ call'[t].pane = q /\ call'[t].gen = panes[q]
        /\ UNCHANGED <<panes, record, surface, shell, source>>
    BY <1>3 DEF BeginResize, BeginVerb, Idle, Typing, TypeOK, sessionsVars, sidecarVars
  <1>5. ~BeingResized(p)
    BY <1>2 DEF BeingResized, Works, ResizePoints
  <1>6. LiveGrids(p)'
    BY <1>4, <1>5, GridsOfKept DEF LiveGrids, HeldKept, CellsKept
  <1>. QED BY <1>4, <1>6 DEF GridKnown

\* An opening that begins is the work of whoever took the pane's lock for it.
LEMMA ReopeningTakes ==
  ASSUME Typing, Locking, Phasing, NEW t \in Callers, Begin(t) \/ Verb(t) \/ Step(t),
         NEW p \in Panes, Reopening(p)
  PROVE  call'[t].at = "rehydrate" /\ call'[t].pane = p /\ lock'[p] = t
  <1>1. /\ panes \in [Panes -> 0 .. MaxGeneration] /\ record \in [Generations -> Records]
        /\ lock \in [Panes -> Callers \cup {Free}] /\ call[t] \in Frames
    BY DEF Typing, TypeOK
  <1>2. /\ panes'[p] # 0 /\ record'[panes'[p]].phase = "opening"
        /\ panes[p] # panes'[p] \/ record[panes'[p]].phase # "opening"
    BY DEF Reopening
  <1>3. panes[p] # 0 => panes[p] \in Generations /\ source[panes[p]].pane = p
    BY PaneSource
  <1>4. ~Outside(t)
    BY <1>2, <1>3 DEF Outside, RecordKept
  <1>5. ~Closing(t)
    <2>1. ASSUME Closing(t) PROVE panes'[p] \in {0, panes[p]} /\ UNCHANGED record
      BY <1>1, <2>1 DEF Closing, ClosingEnds, ClosingOn, SameWork
    <2>. QED BY <1>2, <2>1
  <1>6. ~Opening(t)
    <2>1. ASSUME Opening(t) PROVE FALSE
      <3>1. /\ call[t].at \in HoldingPoints /\ UNCHANGED panes
            /\ \A g \in Generations \ {call[t].gen} : record'[g] = record[g]
        BY <2>1, OpeningStep DEF Opens, OpeningEnds, OpeningOn, SameWork, HoldingPoints
      <3> DEFINE g == call[t].gen
      <3>2. g \in Generations /\ panes[call[t].pane] = g
        BY <3>1, OwnPane
      <3>3. record'[g].phase = "opening" /\ record[g].phase # "opening"
        BY <1>2, <1>3, <3>1
      <3>4. \/ UNCHANGED record
            \/ \E phase \in {"blocked", "prepared", "opened", "live"} :
                 record'[g].phase = phase
        <4>1. CASE Block(t)
          BY <1>1, <3>2, <4>1 DEF Block, Records
        <4>2. CASE Rehydrate(t) \/ Measure(t) \/ FitShell(t) \/ Ensure(t) \/ Bind(t)
          BY <4>1, <4>2 DEF Rehydrate, Measure, FitShell, Ensure, Bind, sessionsVars
        <4>3. CASE Prepare(t)
          BY <1>1, <3>2, <4>1, <4>3 DEF Prepare, Records
        <4>4. CASE OpenShell(t)
          <5>1. Block(t) \/ \E s : record' = [record EXCEPT ![g].session = s, ![g].phase = "opened"]
            BY <4>4 DEF OpenShell
          <5>. QED BY <1>1, <3>2, <4>1, <5>1 DEF Records
        <4>5. CASE OpenSurface(t)
          <5>1. Block(t) \/ \E s : record' = [record EXCEPT ![g].grid = s, ![g].phase = "live"]
            BY <4>5 DEF OpenSurface
          <5>. QED BY <1>1, <3>2, <4>1, <5>1 DEF Records
        <4>. QED BY <2>1, <4>2, <4>3, <4>4, <4>5 DEF Opening
      <3>. QED BY <3>3, <3>4
    <2>. QED BY <2>1
  <1>7. Taking(t)
    BY <1>4, <1>5, <1>6, OutsideStep, ClosingStep, TakingStep DEF Step
  <1>8. PICK q \in Panes : Installs(t, q) \/ Reopens(t, q) \/ ToClose(t, q)
    BY <1>7 DEF Taking
  <1>9. CASE q = p
    BY <1>1, <1>2, <1>8, <1>9 DEF Installs, Reopens, ToClose, Takes
  <1>10. CASE q # p
    <2>1. panes'[p] = panes[p]
      BY <1>1, <1>8, <1>10 DEF Installs, Reopens, ToClose
    <2>2. record'[panes[p]] = record[panes[p]]
      <3>1. CASE Installs(t, q)
        <4>1. source[call[t].named].pane = q
          BY <3>1 DEF Installs, Phasing, RecordsOwned
        <4>. QED BY <1>1, <1>2, <1>3, <1>10, <2>1, <3>1, <4>1 DEF Installs
      <3>2. CASE Reopens(t, q)
        <4>1. source[panes[q]].pane = q
          BY <3>2, PaneSource DEF Reopens
        <4>. QED BY <1>1, <1>2, <1>3, <1>10, <2>1, <3>2, <4>1 DEF Reopens
      <3>3. CASE ToClose(t, q)
        BY <3>3 DEF ToClose
      <3>. QED BY <1>8, <3>1, <3>2, <3>3
    <2>. QED BY <1>2, <2>1, <2>2
  <1>. QED BY <1>9, <1>10

LEMMA StepResizesOwned ==
  ASSUME Typing, Locking, Phasing, ResizesOwned, NEW t \in Callers, Begin(t) \/ Verb(t) \/ Step(t)
  PROVE  ResizesOwned'
  <1>1. OthersUnchanged(t) /\ UNCHANGED source /\ call \in [Callers -> Frames] /\ call[t] \in Frames
    BY EventStep DEF Typing, TypeOK
  <1>2. {"idle", "units", "lock"} \cap ResizePoints = {} /\ HoldingPoints \cap ResizePoints = {}
    BY DEF HoldingPoints, OpeningPoints, ClosingPoints, ResizePoints
  <1>3. ASSUME call'[t].at \in ResizePoints PROVE source[call'[t].gen].pane = call'[t].pane
    <2>1. CASE \/ Begin(t) \/ Verb(t) \/ StartUnits(t) \/ StaleStart(t) \/ SkipRestart(t)
               \/ SkipClosing(t)
      <3>1. PICK q \in Panes : BeginResize(t, q)
        BY <1>2, <1>3, <2>1, ResizeBegins
      <3>2. call'[t].pane = q /\ call'[t].gen = panes[q] /\ panes[q] # 0
        BY <1>1, <3>1 DEF BeginResize, Idle
      <3>. QED BY <3>2, PaneSource
    <2>2. CASE ResizeSurface(t) \/ ResizeShell(t) \/ NoteGrid(t)
      <3>1. call[t].at \in ResizePoints
        BY <2>2 DEF ResizeSurface, ResizeShell, NoteGrid, At, ResizePoints
      <3>2. ~Return(t)
        BY <1>1, <1>2, <1>3 DEF Return, Idle
      <3>3. call'[t].pane = call[t].pane /\ call'[t].gen = call[t].gen
        <4>1. CASE ResizeSurface(t)
          BY <1>1, <3>2, <4>1 DEF ResizeSurface, Frames
        <4>2. CASE ResizeShell(t)
          BY <1>1, <3>2, <4>2 DEF ResizeShell, Goto, Frames
        <4>. QED BY <2>2, <3>2, <4>1, <4>2 DEF NoteGrid
      <3>. QED BY <3>1, <3>3 DEF ResizesOwned
    <2>3. CASE Opens(t) \/ Closing(t)
      <3>1. call'[t].at \in HoldingPoints \cup {"idle", "lock"}
        <4>1. call[t].at \in HoldingPoints
          BY <2>3 DEF Opens, Closing, HoldingPoints
        <4>2. Leave(t) => call'[t].at \in {"idle", "lock"}
          BY <4>1, OwnPane, LeaveIdles
        <4>. QED BY <2>3, <4>2 DEF Opens, Closing, OpeningEnds, OpeningOn, ClosingEnds, ClosingOn,
                                  HoldingPoints
      <3>. QED BY <1>2, <1>3, <3>1
    <2>4. CASE Taking(t)
      BY <1>2, <1>3, <2>4 DEF Taking, Installs, Reopens, ToClose, HoldingPoints, OpeningPoints,
                              ClosingPoints
    <2>. QED BY <2>1, <2>2, <2>3, <2>4, TakingStep, OpeningStep, ClosingStep DEF Step
  <1>. QED BY <1>1, <1>3 DEF ResizesOwned, OthersUnchanged

\* The pane of a Resize that does not cross another call, nor fails.
LEMMA StepPaneGrids ==
  ASSUME Typing, Locking, Phasing, ResizesOwned, Locking',
         NEW t \in Callers, Begin(t) \/ Verb(t) \/ Step(t),
         NEW p \in Panes, PaneGrids(p), ~Crossing(p), ~Crossing(p)', ~Aborting(p)
  PROVE  PaneGrids(p)'
  <1>1. OthersUnchanged(t)
    BY EventStep
  <1>2. CASE ~Works(t, p) /\ ~Works(t, p)'
    <2>1. \A u \in Callers : Works(u, p) \/ Works(u, p)' => call'[u] = call[u]
      BY <1>1, <1>2 DEF OthersUnchanged
    <2>. QED BY <1>2, <2>1, HeldStep, CellStep, PaneGridsKept
  <1>3. CASE Works(t, p) \/ Works(t, p)'
    <2>1. \A u \in Callers \ {t} : ~Works(u, p) /\ ~Works(u, p)'
      BY <1>1, <1>3, AloneStep
    <2>2. LiveGrids(p) /\ (Works(t, p) => GridKnown(t))
      BY DEF PaneGrids
    <2> SUFFICES LiveGrids(p)' /\ (Works(t, p)' => GridKnown(t)')
      BY <2>1 DEF PaneGrids
    <2>3. CASE Opening(t)
      <3>1. Opens(t) /\ call[t].at \in HoldingPoints
        BY <2>3, OpeningStep DEF Opens, HoldingPoints
      <3>2. \/ call'[t].at \in {"idle", "lock"}
            \/ call'[t].at \in OpeningPoints /\ call'[t].pane = call[t].pane
        BY <3>1, OwnPane, LeaveIdles DEF Opens, OpeningEnds, OpeningOn, SameWork
      <3>3. p = call[t].pane /\ GridKnown(t)
        BY <1>3, <2>2, <3>1, <3>2 DEF Works, HoldingPoints, OpeningPoints, ClosingPoints, ResizePoints
      <3>4. LiveGrids(p)'
        BY <2>3, <3>3, OpeningSettles
      <3>5. call'[t].at \in {"ensure", "bind", "surface"}
            => ShellIs(call[t].gen, call[t].pane, call[t].grid)'
        BY <2>3, <3>3, OpeningBrings
      <3>. QED BY <3>2, <3>4, <3>5 DEF GridKnown, OpeningPoints, ResizePoints
    <2>4. CASE CloseSurface(t) \/ Detach(t) \/ CloseShell(t)
      <3>1. Closing(t) /\ call[t].at \in HoldingPoints
        BY <2>4, ClosingStep DEF Closing, HoldingPoints
      <3>2. call'[t].at \in {"idle", "lock"} \/ call'[t].pane = call[t].pane
        BY <3>1, OwnPane, LeaveIdles DEF Closing, ClosingEnds, ClosingOn, SameWork
      <3>3. p = call[t].pane
        BY <1>3, <3>2 DEF Works, HoldingPoints, OpeningPoints, ClosingPoints, ResizePoints
      <3>. QED BY <2>1, <2>2, <2>4, <3>3, ClosingGrids
    <2>5. CASE InstallStart(t) \/ LockRestart(t) \/ LockClosing(t)
      BY <1>3, <2>1, <2>2, <2>5, TakingGrids
    <2>6. CASE ResizeSurface(t) \/ ResizeShell(t) \/ NoteGrid(t)
      <3>1. call \in [Callers -> Frames] /\ call[t] \in Frames
        BY DEF Typing, TypeOK
      <3>2. call'[t] = Idle \/ call'[t].pane = call[t].pane
        BY <2>6, <3>1 DEF ResizeSurface, ResizeShell, NoteGrid, Return, Goto, Frames
      <3>3. p = call[t].pane
        BY <1>3, <3>2 DEF Works, Idle, HoldingPoints, OpeningPoints, ClosingPoints, ResizePoints
      <3>. QED BY <2>1, <2>6, <3>3, ResizingGrids
    <2>7. CASE \/ Begin(t) \/ Verb(t) \/ StartUnits(t) \/ StaleStart(t) \/ SkipRestart(t)
               \/ SkipClosing(t)
      BY <1>3, <2>1, <2>2, <2>7, OutsideGrids
    <2>. QED BY <2>3, <2>4, <2>5, <2>6, <2>7 DEF Step
  <1>. QED BY <1>2, <1>3

\* A pane a new opening of which begins: nothing of its grid is settled yet.
LEMMA ReopenedPaneGrids ==
  ASSUME Typing, Locking, Phasing, Locking', NEW t \in Callers, Begin(t) \/ Verb(t) \/ Step(t),
         NEW p \in Panes, ~Crossing(p)', Reopening(p)
  PROVE  PaneGrids(p)'
  <1>1. call'[t].at = "rehydrate" /\ call'[t].pane = p /\ lock'[p] = t
    BY ReopeningTakes
  <1>2. Works(t, p)'
    BY <1>1 DEF Works, HoldingPoints, OpeningPoints
  <1>3. ASSUME NEW u \in Callers, Works(u, p)' PROVE u = t
    BY <1>1, <1>2, <1>3 DEF Works, Crossing, Busy, Locking, LockGuardsRecord
  <1>4. GridKnown(t)'
    BY <1>1 DEF GridKnown, ResizePoints
  <1>5. LiveGrids(p)'
    BY DEF Reopening, LiveGrids
  <1>. QED BY <1>3, <1>4, <1>5 DEF PaneGrids

\* The world leaves the sessions alone, and a replaced sidecar keeps nothing.
LEMMA WorldCells ==
  ASSUME Typing, World \/ UNCHANGED vars, NEW p \in Panes
  PROVE  CellsKept(p)
  <1>1. CASE UNCHANGED <<surface, shell>>
    BY <1>1 DEF CellsKept
  <1>2. ASSUME NEW v \in Units, Crash(v) PROVE CellsKept(p)
    BY <1>2 DEF Crash, CellsKept, Typing, TypeOK
  <1>. QED BY <1>1, <1>2 DEF World, Declare, Move, Undeclare, sidecarVars, vars

LEMMA StillGridding ==
  ASSUME Typing, Locking, Phasing, Gridding, UNCHANGED <<panes, record, lock, call>>,
         \A p \in Panes : CellsKept(p) /\ HeldKept(p),
         \A g \in Generations : g <= Len(source) => source'[g] = source[g],
         \A p \in Panes : (Crossing(p)' => p \in crossed') /\ (p \in crossed => p \in crossed')
  PROVE  Gridding'
  <1>1. ResizesOwned'
    <2>1. \A t \in Callers : call[t].at \in ResizePoints =>
            call[t].gen \in Generations /\ call[t].gen <= Len(source)
      BY DEF Typing, TypeOK, FramesNameDeclared, FrameDeclared, Frames, Generations
    <2>. QED BY <2>1 DEF Gridding, ResizesOwned
  <1>2. ASSUME NEW p \in Panes \ crossed' PROVE PaneGrids(p)'
    BY <1>2, PaneGridsKept DEF Gridding
  <1>. QED BY <1>1, <1>2 DEF Gridding

LEMMA NextSizing == Sizing /\ [VerbsNext]_allVars => Sizing'
  <1> SUFFICES ASSUME Sizing, [VerbsNext]_allVars PROVE Sizing'
    OBVIOUS
  <1>1. Typing /\ Locking /\ Phasing /\ Gridding
    BY DEF Sizing
  <1>2. [Next]_vars
    <2>1. ASSUME NEW c \in Clients, VerbStep(c) PROVE UNCHANGED vars
      BY <2>1 DEF VerbStep, Deliver, Lookup, AskEngine, Write, Apart
    <2>. QED BY <2>1 DEF VerbsNext, allVars
  <1>3. Typing' /\ Locking' /\ Phasing'
    BY <1>1, <1>2, NextTyping, NextLocking, NextPhasing
  <1>4. CASE UNCHANGED vars /\ crossed' = crossed
    <2>1. UNCHANGED <<panes, record, lock, call, source>>
      BY <1>4 DEF vars
    <2>2. \A p \in Panes : CellsKept(p) /\ HeldKept(p)
      BY <1>1, <1>4, <2>1, WorldCells DEF HeldKept
    <2>3. \A p \in Panes : Crossing(p)' => p \in crossed'
      BY <1>1, <1>4, <2>1 DEF Gridding, Crossing, Busy
    <2>4. Gridding'
      BY <1>1, <1>4, <2>1, <2>2, <2>3, StillGridding
    <2>. QED BY <1>3, <2>4 DEF Sizing
  <1>5. CASE Next /\ Cross
    <2>1. \A p \in Panes :
            /\ Crossing(p)' => p \in crossed'
            /\ p \notin crossed' => ~Crossing(p)' /\ ~Aborting(p) /\ (p \in crossed => Reopening(p))
      BY <1>5 DEF Cross
    <2>2. CASE World \/ UNCHANGED vars
      <3>1. /\ UNCHANGED <<panes, record, lock, call>>
            /\ \A g \in Generations : g <= Len(source) => source'[g] = source[g]
        BY <1>1, <2>2, WorldStep DEF vars
      <3>2. \A p \in Panes : CellsKept(p) /\ HeldKept(p)
        BY <1>1, <2>2, <3>1, WorldCells, PaneSource DEF HeldKept
      <3>3. \A p \in Panes : ~Reopening(p)
        BY <3>1 DEF Reopening
      <3>4. Gridding'
        BY <1>1, <2>1, <3>1, <3>2, <3>3, StillGridding
      <3>. QED BY <1>3, <3>4 DEF Sizing
    <2>3. ASSUME NEW t \in Callers, Begin(t) \/ Verb(t) \/ Step(t) PROVE Gridding'
      <3>1. ResizesOwned'
        BY <1>1, <2>3, StepResizesOwned DEF Gridding
      <3>2. ASSUME NEW p \in Panes \ crossed' PROVE PaneGrids(p)'
        <4>1. CASE p \in crossed
          BY <1>1, <1>3, <2>1, <2>3, <3>2, <4>1, ReopenedPaneGrids
        <4>2. CASE p \notin crossed
          BY <1>1, <1>3, <2>1, <2>3, <3>2, <4>2, StepPaneGrids DEF Gridding
        <4>. QED BY <4>1, <4>2
      <3>. QED BY <2>1, <3>1, <3>2 DEF Gridding
    <2>. QED BY <1>3, <1>5, <2>2, <2>3 DEF Next, Rest, Sizing
  <1>. QED BY <1>4, <1>5 DEF VerbsNext, VerbStep, Deliver, Lookup, AskEngine, Write, Apart, allVars

LEMMA SizingInvariant == VerbsSpec => []Sizing
  BY InitSizing, NextSizing, PTL DEF VerbsSpec

\* When nothing is under way, the shell of a live pane, its engine and its record have
\* one grid, but for a pane a Resize of which failed half-way or crossed another call
\* since it was last opened (pane.go:353-370, 422-429, 463-475, 683-718).
THEOREM GridsDoAgree == VerbsSpec => []GridsAgree
  <1>1. Sizing => GridsAgree
    <2> SUFFICES ASSUME Sizing, Quiet, NEW p \in Panes \ crossed, NEW g, g = panes[p],
                        g # 0, record[g].phase = "live",
                        surface[Engine(g)][p].by = g, Keeps(g, p)
                 PROVE  /\ shell[Pty(g)][p].grid = surface[Engine(g)][p].grid
                        /\ record[g].grid = surface[Engine(g)][p].grid
      BY DEF GridsAgree
    <2>1. LiveGrids(p)
      BY DEF Sizing, Gridding, PaneGrids
    <2>2. ~BeingResized(p)
      BY DEF Quiet, At, BeingResized
    <2>. QED BY <2>1, <2>2 DEF LiveGrids, SurfaceIs, ShellIs
  <1>. QED BY <1>1, SizingInvariant, PTL
=============================================================================
