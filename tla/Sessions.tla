------------------------------ MODULE Sessions ------------------------------
(***************************************************************************)
(* The pane sessions of pane.go: goroutines (Callers) run Start, Remove,   *)
(* Stop, RestartUnit and Resize over links to sidecar processes (Units).   *)
(*                                                                         *)
(* One action is one step between two points at which the code can be      *)
(* overtaken: a request to a sidecar, or the wait for a pane's lock.  What *)
(* a request changes in the sidecar and what the caller does with the      *)
(* answer are one step, because only the caller reads that answer.         *)
(*                                                                         *)
(* A lifecycle generation names one declaration of a pane, hence also the  *)
(* paneRecord that Start allocates for it: a *paneRecord is its generation *)
(* here and `record' is the heap.                                          *)
(***************************************************************************)
EXTENDS Integers, Sequences, FiniteSets

CONSTANTS
  Panes,          \* pane names; numbers, because RestartUnit sorts them
  Units,          \* sidecar processes, engines and ptys alike
  Sources,        \* the declarations' sources: [pane, engine, pty]
  Callers,        \* goroutines of the host
  Free,           \* who holds a lock that nobody holds
  Unbound,        \* the sidecar of a pane that Bind never named
  Grids,          \* grid sizes an engine may answer; 0 is the empty grid
  Faults,         \* how a request may fail, see Answers
  OrderedHost,    \* does the host run a pane's Starts and Removes as reported?
  MaxGeneration,  \* bound: declarations
  MaxMoves,       \* bound: panes moved by one commit
  MaxVerbs,       \* bound: Stop and Resize calls
  MaxCrashes      \* bound: sidecar replacements

ASSUME PanesAssumption == Panes \subseteq Nat
ASSUME SourcesAssumption == Sources \subseteq [pane : Panes, engine : Units, pty : Units]
ASSUME CallersAssumption == Free \notin Callers
ASSUME UnitsAssumption == Unbound \notin Units
ASSUME GridsAssumption == Grids \subseteq Nat /\ 0 \in Grids
ASSUME FaultsAssumption == Faults \subseteq {"refused", "lost"}
ASSUME HostAssumption == OrderedHost \in BOOLEAN
ASSUME BoundsAssumption ==
  MaxGeneration \in Nat /\ MaxMoves \in Nat /\ MaxVerbs \in Nat /\ MaxCrashes \in Nat

VARIABLES
  panes,     \* Sessions.panes: the generation of each pane's record, 0 if none
  failed,    \* Sessions.failed: likewise
  record,    \* the paneRecord of each generation
  lock,      \* Sessions.locks: who holds each pane's lock
  call,      \* what each goroutine is running, and where it stands
  bound,     \* the sidecar the surface channel expects for each pane
  surface,   \* engines: the surface each unit keeps for each pane
  shell,     \* ptys: the session each unit keeps for each pane
  declared,  \* compositor: the generation declared for each pane, 0 if none
  source,    \* compositor: the source of each generation, in the order declared
  movedTo,   \* compositor: the generation a commit put in the place of each, 0 if none
  pending,   \* host: observed events no goroutine has taken up yet
  due,       \* host: replaced units it has yet to report by RestartUnit
  spent,     \* how much of each bound is used
  abandoned  \* history: generations a Stop or Remove of which failed

sessionsVars == <<panes, failed, record, lock>>
sidecarVars == <<bound, surface, shell>>
hostVars == <<declared, source, movedTo, pending, due, spent>>
vars == <<panes, failed, record, lock, call, bound, surface, shell,
          declared, source, movedTo, pending, due, spent, abandoned>>

-----------------------------------------------------------------------------
(* Records, frames and answers *)

Generations == 1 .. MaxGeneration

Phases == {"none", "opening", "prepared", "opened", "live", "blocked"}
Records == [phase : Phases, session : Nat, grid : Grids, token : BOOLEAN]
NewRecord == [phase |-> "opening", session |-> 0, grid |-> 0, token |-> FALSE]

\* The points of Start and restartPane, of Stop and Remove, and of Resize.
OpeningPoints == {"rehydrate", "measure", "prepare", "open", "fit", "ensure", "bind", "surface"}
ClosingPoints == {"closeSurface", "detach", "close"}
ResizePoints == {"resizeSurface", "resizeShell", "noteGrid"}
HoldingPoints == OpeningPoints \cup ClosingPoints
Points == {"idle", "units", "lock"} \cup HoldingPoints \cup ResizePoints
Operations == {"none", "start", "remove", "stopDetach", "stopClose", "restart", "resize"}

\* A goroutine's arguments (pane, named: the generation, unit) and locals: gen
\* is its *paneRecord, todo the panes RestartUnit has yet to reach.
Frames == [op : Operations, at : Points,
           pane : Panes \cup {0}, named : 0 .. MaxGeneration, unit : Units \cup {Unbound},
           gen : 0 .. MaxGeneration, todo : SUBSET Panes, warm : BOOLEAN, grid : Grids]
Idle == [op |-> "none", at |-> "idle", pane |-> 0, named |-> 0, unit |-> Unbound,
         gen |-> 0, todo |-> {}, warm |-> FALSE, grid |-> 0]

\* A request is served ("ok"), refused with nothing done, or its answer is
\* lost after the sidecar has done the work.
Answers == {"ok"} \cup Faults
Served(answer) == answer # "refused"

NoSurface == [by |-> 0, grid |-> 0]
NoShell == [session |-> 0, grid |-> 0]

TypeOK ==
  /\ panes \in [Panes -> 0 .. MaxGeneration]
  /\ failed \in [Panes -> 0 .. MaxGeneration]
  /\ record \in [Generations -> Records]
  /\ lock \in [Panes -> Callers \cup {Free}]
  /\ call \in [Callers -> Frames]
  /\ bound \in [Panes -> Units \cup {Unbound}]
  /\ surface \in [Units -> [Panes -> [by : 0 .. MaxGeneration, grid : Grids]]]
  /\ shell \in [Units -> [Panes -> [session : Nat, grid : Grids]]]
  /\ declared \in [Panes -> 0 .. MaxGeneration]
  /\ source \in Seq(Sources) /\ Len(source) <= MaxGeneration
  /\ movedTo \in [Generations -> 0 .. MaxGeneration]
  /\ pending \subseteq [op : {"start", "remove"}, gen : Generations]
  /\ due \subseteq Units
  /\ spent \in [verbs : 0 .. MaxVerbs, crashes : 0 .. MaxCrashes, sessions : Nat]
  /\ abandoned \subseteq Generations

Init ==
  /\ panes = [p \in Panes |-> 0]
  /\ failed = [p \in Panes |-> 0]
  /\ record = [g \in Generations |-> [NewRecord EXCEPT !.phase = "none"]]
  /\ lock = [p \in Panes |-> Free]
  /\ call = [t \in Callers |-> Idle]
  /\ bound = [p \in Panes |-> Unbound]
  /\ surface = [u \in Units |-> [p \in Panes |-> NoSurface]]
  /\ shell = [u \in Units |-> [p \in Panes |-> NoShell]]
  /\ declared = [p \in Panes |-> 0]
  /\ source = <<>>
  /\ movedTo = [g \in Generations |-> 0]
  /\ pending = {}
  /\ due = {}
  /\ spent = [verbs |-> 0, crashes |-> 0, sessions |-> 0]
  /\ abandoned = {}

-----------------------------------------------------------------------------
(* The world around the sessions *)

\* A commit declares a pane, and Backend.Apply reports the creation to the host.
Declare(s) ==
  LET g == Len(source) + 1 IN
  /\ declared[s.pane] = 0
  /\ g <= MaxGeneration
  /\ source' = Append(source, s)
  /\ declared' = [declared EXCEPT ![s.pane] = g]
  /\ pending' = pending \cup {[op |-> "start", gen |-> g]}
  /\ UNCHANGED <<sessionsVars, call, sidecarVars, movedTo, due, spent, abandoned>>

\* A surface declared anew, or with another pane before it in the batch, is
\* removed first: that is an Undeclare, then a Declare.
Undeclare(p) ==
  /\ declared[p] # 0
  /\ declared' = [declared EXCEPT ![p] = 0]
  /\ pending' = pending \cup {[op |-> "remove", gen |-> declared[p]]}
  /\ UNCHANGED <<sessionsVars, call, sidecarVars, source, movedTo, due, spent, abandoned>>

\* One commit moves a pane to another surface: planBatch has the removals of
\* absent surfaces follow the creations, and Apply reports them in that order.
Move(s) ==
  LET old == declared[s.pane]  g == Len(source) + 1 IN
  /\ old # 0
  /\ g <= MaxGeneration /\ Cardinality({h \in Generations : movedTo[h] # 0}) < MaxMoves
  /\ source' = Append(source, s)
  /\ declared' = [declared EXCEPT ![s.pane] = g]
  /\ movedTo' = [movedTo EXCEPT ![old] = g]
  /\ pending' = pending \cup {[op |-> "start", gen |-> g], [op |-> "remove", gen |-> old]}
  /\ UNCHANGED <<sessionsVars, call, sidecarVars, due, spent, abandoned>>

\* A sidecar process dies and is replaced: what it kept is gone.
Crash(u) ==
  /\ spent.crashes < MaxCrashes
  /\ spent' = [spent EXCEPT !.crashes = @ + 1]
  /\ surface' = [surface EXCEPT ![u] = [p \in Panes |-> NoSurface]]
  /\ shell' = [shell EXCEPT ![u] = [p \in Panes |-> NoShell]]
  /\ due' = due \cup {u}
  /\ UNCHANGED <<sessionsVars, call, bound, declared, source, movedTo, pending, abandoned>>

-----------------------------------------------------------------------------
(* Goroutines: taking up work, and leaving a pane *)

At(t, point) == call[t].at = point
Engine(g) == source[g].engine
Pty(g) == source[g].pty
DependsOn(g, u) == Engine(g) = u \/ Pty(g) = u

\* The host's queue of one pane, in the order reported: a generation's Start, the
\* Remove of the one it took the place of, and its own Remove unless it is moved in
\* its turn; none of them begun before the last has returned.
Turn(event) == IF event.op = "start" THEN 3 * event.gen
               ELSE IF movedTo[event.gen] # 0 THEN 3 * movedTo[event.gen] + 1
               ELSE 3 * event.gen + 2
InTurn(event) ==
  LET p == source[event.gen].pane IN
  /\ \A other \in pending : source[other.gen].pane = p => Turn(event) <= Turn(other)
  /\ \A t \in Callers : call[t].op \in {"start", "remove"} => call[t].pane # p

BeginEvent(t, event, point) ==
  /\ At(t, "idle")
  /\ event \in pending
  /\ OrderedHost => InTurn(event)
  /\ pending' = pending \ {event}
  /\ call' = [call EXCEPT ![t] = [Idle EXCEPT !.op = event.op, !.at = point, !.named = event.gen,
                                              !.pane = source[event.gen].pane]]
  /\ UNCHANGED <<sessionsVars, sidecarVars, declared, source, movedTo, due, spent, abandoned>>

BeginStart(t, g) == BeginEvent(t, [op |-> "start", gen |-> g], "units")
BeginRemove(t, g) == BeginEvent(t, [op |-> "remove", gen |-> g], "lock")

\* Wrong: a pane whose opening is under way is not restarted.
BeginRestartLiveOnly(t, u) ==
  LET dependents == {p \in Panes : /\ panes[p] # 0 /\ DependsOn(panes[p], u)
                                  /\ record[panes[p]].phase = "live"} IN
  /\ At(t, "idle")
  /\ u \in due
  /\ due' = due \ {u}
  /\ call' = IF dependents = {} THEN call
             ELSE [call EXCEPT ![t] = [Idle EXCEPT !.op = "restart", !.at = "lock",
                                                   !.unit = u, !.todo = dependents]]
  /\ UNCHANGED <<sessionsVars, sidecarVars, declared, source, movedTo, pending, spent, abandoned>>

\* RestartUnit snapshots the panes that depend on the unit; in their order it
\* then restarts each under that pane's lock.
BeginRestart(t, u) ==
  LET dependents == {p \in Panes : panes[p] # 0 /\ DependsOn(panes[p], u)} IN
  /\ At(t, "idle")
  /\ u \in due
  /\ due' = due \ {u}
  /\ call' = IF dependents = {} THEN call
             ELSE [call EXCEPT ![t] = [Idle EXCEPT !.op = "restart", !.at = "lock",
                                                   !.unit = u, !.todo = dependents]]
  /\ UNCHANGED <<sessionsVars, sidecarVars, declared, source, movedTo, pending, spent, abandoned>>

BeginVerb(t) ==
  /\ At(t, "idle")
  /\ spent.verbs < MaxVerbs
  /\ spent' = [spent EXCEPT !.verbs = @ + 1]
  /\ UNCHANGED <<sessionsVars, sidecarVars, declared, source, movedTo, pending, due, abandoned>>

BeginStop(t, p, op) ==
  /\ BeginVerb(t)
  /\ call' = [call EXCEPT ![t] = [Idle EXCEPT !.op = op, !.at = "lock", !.pane = p]]

\* Resize looks the record up and keeps the pointer; it takes no lock.
BeginResize(t, p) ==
  /\ BeginVerb(t)
  /\ panes[p] # 0
  /\ call' = [call EXCEPT ![t] = [Idle EXCEPT !.op = "resize", !.at = "resizeSurface",
                                              !.pane = p, !.gen = panes[p]]]

Goto(t, point) ==
  /\ call' = [call EXCEPT ![t].at = point]
  /\ UNCHANGED lock

Return(t) ==
  /\ call' = [call EXCEPT ![t] = Idle]
  /\ UNCHANGED lock

\* Wrong: RestartUnit ends with its first pane.
LeaveRest(t) ==
  /\ lock' = [lock EXCEPT ![call[t].pane] = Free]
  /\ call' = [call EXCEPT ![t] = Idle]

\* Wrong: the lock is never released.
LeaveLocked(t) == Return(t)

\* The deferred unlock; RestartUnit goes on with the next pane.
Leave(t) ==
  /\ lock' = [lock EXCEPT ![call[t].pane] = Free]
  /\ call' = [call EXCEPT ![t] =
       IF call[t].todo = {} THEN Idle
       ELSE [Idle EXCEPT !.op = "restart", !.at = "lock",
                         !.unit = call[t].unit, !.todo = call[t].todo]]

-----------------------------------------------------------------------------
(* Start up to the record *)

RecordPreStartFailure(p, g) ==
  failed' = IF panes[p] > g \/ failed[p] > g THEN failed ELSE [failed EXCEPT ![p] = g]

\* Parsing the source and starting the pty, then the engine, all outside the
\* lock: any of the three may fail, to the same effect.
StartUnits(t) ==
  /\ At(t, "units")
  /\ \/ Goto(t, "lock") /\ UNCHANGED failed
     \/ Faults # {} /\ RecordPreStartFailure(call[t].pane, call[t].named) /\ Return(t)
  /\ UNCHANGED <<panes, record, sidecarVars, hostVars, abandoned>>

Acquire(t, p) ==
  /\ At(t, "lock")
  /\ lock[p] = Free
  /\ lock' = [lock EXCEPT ![p] = t]

\* Wrong: Start does not take the pane's lock.
InstallStartUnlocked(t) ==
  LET p == call[t].pane  g == call[t].named IN
  /\ call[t].op = "start" /\ At(t, "lock")
  /\ panes[p] < g
  /\ panes' = [panes EXCEPT ![p] = g]
  /\ failed' = [failed EXCEPT ![p] = 0]
  /\ record' = [record EXCEPT ![g] = NewRecord]
  /\ call' = [call EXCEPT ![t].at = "rehydrate", ![t].gen = g]
  /\ UNCHANGED lock
  /\ UNCHANGED <<sidecarVars, hostVars, abandoned>>

\* Wrong: Start does not look at the generation held.
InstallStartUnguarded(t) ==
  LET p == call[t].pane  g == call[t].named IN
  /\ call[t].op = "start"
  /\ Acquire(t, p)
  /\ panes' = [panes EXCEPT ![p] = g]
  /\ failed' = [failed EXCEPT ![p] = 0]
  /\ record' = [record EXCEPT ![g] = NewRecord]
  /\ call' = [call EXCEPT ![t].at = "rehydrate", ![t].gen = g]
  /\ UNCHANGED <<sidecarVars, hostVars, abandoned>>

\* Wrong: the failure of an older Start stays beside the new record.
InstallStartKeepingFailure(t) ==
  LET p == call[t].pane  g == call[t].named IN
  /\ call[t].op = "start"
  /\ panes[p] < g
  /\ Acquire(t, p)
  /\ panes' = [panes EXCEPT ![p] = g]
  /\ record' = [record EXCEPT ![g] = NewRecord]
  /\ call' = [call EXCEPT ![t].at = "rehydrate", ![t].gen = g]
  /\ UNCHANGED <<failed, sidecarVars, hostVars, abandoned>>

\* The guard and the installation of the record, under the lock and under mu.
InstallStart(t) ==
  LET p == call[t].pane  g == call[t].named IN
  /\ call[t].op = "start"
  /\ panes[p] < g
  /\ Acquire(t, p)
  /\ panes' = [panes EXCEPT ![p] = g]
  /\ failed' = [failed EXCEPT ![p] = 0]
  /\ record' = [record EXCEPT ![g] = NewRecord]
  /\ call' = [call EXCEPT ![t].at = "rehydrate", ![t].gen = g]
  /\ UNCHANGED <<sidecarVars, hostVars, abandoned>>

\* A Start overtaken by a generation at least as new returns at once.
StaleStart(t) ==
  LET p == call[t].pane IN
  /\ call[t].op = "start" /\ At(t, "lock")
  /\ lock[p] = Free
  /\ panes[p] >= call[t].named
  /\ Return(t)
  /\ UNCHANGED <<panes, failed, record, sidecarVars, hostVars, abandoned>>

\* Wrong: the token of the replaced process stays.
LockRestartKeepingToken(t) ==
  \E p \in call[t].todo :
    /\ \A q \in call[t].todo : p <= q
    /\ call[t].op = "restart"
    /\ panes[p] # 0 /\ DependsOn(panes[p], call[t].unit)
    /\ Acquire(t, p)
    /\ record' = [record EXCEPT ![panes[p]].phase = "opening"]
    /\ call' = [call EXCEPT ![t].at = "rehydrate", ![t].pane = p, ![t].gen = panes[p],
                            ![t].todo = @ \ {p}]
    /\ UNCHANGED <<panes, failed, sidecarVars, hostVars, abandoned>>

\* Wrong: the restart does not wait for the pane's lock.
LockRestartUnlocked(t) ==
  \E p \in call[t].todo :
    /\ \A q \in call[t].todo : p <= q
    /\ call[t].op = "restart"
    /\ panes[p] # 0 /\ DependsOn(panes[p], call[t].unit)
    /\ At(t, "lock") /\ UNCHANGED lock
    /\ record' = [record EXCEPT ![panes[p]].phase = "opening", ![panes[p]].token = FALSE]
    /\ call' = [call EXCEPT ![t].at = "rehydrate", ![t].pane = p, ![t].gen = panes[p],
                            ![t].todo = @ \ {p}]
    /\ UNCHANGED <<panes, failed, sidecarVars, hostVars, abandoned>>

\* Wrong: a restart forgets the pane's failed Start.
LockRestartForgivingFailure(t) ==
  \E p \in call[t].todo :
    /\ \A q \in call[t].todo : p <= q
    /\ call[t].op = "restart"
    /\ panes[p] # 0 /\ DependsOn(panes[p], call[t].unit)
    /\ Acquire(t, p)
    /\ record' = [record EXCEPT ![panes[p]].phase = "opening", ![panes[p]].token = FALSE]
    /\ call' = [call EXCEPT ![t].at = "rehydrate", ![t].pane = p, ![t].gen = panes[p],
                            ![t].todo = @ \ {p}]
    /\ failed' = [failed EXCEPT ![p] = 0]
    /\ UNCHANGED <<panes, sidecarVars, hostVars, abandoned>>

\* restartPane: the record, if there still is one that depends on the unit,
\* goes back to the beginning; its token belonged to the process that is gone.
LockRestart(t) ==
  \E p \in call[t].todo :
    /\ \A q \in call[t].todo : p <= q
    /\ call[t].op = "restart"
    /\ panes[p] # 0 /\ DependsOn(panes[p], call[t].unit)
    /\ Acquire(t, p)
    /\ record' = [record EXCEPT ![panes[p]].phase = "opening", ![panes[p]].token = FALSE]
    /\ call' = [call EXCEPT ![t].at = "rehydrate", ![t].pane = p, ![t].gen = panes[p],
                            ![t].todo = @ \ {p}]
    /\ UNCHANGED <<panes, failed, sidecarVars, hostVars, abandoned>>

SkipRestart(t) ==
  \E p \in call[t].todo :
    /\ \A q \in call[t].todo : p <= q
    /\ call[t].op = "restart" /\ At(t, "lock")
    /\ lock[p] = Free
    /\ ~(panes[p] # 0 /\ DependsOn(panes[p], call[t].unit))
    /\ call' = [call EXCEPT ![t] = IF call[t].todo = {p} THEN Idle
                                    ELSE [call[t] EXCEPT !.todo = @ \ {p}]]
    /\ UNCHANGED <<sessionsVars, sidecarVars, hostVars, abandoned>>

-----------------------------------------------------------------------------
(* The opening that Start and restartPane share, under the pane's lock *)

\* Wrong: a phase that Status does not know.
BlockUnknown(t) ==
  /\ record' = [record EXCEPT ![call[t].gen].phase = "failed"]
  /\ Leave(t)

\* Wrong: the failed opening is not recorded.
BlockForgotten(t) == UNCHANGED record /\ Leave(t)

\* block and markRestartFailed: under the lock both name the pane's record.
Block(t) ==
  /\ record' = [record EXCEPT ![call[t].gen].phase = "blocked"]
  /\ Leave(t)

\* Whether the engine still holds the pane's mirror; a refusal means it does not.
Rehydrate(t) ==
  /\ At(t, "rehydrate")
  /\ \E warm \in BOOLEAN : call' = [call EXCEPT ![t].at = "measure", ![t].warm = warm]
  /\ UNCHANGED <<sessionsVars, sidecarVars, hostVars, abandoned>>

Measure(t) ==
  /\ At(t, "measure")
  /\ \/ /\ \E grid \in Grids \ {0} :
             call' = [call EXCEPT ![t].at = IF call[t].warm THEN "open" ELSE "prepare",
                                  ![t].grid = grid]
        /\ UNCHANGED <<record, lock>>
     \/ Faults # {} /\ Block(t)
  /\ UNCHANGED <<panes, failed, sidecarVars, hostVars, abandoned>>

\* freshObserver: the token goes into the record the pane holds now.
Prepare(t) ==
  /\ At(t, "prepare")
  /\ \/ /\ record' = [record EXCEPT ![panes[call[t].pane]].phase = "prepared",
                                    ![panes[call[t].pane]].token = TRUE]
        /\ Goto(t, "open")
     \/ Faults # {} /\ Block(t)
  /\ UNCHANGED <<panes, failed, sidecarVars, hostVars, abandoned>>

\* terminal.ensureSession follows the open of a session that carried a token.
AfterOpen(t) == IF ~call[t].warm /\ record[call[t].gen].token THEN "ensure" ELSE "bind"

\* pty.open answers the pane's session, or creates one of the measured grid.
OpenShell(t) ==
  LET p == call[t].pane  g == call[t].gen  y == Pty(g)
      created == shell[y][p].session = 0
      session == IF created THEN spent.sessions + 1 ELSE shell[y][p].session IN
  /\ At(t, "open")
  /\ \E answer \in Answers :
       /\ IF Served(answer) /\ created
          THEN /\ shell' = [shell EXCEPT ![y][p] = [session |-> session, grid |-> call[t].grid]]
               /\ spent' = [spent EXCEPT !.sessions = session]
          ELSE UNCHANGED <<shell, spent>>
       /\ \/ /\ answer = "ok"
             /\ record' = [record EXCEPT ![g].session = session, ![g].phase = "opened"]
             /\ Goto(t, IF created THEN AfterOpen(t) ELSE "fit")
          \/ answer # "ok" /\ Block(t)
  /\ UNCHANGED <<panes, failed, bound, surface, declared, source, movedTo, pending, due, abandoned>>

\* The pty keeps the session the record of a generation names.
Keeps(g, p) == record[g].session # 0 /\ shell[Pty(g)][p].session = record[g].session

\* pty.resize reaches the session the record names, if the pty still keeps it.
Resized(t) ==
  LET p == call[t].pane  g == call[t].gen IN
  [shell EXCEPT ![Pty(g)][p].grid = IF Keeps(g, p) THEN call[t].grid ELSE @]

\* Wrong: a session that was there keeps the grid it had.
FitShellNever(t) ==
  /\ At(t, "fit")
  /\ Goto(t, AfterOpen(t))
  /\ UNCHANGED <<panes, failed, record, sidecarVars, hostVars, abandoned>>

FitShell(t) ==
  /\ At(t, "fit")
  /\ \E answer \in Answers :
       /\ shell' = IF Served(answer) THEN Resized(t) ELSE shell
       /\ \/ answer = "ok" /\ Goto(t, AfterOpen(t)) /\ UNCHANGED record
          \/ answer # "ok" /\ Block(t)
  /\ UNCHANGED <<panes, failed, bound, surface, hostVars, abandoned>>

Ensure(t) ==
  /\ At(t, "ensure")
  /\ \/ Goto(t, "bind") /\ UNCHANGED record
     \/ Faults # {} /\ Block(t)
  /\ UNCHANGED <<panes, failed, sidecarVars, hostVars, abandoned>>

Bind(t) ==
  /\ At(t, "bind")
  /\ bound' = [bound EXCEPT ![call[t].pane] = Engine(call[t].gen)]
  /\ Goto(t, "surface")
  /\ UNCHANGED <<panes, failed, record, surface, shell, hostVars, abandoned>>

\* The engine opens the surface and answers its grid: the measured one settles
\* the record, any other is refused with the surface left open.
OpenSurface(t) ==
  LET p == call[t].pane  g == call[t].gen IN
  /\ At(t, "surface")
  /\ \E answer \in Answers, grid \in Grids :
       /\ surface' = IF Served(answer)
                     THEN [surface EXCEPT ![Engine(g)][p] = [by |-> g, grid |-> grid]]
                     ELSE surface
       /\ \/ /\ answer = "ok" /\ grid = call[t].grid
             /\ record' = [record EXCEPT ![g].grid = grid, ![g].phase = "live"]
             /\ Leave(t)
          \/ (answer # "ok" \/ grid # call[t].grid) /\ Block(t)
  /\ UNCHANGED <<panes, failed, bound, shell, hostVars, abandoned>>

-----------------------------------------------------------------------------
(* Stop and Remove, under the pane's lock *)

\* Wrong: Remove does not compare the generation.
ClosesAny(t) == call[t].op # "none"

\* Remove names a generation, Stop takes whichever the pane holds.
Closes(t) == call[t].op \in {"stopDetach", "stopClose"} \/ panes[call[t].pane] = call[t].named

\* Wrong: Stop and Remove do not wait for the pane's lock.
LockClosingUnlocked(t) ==
  LET p == call[t].pane IN
  /\ call[t].op \in {"remove", "stopDetach", "stopClose"}
  /\ panes[p] # 0 /\ Closes(t)
  /\ At(t, "lock") /\ UNCHANGED lock
  /\ call' = [call EXCEPT ![t].at = "closeSurface", ![t].gen = panes[p]]
  /\ UNCHANGED <<panes, failed, record, sidecarVars, hostVars, abandoned>>

LockClosing(t) ==
  LET p == call[t].pane IN
  /\ call[t].op \in {"remove", "stopDetach", "stopClose"}
  /\ panes[p] # 0 /\ Closes(t)
  /\ Acquire(t, p)
  /\ call' = [call EXCEPT ![t].at = "closeSurface", ![t].gen = panes[p]]
  /\ UNCHANGED <<panes, failed, record, sidecarVars, hostVars, abandoned>>

SkipClosing(t) ==
  LET p == call[t].pane IN
  /\ call[t].op \in {"remove", "stopDetach", "stopClose"} /\ At(t, "lock")
  /\ lock[p] = Free
  /\ ~(panes[p] # 0 /\ Closes(t))
  /\ Return(t)
  /\ UNCHANGED <<panes, failed, record, sidecarVars, hostVars, abandoned>>

\* A refusal returns with the record as it was, whatever was done before it.
Abandon(t) ==
  /\ abandoned' = abandoned \cup {call[t].gen}
  /\ Leave(t)
  /\ UNCHANGED panes

Drop(t) ==
  LET p == call[t].pane IN
  /\ panes' = [panes EXCEPT ![p] = IF @ = call[t].gen THEN 0 ELSE @]
  /\ Leave(t)
  /\ UNCHANGED abandoned

CloseSurface(t) ==
  /\ At(t, "closeSurface")
  /\ \E answer \in Answers :
       /\ surface' = IF Served(answer)
                     THEN [surface EXCEPT ![Engine(call[t].gen)][call[t].pane] = NoSurface]
                     ELSE surface
       /\ \/ answer = "ok" /\ Goto(t, "detach") /\ UNCHANGED <<panes, abandoned>>
          \/ answer # "ok" /\ Abandon(t)
  /\ UNCHANGED <<failed, record, bound, shell, hostVars>>

\* pty.detachRenderer leaves the session to run on.
Detach(t) ==
  /\ At(t, "detach")
  /\ \/ call[t].op = "stopClose" /\ Goto(t, "close") /\ UNCHANGED <<panes, abandoned>>
     \/ call[t].op # "stopClose" /\ Drop(t)
     \/ Faults # {} /\ Abandon(t)
  /\ UNCHANGED <<failed, record, sidecarVars, hostVars>>

CloseShell(t) ==
  LET p == call[t].pane  g == call[t].gen IN
  /\ At(t, "close")
  /\ \E answer \in Answers :
       /\ shell' = IF Served(answer) /\ Keeps(g, p)
                   THEN [shell EXCEPT ![Pty(g)][p] = NoShell] ELSE shell
       /\ \/ answer = "ok" /\ Drop(t)
          \/ answer # "ok" /\ Abandon(t)
  /\ UNCHANGED <<failed, record, bound, surface, hostVars>>

-----------------------------------------------------------------------------
(* Resize, under no lock: each request reads the record as it then is.     *)
(* A sidecar refuses to resize what it does not keep.                      *)

ResizeSurface(t) ==
  LET p == call[t].pane  e == Engine(call[t].gen)  kept == surface[e][p].by # 0 IN
  /\ At(t, "resizeSurface")
  /\ \E answer \in Answers, grid \in Grids :
       /\ surface' = IF Served(answer) /\ kept
                     THEN [surface EXCEPT ![e][p].grid = grid] ELSE surface
       /\ \/ /\ answer = "ok" /\ kept
             /\ call' = [call EXCEPT ![t].at = "resizeShell", ![t].grid = grid]
             /\ UNCHANGED lock
          \/ ~(answer = "ok" /\ kept) /\ Return(t)
  /\ UNCHANGED <<panes, failed, record, bound, shell, hostVars, abandoned>>

ResizeShell(t) ==
  LET kept == Keeps(call[t].gen, call[t].pane) IN
  /\ At(t, "resizeShell")
  /\ \E answer \in Answers :
       /\ shell' = IF Served(answer) THEN Resized(t) ELSE shell
       /\ \/ answer = "ok" /\ kept /\ Goto(t, "noteGrid")
          \/ ~(answer = "ok" /\ kept) /\ Return(t)
  /\ UNCHANGED <<panes, failed, record, bound, surface, hostVars, abandoned>>

NoteGrid(t) ==
  /\ At(t, "noteGrid")
  /\ record' = [record EXCEPT ![call[t].gen].grid = call[t].grid]
  /\ Return(t)
  /\ UNCHANGED <<panes, failed, sidecarVars, hostVars, abandoned>>

-----------------------------------------------------------------------------
(* The specification *)

World == \/ \E s \in Sources : Declare(s) \/ Move(s)
         \/ \E p \in Panes : Undeclare(p)
         \/ \E u \in Units : Crash(u)

Begin(t) == \/ \E g \in Generations : BeginStart(t, g) \/ BeginRemove(t, g)
            \/ \E u \in Units : BeginRestart(t, u)

Verb(t) == \E p \in Panes : \/ BeginStop(t, p, "stopDetach")
                            \/ BeginStop(t, p, "stopClose")
                            \/ BeginResize(t, p)

Opening(t) == \/ Rehydrate(t) \/ Measure(t) \/ Prepare(t) \/ OpenShell(t)
              \/ FitShell(t) \/ Ensure(t) \/ Bind(t) \/ OpenSurface(t)

Step(t) == \/ StartUnits(t) \/ InstallStart(t) \/ StaleStart(t)
           \/ LockRestart(t) \/ SkipRestart(t) \/ LockClosing(t) \/ SkipClosing(t)
           \/ Opening(t)
           \/ CloseSurface(t) \/ Detach(t) \/ CloseShell(t)
           \/ ResizeSurface(t) \/ ResizeShell(t) \/ NoteGrid(t)

Quiet == /\ pending = {} /\ due = {}
         /\ \A t \in Callers : At(t, "idle")

\* All work is done: the system waits for the world.
Rest == Quiet /\ UNCHANGED vars

Next == World \/ (\E t \in Callers : Begin(t) \/ Verb(t) \/ Step(t)) \/ Rest

Spec == Init /\ [][Next]_vars

\* The host takes up what is pending, goroutines are scheduled, sidecars answer
\* or the relay refuses for them, and a Go mutex is handed to its waiters.
FairSpec == /\ Spec
            /\ WF_vars(\E t \in Callers : Begin(t))
            /\ \A t \in Callers : WF_vars(Step(t))

-----------------------------------------------------------------------------
(* Safety *)

\* Whoever is at work on a pane's record holds that pane's lock, and the record
\* it works on is the one the pane shows: lockPane makes paneRecord exclusive
\* across every request of Start, restartPane, Stop and Remove (pane.go:64-74).
LockGuardsRecord ==
  /\ \A t \in Callers : call[t].at \in HoldingPoints =>
       /\ lock[call[t].pane] = t
       /\ panes[call[t].pane] = call[t].gen
  /\ \A p \in Panes : lock[p] # Free =>
       /\ call[lock[p]].at \in HoldingPoints
       /\ call[lock[p]].pane = p

\* While a Remove is closing, the pane's record is of the generation it names:
\* a newer declaration neither is closed by it nor comes in between its
\* requests (pane.go:529-551).
RemovesOnlyItsOwn ==
  \A t \in Callers : call[t].op = "remove" /\ call[t].at \in ClosingPoints =>
    panes[call[t].pane] = call[t].named

\* A pane nobody works on has a record that is live or blocked: every way out
\* of Start and restartPane settles the phase it set (pane.go:160-276).
SettledWhenUnlocked ==
  \A p \in Panes : lock[p] = Free /\ panes[p] # 0 =>
    record[panes[p]].phase \in {"live", "blocked"}

\* pty.open carries an observer token exactly when this opening prepared an
\* observer: neither a token of a process since replaced nor none for a shell
\* whose first byte the engine is to see (pane.go:247-250, 353-391, 406-411).
TokenOfThisOpening ==
  \A t \in Callers : call[t].at \in {"open", "fit", "ensure", "bind", "surface"} =>
    (record[call[t].gen].token <=> ~call[t].warm)

RestartAwaits(p) ==
  \/ {Engine(panes[p]), Pty(panes[p])} \cap due # {}
  \/ \E t \in Callers : p \in call[t].todo /\ DependsOn(panes[p], call[t].unit)

\* What Status calls live is so: the engine keeps the surface this generation
\* opened, the pty keeps the session the record names and the channel expects
\* this engine. Excepted are a pane whose restart is still to come, and what a
\* failed Stop or Remove has closed (pane.go:216-276, 393-475).
LiveIsTruthful ==
  \A p \in Panes : LET g == panes[p] IN
    /\ g # 0 /\ lock[p] = Free /\ record[g].phase = "live"
    /\ ~RestartAwaits(p)
    => /\ \/ surface[Engine(g)][p].by = g
          \/ surface[Engine(g)][p] = NoSurface /\ g \in abandoned
       /\ \/ shell[Pty(g)][p].session = record[g].session
          \/ shell[Pty(g)][p] = NoShell /\ g \in abandoned
       /\ bound[p] = Engine(g)

\* When nothing is left to do, an open surface belongs to the pane's declared
\* generation or to one a Stop or Remove of which failed: no interleaving of
\* Start, Remove, Stop and RestartUnit leaves a surface that nothing will close
\* (pane.go:178-192, 236-246, 531-551).
NoOrphanSurface ==
  Quiet =>
    \A u \in Units, p \in Panes :
      surface[u][p].by # 0 => surface[u][p].by \in {declared[p]} \cup abandoned

\* The pane went from this generation to one on another engine in one commit: its
\* Remove comes after the Start in its place and finds another's record (536).
MovedAway(g) == movedTo[g] # 0 /\ Engine(movedTo[g]) # Engine(g)

\* A generation g opened a surface on u that nobody closed: it, or a later one of the
\* pane that held that surface in turn, was moved away or failed to close it.
LeftOpen(g, u, p) ==
  \E h \in 1 .. Len(source) : /\ h >= g /\ source[h].pane = p /\ Engine(h) = u
                              /\ h \in abandoned \/ MovedAway(h)

\* With a host that keeps the order of the reports: when nothing is left to do, an
\* open surface is at the engine of the declared generation, which the pane's record
\* is of, so that its Remove will close it; or it was left open as above and in no
\* other way, over every interleaving of Start, Remove, Stop and RestartUnit with
\* moves, failures and crashes (pane.go:178-192, 236-246, 463-475, 531-551).
SurfacesTended ==
  Quiet =>
    \A u \in Units, p \in Panes : surface[u][p].by # 0 =>
      \/ declared[p] # 0 /\ panes[p] = declared[p] /\ Engine(declared[p]) = u
      \/ LeftOpen(surface[u][p].by, u, p)

\* Every failed Start on record is one Status shows: with the record of an older
\* generation or with none, never behind that of a newer one (pane.go:307-343).
NoFailureHidden ==
  \A p \in Panes : failed[p] # 0 /\ panes[p] # 0 => failed[p] > panes[p]

-----------------------------------------------------------------------------
(* What a step may never do *)

\* A pane's record is only ever replaced by that of a newer generation
\* (pane.go:186-191).
NewestWins ==
  [][\A p \in Panes : panes'[p] = panes[p] \/ panes'[p] = 0 \/ panes'[p] > panes[p]]_vars

\* A failed Start stays readable until a newer generation replaces it
\* (pane.go:287-309).
FailureKept ==
  [][\A p \in Panes : failed[p] # 0 =>
       failed'[p] >= failed[p] \/ panes'[p] > failed[p]]_vars

-----------------------------------------------------------------------------
(* Refinement *)

\* What Status tells of a pane.
Phase(p) == IF panes[p] = 0 THEN "absent"
            ELSE IF record[panes[p]].phase \in {"live", "blocked"} THEN record[panes[p]].phase
            ELSE "opening"

Lifecycle == INSTANCE PaneLifecycle WITH held <- panes, phase <- [p \in Panes |-> Phase(p)]

\* However its calls cross, a pane goes through one life after the other, each
\* opening of which settles (pane.go:160-276, 477-551).
FollowsLifecycle == Lifecycle!Spec

\* No step departs from that life, also when a sidecar is replaced at any moment
\* (pane.go:216-276).
StepsOfLifecycle == Lifecycle!Steps

-----------------------------------------------------------------------------
(* Liveness *)

\* Every call returns: no goroutine waits for a lock for ever (pane.go:64-74).
CallsReturn == \A t \in Callers : ~At(t, "idle") ~> At(t, "idle")

Settled(g) ==
  g <= Len(source) /\ LET p == source[g].pane IN
    \/ panes[p] >= g /\ record[panes[p]].phase \in {"live", "blocked"}
    \/ failed[p] >= g

\* Every declared generation, or a newer one in its place, comes to be live,
\* blocked or on record as failed (pane.go:160-212, 287-305).
StartsSettle ==
  \A g \in Generations : [op |-> "start", gen |-> g] \in pending ~> Settled(g)
=============================================================================
