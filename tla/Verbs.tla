-------------------------------- MODULE Verbs --------------------------------
(***************************************************************************)
(* The verbs backend.go delivers to an applied surface, over the sessions: *)
(* Input, and Forward of a wheel or a pointer, whose engine may answer     *)
(* input for the pty, beside the Stop, Resize, Start, Remove and           *)
(* RestartUnit of Sessions.  They take no pane lock: each looks the record *)
(* up under mu, keeps the pointer and reads it later.                      *)
(*                                                                         *)
(* Of input only whether the pty took it is kept.  Read, State and the     *)
(* other surface verbs ask the engine and change nothing here.             *)
(***************************************************************************)
EXTENDS Sessions

CONSTANTS
  Clients,  \* goroutines that deliver verbs
  MaxAsked  \* bound: verbs they deliver

ASSUME AskedAssumption == MaxAsked \in Nat

VARIABLES
  client,   \* what each client is running, where it stands and how it went
  asked,    \* how much of MaxAsked is used
  crossed   \* history: panes whose Resize crossed another call, or failed

allVars == <<vars, client, asked, crossed>>

-----------------------------------------------------------------------------
(* Clients *)

\* gen is the client's *paneRecord; returned tells that the engine answered
\* input; writes counts what the pty took of this call, ok is its result.
Verbs == [op : {"none", "input", "forward"}, at : {"idle", "lookup", "engine", "write"},
          pane : Panes \cup {0}, gen : 0 .. MaxGeneration,
          returned : BOOLEAN, writes : Nat, ok : BOOLEAN]
NoVerb == [op |-> "none", at |-> "idle", pane |-> 0, gen |-> 0,
           returned |-> FALSE, writes |-> 0, ok |-> FALSE]

VerbsTypeOK ==
  /\ TypeOK
  /\ client \in [Clients -> Verbs]
  /\ \A c \in Clients : client[c].at \in {"engine", "write"} => client[c].gen # 0
  /\ asked \in 0 .. MaxAsked
  /\ crossed \subseteq Panes

VerbsInit ==
  /\ Init
  /\ client = [c \in Clients |-> NoVerb]
  /\ asked = 0
  /\ crossed = {}

Stands(c, point) == client[c].at = point
Apart == UNCHANGED <<vars, crossed>>

\* The verb ends with an answer or an error.
Answer(c, ok) == client' = [client EXCEPT ![c].at = "idle", ![c].ok = ok,
                                          ![c].gen = 0, ![c].pane = 0]

\* Deliver serves an applied surface, hence a declared pane.
Deliver(c, p, op) ==
  /\ Stands(c, "idle") /\ declared[p] # 0
  /\ asked < MaxAsked
  /\ asked' = asked + 1
  /\ client' = [client EXCEPT ![c] = [NoVerb EXCEPT !.op = op, !.at = "lookup", !.pane = p]]
  /\ Apart

\* Wrong: a pane that is not running is not refused.
LookupUnheld(c) ==
  /\ Stands(c, "lookup")
  /\ client' = [client EXCEPT ![c].gen = panes[client[c].pane], ![c].at = "write"]
  /\ UNCHANGED asked /\ Apart

\* Sessions.record: the pointer of the moment.  A Forward looks it up to ask the
\* engine, and Input does so again for what the engine returned.
Lookup(c) ==
  LET g == panes[client[c].pane] IN
  /\ Stands(c, "lookup")
  /\ \/ g = 0 /\ Answer(c, FALSE)
     \/ /\ g # 0
        /\ client' = [client EXCEPT ![c].gen = g,
                        ![c].at = IF client[c].op = "forward" /\ ~client[c].returned
                                  THEN "engine" ELSE "write"]
  /\ UNCHANGED asked /\ Apart

\* The engine answers without or with input, or what the contract refuses.
AskEngine(c) ==
  LET kept == surface[Engine(client[c].gen)][client[c].pane].by # 0 IN
  /\ Stands(c, "engine")
  /\ \/ kept /\ Answer(c, TRUE)
     \/ kept /\ client' = [client EXCEPT ![c].at = "lookup", ![c].returned = TRUE]
     \/ (~kept \/ Faults # {}) /\ Answer(c, FALSE)
  /\ UNCHANGED asked /\ Apart

\* pty.write names the session the record has by now; the pty takes it, or
\* refuses one that it does not keep.
Taken(c, answer) ==
  IF Served(answer) /\ Keeps(client[c].gen, client[c].pane) THEN 1 ELSE 0

\* Wrong: a write whose answer is an error is tried again.
WriteAgain(c) ==
  /\ Stands(c, "write")
  /\ \E answer \in Answers :
       LET ok == answer = "ok" /\ Taken(c, answer) = 1 IN
       client' = [client EXCEPT ![c].writes = @ + Taken(c, answer), ![c].ok = ok,
                                ![c].at = IF ok THEN "idle" ELSE "lookup"]
  /\ UNCHANGED asked /\ Apart

Write(c) ==
  /\ Stands(c, "write")
  /\ \E answer \in Answers :
       client' = [client EXCEPT ![c].writes = @ + Taken(c, answer), ![c].at = "idle",
                                ![c].ok = answer = "ok" /\ Taken(c, answer) = 1,
                                ![c].gen = 0, ![c].pane = 0]
  /\ UNCHANGED asked /\ Apart

VerbStep(c) == \/ \E p \in Panes, op \in {"input", "forward"} : Deliver(c, p, op)
               \/ Lookup(c) \/ AskEngine(c) \/ Write(c)

-----------------------------------------------------------------------------
(* Which panes' Resizes crossed another call *)

Busy(points, p) == {t \in Callers : call[t].at \in points /\ call[t].pane = p}
Crossing(p) == \E t \in Busy(ResizePoints, p) :
                 Busy(ResizePoints \cup HoldingPoints, p) # {t}

\* A Resize ends before it notes its grid.
Aborting(p) == \E t \in Busy(ResizePoints, p) : call[t].at # "noteGrid" /\ call'[t] = Idle

\* An opening that begins is to ask for the grid anew.
Reopening(p) == LET g == panes'[p] IN
  /\ g # 0 /\ record'[g].phase = "opening"
  /\ panes[p] # g \/ record[g].phase # "opening"

Cross == crossed' = {p \in Panes : \/ Crossing(p)' \/ Aborting(p)
                                  \/ (p \in crossed /\ ~Reopening(p))}

-----------------------------------------------------------------------------
(* The specification *)

VerbsNext == \/ Next /\ Cross /\ UNCHANGED <<client, asked>>
             \/ \E c \in Clients : VerbStep(c)

VerbsSpec == VerbsInit /\ [][VerbsNext]_allVars

-----------------------------------------------------------------------------
(* Properties *)

\* Input that succeeds was written exactly once, also what an engine returned,
\* and input that fails at most once, its answer having been lost: whatever
\* becomes of the record between lookup, engine and pty (pane.go:553-580,
\* 617-672; README.md:40, 46).
InputOnce ==
  \A c \in Clients :
    /\ client[c].writes <= 1
    /\ client[c].ok => client[c].writes = IF client[c].op = "input" \/ client[c].returned
                                          THEN 1 ELSE 0

\* When nothing is under way, the shell of a live pane, its engine and its record
\* have one grid, through restarts of either and Resizes between them: a restarted
\* engine measures anew and the shell is fitted to it (pane.go:353-370, 422-429,
\* 463-475, 683-718).  Excepted is a pane of which a Resize failed half-way, or
\* crossed another call, since it was last opened.
GridsAgree ==
  Quiet => \A p \in Panes \ crossed : LET g == panes[p] IN
    /\ g # 0 /\ record[g].phase = "live"
    /\ surface[Engine(g)][p].by = g /\ Keeps(g, p)
    => /\ shell[Pty(g)][p].grid = surface[Engine(g)][p].grid
       /\ record[g].grid = surface[Engine(g)][p].grid
=============================================================================
