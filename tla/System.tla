------------------------------- MODULE System -------------------------------
(***************************************************************************)
(* Backend over Channel: one thread, the Committer, runs Apply and calls   *)
(* the channel from within it, beside the receive thread, the sidecars and *)
(* the other callers.  While the main thread is in Apply nobody else can   *)
(* show a surface.                                                         *)
(***************************************************************************)
EXTENDS Channel

CONSTANTS
  Declarable, Heights,                           \* see Backend
  MaxCommits, MaxViews, MaxFailures, MaxResizes  \* bounds of Backend

ASSUME CommitterAssumption == Views = 1 .. MaxViews /\ NoView = 0
ASSUME DeclarableAssumption ==
  Declarable \subseteq [id : Nat, generation : Nat, pane : Panes \cup {0},
                        frame : [y : Int, height : Int], layer : Int]
ASSUME HeightsAssumption == Heights \subseteq Nat /\ Heights # {}
ASSUME CommitsAssumption == {MaxCommits, MaxViews, MaxFailures, MaxResizes} \subseteq Nat

VARIABLES
  owners, next, commit, views, height, reported, newest, inventory, torn,  \* see Backend
  budget  \* how much of each bound of Backend is used

B == INSTANCE Backend WITH bound <- [p \in Panes |-> pane[p].view], spent <- budget

backend == <<owners, next, commit, views, height, reported, newest, inventory, torn, budget>>
systemVars == <<vars, backend>>

SystemInit == /\ Init
              /\ B!Init

-----------------------------------------------------------------------------
(* The committing thread *)

Begun(point) == at[Committer] = "idle" /\ commit.at = point

Creations(operations) == {op \in B!Naming(operations) : op.action = "create"}

\* The calls of the channel a commit has yet to make.
Owed(c) == CASE c.at = "unbind" -> Cardinality(c.left) + Cardinality(Creations(c.plan))
             [] c.at = "drive" -> Cardinality(Creations(c.plan))
             [] c.at = "report" -> Cardinality(Creations(c.left))
             [] OTHER -> 0

\* Nobody commits to a channel that is being closed.
BeginCommit ==
  /\ Begun("idle") /\ open.registered
  /\ UNCHANGED vars
  /\ \E s \in B!Snapshots : B!Commit(s)
  /\ spent.calls + Owed(commit') <= MaxCalls

\* Wrong: the views are unbound after the driver has released them.
DriveFirst ==
  /\ Begun("unbind")
  /\ commit' = [commit EXCEPT !.at = "drive", !.left = commit.plan]
  /\ UNCHANGED <<vars, owners, next, views, height, reported, newest, inventory, torn, budget>>

Detach ==
  /\ Begun("unbind") /\ commit.left # {}
  /\ BeginUnbindView(Committer, B!First(commit.left).surface.pane)
  /\ UNCHANGED backend

Detached ==
  /\ commit.at = "unbind"
  /\ UnbindView(Committer)
  /\ B!Unbind(B!First(commit.left))

\* The driver works on the main thread, and waits for it from any other.
DriveNext ==
  /\ Begun("drive") /\ commit.left # {}
  /\ at[Main] = "idle"
  /\ UNCHANGED vars
  /\ B!Drive(B!First(commit.left))

Attach ==
  LET op == B!First(commit.left) IN
  /\ Begun("report") /\ commit.left # {} /\ op.action = "create"
  /\ BeginBindView(Committer, op.surface.pane, owners[op.surface.id].view)
  /\ UNCHANGED backend

Attached ==
  /\ commit.at = "report"
  /\ BindView(Committer)
  /\ B!ReportCreated(B!First(commit.left))

Proceed ==
  /\ at[Committer] = "idle" /\ UNCHANGED vars
  /\ \/ B!Unbound \/ B!Record \/ B!Return
     \/ commit.at = "report" /\ commit.left # {} /\ B!ReportRemoved(B!First(commit.left))

CommitStep ==
  \/ Detach \/ Detached \/ DriveNext \/ Attach \/ Attached \/ Proceed
  \/ (Lock(Committer) \/ Show(Committer)) /\ UNCHANGED backend

-----------------------------------------------------------------------------
(* The other threads *)

Others == Callers \ {Committer}

\* A surface is shown on the main thread, which may be the one in Apply.
MainIsFree == Committer = Main => commit.at = "idle"
ReceiverTurn ==
  /\ ReceiverStep /\ UNCHANGED backend
  /\ at[Receiver] = "show" /\ lease[Receiver] # NoLease => MainIsFree

OthersBegin(t) ==
  /\ spent.calls + Owed(commit) < MaxCalls
  /\ \/ \E p \in Panes, s \in Sidecars : BeginBind(t, p, s)
     \/ commit.at = "idle" /\ at[Committer] = "idle" /\ BeginClose(t)
  /\ UNCHANGED backend

OtherStep(t) == CallerStep(t) /\ UNCHANGED backend

-----------------------------------------------------------------------------
(* The specification *)

SystemRest == Quiet /\ commit.at = "idle" /\ UNCHANGED systemVars

SystemNext ==
  \/ BeginCommit \/ CommitStep
  \/ ReceiverTurn
  \/ \E t \in Others : OthersBegin(t) \/ OtherStep(t)
  \/ \E s \in Sidecars : Sidecar(s) /\ UNCHANGED backend
  \/ SystemRest

SystemSpec == SystemInit /\ [][SystemNext]_systemVars

\* Threads are scheduled, and Apply runs to its end once it is called.  Weak
\* fairness of the lock is enough where calls and messages are bounded: nobody
\* passes a waiter for ever.
FairSystemSpec == /\ SystemSpec
                  /\ WF_systemVars(CommitStep)
                  /\ WF_systemVars(ReceiverTurn)
                  /\ \A t \in Others : WF_systemVars(OtherStep(t))

-----------------------------------------------------------------------------
(* Properties *)

\* A view the receive thread may take a lease of is alive: Apply unbinds it,
\* under Channel.mu, before the driver releases it, whatever frame, ring or call
\* comes in between (backend.go:115-126, channel.go:138-160, 346-370).
LeasedFromTheLiving ==
  \A p \in Panes : pane[p].view # NoView => pane[p].view \in DOMAIN views

\* Between commits, messages and calls, the host view of every declared pane
\* shows the newest surface signaled for the pane, also when the view was
\* created anew after the frame came (backend.go:164-170, channel.go:138-150).
\* A failed commit may have left an owner without its view.
DeclaredPaneIsDrawn ==
  Idle /\ commit.at = "idle" /\ torn = {} =>
    \A i \in DOMAIN owners : LET p == owners[i].surface.pane IN
      p # 0 /\ <<pane[p].ring, pane[p].displayed>> \in Surfaces =>
        layer[owners[i].view] = <<pane[p].ring, pane[p].displayed>>

\* Apply returns, though it runs on the thread the receive thread shows on and
\* waits for the lock that thread takes (backend.go:112-206, channel.go:291-401).
CommitsReturn == commit.at # "idle" ~> commit.at = "idle"
=============================================================================
