------------------------------- MODULE Backend -------------------------------
(***************************************************************************)
(* The inventory of backend.go over its AppKit driver: a commit of the     *)
(* compositor brings every declared surface, Apply plans what to create,   *)
(* update and remove, unbinds the views that go, drives the operations in  *)
(* order, records the owners, then binds the new views and reports panes.  *)
(*                                                                         *)
(* A step is one call Apply makes: to the channel, the driver or the host. *)
(* A surface is as it was declared: its id, generation, pane (0 when its   *)
(* source names none), frame and layer.  A view is a number never used     *)
(* twice, so that a pointer to a released one stays recognisable.          *)
(***************************************************************************)
EXTENDS Integers, FiniteSets, Functions

CONSTANTS
  Panes,        \* numbers other than 0
  Declarable,   \* the surfaces the compositor may declare
  Heights,      \* heights the window's content may have
  NoView,       \* the view of a pane that has none
  MaxCommits,   \* bound: commits
  MaxViews,     \* bound: host views
  MaxFailures,  \* bound: host views the driver fails to create
  MaxResizes    \* bound: changes of the window's height

Frames == [y : Int, height : Int]

ASSUME PanesAssumption == Panes \subseteq Nat \ {0}
ASSUME DeclarableAssumption ==
  Declarable \subseteq [id : Nat, generation : Nat, pane : Panes \cup {0}, frame : Frames, layer : Int]
ASSUME HeightsAssumption == Heights \subseteq Nat /\ Heights # {}
ASSUME ViewAssumption == NoView \notin Nat \ {0}
ASSUME BoundsAssumption == {MaxCommits, MaxViews, MaxFailures, MaxResizes} \subseteq Nat

VARIABLES
  owners,     \* Backend.owners: the surface, life and view of each id held
  next,       \* Backend.nextLifecycleGeneration
  commit,     \* the Apply under way
  views,      \* AppKit: the hosts in the window, where they were placed
  height,     \* AppKit: the height of the window's content
  bound,      \* the channel: the view of each pane
  reported,   \* what the host was told: declarations that appeared and did not go
  newest,     \* what the host was told: the newest generation
  inventory,  \* history: what the last successful Apply was given
  torn,       \* history: ids a failed Apply had begun on
  spent       \* how much of each bound is used

backendVars == <<owners, next, commit>>
hostVars == <<reported, newest>>
vars == <<owners, next, commit, views, height, bound, reported, newest, inventory, torn, spent>>

-----------------------------------------------------------------------------
(* Surfaces, placement and operations *)

Ids == {d.id : d \in Declarable}
Handles == 1 .. MaxViews
Lives == 1 .. MaxViews

\* What a commit may bring: finitely many surfaces, an id declared once, and so
\* a pane.
Snapshots ==
  {s \in SUBSET Declarable :
     /\ IsFiniteSet(s)
     /\ \A a, b \in s : a # b => a.id # b.id /\ (a.pane # b.pane \/ a.pane = 0)}

\* Wrong: the conversion forgets the span of the frame.
PlaceRectFlat(frame, content) ==
  [y |-> content - frame.y, h |-> IF frame.height < 0 THEN 0 ELSE frame.height]

\* placeRect: from the top of the content to its bottom, without negative spans.
PlaceRect(frame, content) ==
  LET h == IF frame.height < 0 THEN 0 ELSE frame.height IN
  [y |-> content - frame.y - h, h |-> h]

Placements == [id : Ids, rect : [y : Int, h : Nat], content : Heights]
HostOf(d) == [id |-> d.id, rect |-> PlaceRect(d.frame, height), content |-> height]

Owners == [surface : Declarable, life : Lives, view : Handles]

Operations == [action : {"create", "update", "remove"}, surface : Declarable, absent : BOOLEAN,
               layer : Int, life : Lives \cup {0}, view : Handles \cup {NoView}]
Removal(i, absent, layer) ==
  [action |-> "remove", surface |-> owners[i].surface, absent |-> absent, layer |-> layer,
   life |-> owners[i].life, view |-> owners[i].view]
Creation(d) == [action |-> "create", surface |-> d, absent |-> FALSE, layer |-> d.layer,
                life |-> 0, view |-> NoView]
Update(d) == [action |-> "update", surface |-> d, absent |-> FALSE, layer |-> d.layer,
              life |-> 0, view |-> owners[d.id].view]

\* The order of a batch: by layer, then id, a removal before the creation in
\* its place; at the end what is absent, by id.
Precedes(a, b) ==
  \/ ~a.absent /\ b.absent
  \/ /\ a.absent = b.absent
     /\ \/ a.layer < b.layer
        \/ a.layer = b.layer /\ a.surface.id < b.surface.id
        \/ a.layer = b.layer /\ a.surface.id = b.surface.id /\ a.action = "remove" /\ b.action # "remove"
First(operations) ==
  CHOOSE op \in operations : \A other \in operations \ {op} : Precedes(op, other)

PlacementEqual(before, after) ==
  before.frame = after.frame /\ before.layer = after.layer /\ before.pane = after.pane

Held(d) == d.id \in DOMAIN owners

\* Wrong: a new generation is created beside the view of the old one.
PlanCreatingBeside(s) ==
  LET renewed == {d \in s : Held(d) /\ owners[d.id].surface.generation # d.generation}
      moved == {d \in s \ renewed : Held(d) /\ ~PlacementEqual(owners[d.id].surface, d)} IN
  {Creation(d) : d \in renewed \cup {e \in s : ~Held(e)}}
    \cup {Update(d) : d \in moved}
    \cup {Removal(i, TRUE, 0) : i \in DOMAIN owners \ {d.id : d \in s}}

\* planBatch
Plan(s) ==
  LET renewed == {d \in s : Held(d) /\ owners[d.id].surface.generation # d.generation}
      moved == {d \in s \ renewed : Held(d) /\ ~PlacementEqual(owners[d.id].surface, d)} IN
  {Removal(d.id, FALSE, d.layer) : d \in renewed}
    \cup {Creation(d) : d \in renewed \cup {e \in s : ~Held(e)}}
    \cup {Update(d) : d \in moved}
    \cup {Removal(i, TRUE, 0) : i \in DOMAIN owners \ {d.id : d \in s}}

\* A map with one more entry.
Put(map, key, value) == [k \in DOMAIN map \cup {key} |-> IF k = key THEN value ELSE map[k]]

Idle == [at |-> "idle", snapshot |-> {}, plan |-> {}, left |-> {}, made |-> <<>>]

TypeOK ==
  /\ \E ids \in SUBSET Ids : owners \in [ids -> Owners]
  /\ next \in Nat
  /\ commit.at \in {"idle", "unbind", "drive", "report", "crashed"}
  /\ commit.snapshot \in Snapshots
  /\ commit.plan \subseteq Operations /\ commit.left \subseteq commit.plan
  /\ \E ids \in SUBSET Ids : commit.made \in [ids -> Handles]
  /\ \E alive \in SUBSET Handles : views \in [alive -> Placements]
  /\ height \in Heights
  /\ bound \in [Panes -> Handles \cup {NoView}]
  /\ reported \subseteq [generation : Lives, pane : Panes]
  /\ newest \in Lives \cup {0}
  /\ inventory \in Snapshots
  /\ torn \subseteq Ids
  /\ spent \in [commits : 0 .. MaxCommits, views : 0 .. MaxViews,
                failures : 0 .. MaxFailures, resizes : 0 .. MaxResizes]

Init ==
  /\ owners = <<>> /\ next = 0 /\ commit = Idle
  /\ views = <<>>
  /\ height \in Heights
  /\ bound = [p \in Panes |-> NoView]
  /\ reported = {} /\ newest = 0
  /\ inventory = {} /\ torn = {}
  /\ spent = [commits |-> 0, views |-> 0, failures |-> 0, resizes |-> 0]

-----------------------------------------------------------------------------
(* Apply *)

Removals(plan) == {op \in plan : op.action = "remove"}
Naming(plan) == {op \in plan : op.surface.pane # 0}

Goto(point, left) == commit' = [commit EXCEPT !.at = point, !.left = left]
Doing(point, op) == /\ commit.at = point /\ commit.left # {} /\ op = First(commit.left)
                    /\ Goto(point, commit.left \ {op})

\* A commit that changes nothing only refreshes what is remembered, which is
\* then equal to what comes.
Commit(s) ==
  /\ commit.at = "idle"
  /\ spent.commits < MaxCommits
  /\ spent' = [spent EXCEPT !.commits = @ + 1]
  /\ LET plan == Plan(s) IN
       /\ spent.views + Cardinality({op \in plan : op.action = "create"}) <= MaxViews
       /\ IF plan = {}
          THEN inventory' = s /\ UNCHANGED commit
          ELSE /\ commit' = [Idle EXCEPT !.at = "unbind", !.snapshot = s, !.plan = plan,
                                         !.left = Naming(Removals(plan))]
               /\ UNCHANGED inventory
  /\ UNCHANGED <<owners, next, views, height, bound, hostVars, torn>>

\* Wrong: the view of a surface that is created anew stays bound.
UnbindAbsent(op) ==
  /\ Doing("unbind", op)
  /\ bound' = IF op.absent THEN [bound EXCEPT ![op.surface.pane] = NoView] ELSE bound
  /\ UNCHANGED <<owners, next, views, height, hostVars, inventory, torn, spent>>

\* Every view that is to go is unbound while the backend still retains it.
Unbind(op) ==
  /\ Doing("unbind", op)
  /\ bound' = [bound EXCEPT ![op.surface.pane] = NoView]
  /\ UNCHANGED <<owners, next, views, height, hostVars, inventory, torn, spent>>

Unbound ==
  /\ commit.at = "unbind" /\ commit.left = {}
  /\ Goto("drive", commit.plan)
  /\ UNCHANGED <<owners, next, views, height, bound, hostVars, inventory, torn, spent>>

DriveCreate(op) ==
  LET v == spent.views + 1 IN
  /\ op.action = "create"
  /\ commit.at = "drive" /\ commit.left # {} /\ op = First(commit.left)
  /\ commit' = [commit EXCEPT !.left = @ \ {op}, !.made = Put(@, op.surface.id, v)]
  /\ views' = Put(views, v, HostOf(op.surface))
  /\ spent' = [spent EXCEPT !.views = v]
  /\ UNCHANGED <<owners, next, height, bound, hostVars, inventory, torn>>

\* No window, no content or no view: Apply returns the error as things stand.
CreateFails(op) ==
  /\ op.action = "create" /\ spent.failures < MaxFailures
  /\ commit.at = "drive" /\ commit.left # {} /\ op = First(commit.left)
  /\ commit' = Idle
  /\ torn' = torn \cup {o.surface.id : o \in (commit.plan \ commit.left) \cup Removals(commit.plan)}
  /\ spent' = [spent EXCEPT !.failures = @ + 1]
  /\ UNCHANGED <<owners, next, views, height, bound, hostVars, inventory>>

DriveUpdate(op) ==
  /\ op.action = "update" /\ op.view \in DOMAIN views
  /\ Doing("drive", op)
  /\ views' = [views EXCEPT ![op.view] = HostOf(op.surface)]
  /\ UNCHANGED <<owners, next, height, bound, hostVars, inventory, torn, spent>>

DriveRemove(op) ==
  /\ op.action = "remove" /\ op.view \in DOMAIN views
  /\ Doing("drive", op)
  /\ views' = Restrict(views, DOMAIN views \ {op.view})
  /\ UNCHANGED <<owners, next, height, bound, hostVars, inventory, torn, spent>>

\* A view released before is placed or released again: whatever happens, no
\* promise is left.
Crash(op) ==
  /\ op.action \in {"update", "remove"} /\ op.view \notin DOMAIN views
  /\ commit.at = "drive" /\ commit.left # {} /\ op = First(commit.left)
  /\ commit' = [commit EXCEPT !.at = "crashed"]
  /\ UNCHANGED <<owners, next, views, height, bound, hostVars, inventory, torn, spent>>

Ranked(creations, op) == Cardinality({c \in creations : c = op \/ Precedes(c, op)})

\* Wrong: what is recorded is the view of the operation, not of its result.
OwnerBeforeDriver(op, creations) ==
  [surface |-> op.surface, view |-> op.view,
   life |-> IF op.action = "create" THEN next + Ranked(creations, op)
            ELSE owners[op.surface.id].life]

\* Wrong: the creations of one batch share a lifecycle generation.
OwnerSharing(op, creations) ==
  IF op.action = "create"
  THEN [surface |-> op.surface, life |-> next + 1, view |-> commit.made[op.surface.id]]
  ELSE [surface |-> op.surface, life |-> owners[op.surface.id].life, view |-> op.view]

\* A creation gets the next lifecycle generation, in the order of the batch; an
\* update keeps the one it has.
Owner(op, creations) ==
  IF op.action = "create"
  THEN [surface |-> op.surface, life |-> next + Ranked(creations, op),
        view |-> commit.made[op.surface.id]]
  ELSE [surface |-> op.surface, life |-> owners[op.surface.id].life, view |-> op.view]

\* Wrong: the owners of what was removed are kept.
DroppedNever(plan) == {}

\* The ids whose owners go with the batch.
Dropped(plan) == {op.surface.id : op \in Removals(plan)}

Record ==
  LET results == commit.plan \ Removals(commit.plan)
      creations == {op \in results : op.action = "create"}
      of(i) == {op \in results : op.surface.id = i} IN
  /\ commit.at = "drive" /\ commit.left = {}
  /\ owners' = [i \in (DOMAIN owners \ Dropped(commit.plan)) \cup {op.surface.id : op \in results} |->
                 IF of(i) = {} THEN owners[i] ELSE Owner(CHOOSE op \in of(i) : TRUE, creations)]
  /\ next' = next + Cardinality(creations)
  /\ commit' = [commit EXCEPT !.at = "report",
                              !.left = {op \in Naming(commit.plan) : op.action # "update"}]
  /\ UNCHANGED <<views, height, bound, hostVars, inventory, torn, spent>>

\* Wrong: the new view is not handed to the channel.
ReportUnbound(op) ==
  LET d == [generation |-> owners[op.surface.id].life, pane |-> op.surface.pane] IN
  /\ op.action = "create"
  /\ Doing("report", op)
  /\ reported' = reported \cup {d} /\ newest' = d.generation
  /\ UNCHANGED <<owners, next, views, height, bound, inventory, torn, spent>>

\* A pane's new view is bound, then the host told.
ReportCreated(op) ==
  LET owner == owners[op.surface.id]  p == op.surface.pane IN
  /\ op.action = "create"
  /\ Doing("report", op)
  /\ bound' = [bound EXCEPT ![p] = owner.view]
  /\ reported' = reported \cup {[generation |-> owner.life, pane |-> p]}
  /\ newest' = owner.life
  /\ UNCHANGED <<owners, next, views, height, inventory, torn, spent>>

\* Wrong: what was created anew is not reported to go.
ReportRemovedAbsent(op) ==
  /\ op.action = "remove"
  /\ Doing("report", op)
  /\ reported' = IF op.absent THEN reported \ {[generation |-> op.life, pane |-> op.surface.pane]}
                 ELSE reported
  /\ UNCHANGED <<owners, next, views, height, bound, newest, inventory, torn, spent>>

ReportRemoved(op) ==
  /\ op.action = "remove"
  /\ Doing("report", op)
  /\ reported' = reported \ {[generation |-> op.life, pane |-> op.surface.pane]}
  /\ UNCHANGED <<owners, next, views, height, bound, newest, inventory, torn, spent>>

Return ==
  /\ commit.at = "report" /\ commit.left = {}
  /\ inventory' = commit.snapshot
  /\ commit' = Idle
  /\ UNCHANGED <<owners, next, views, height, bound, hostVars, torn, spent>>

\* The user makes the window taller or shorter between two commits.  The hosts
\* keep their distance from its bottom: they are not sizable.
Resize(h) ==
  /\ commit.at = "idle" /\ h # height /\ spent.resizes < MaxResizes
  /\ height' = h
  /\ spent' = [spent EXCEPT !.resizes = @ + 1]
  /\ UNCHANGED <<owners, next, commit, views, bound, hostVars, inventory, torn>>

-----------------------------------------------------------------------------
(* The specification *)

Drive(op) == DriveCreate(op) \/ CreateFails(op) \/ DriveUpdate(op) \/ DriveRemove(op) \/ Crash(op)
Report(op) == ReportCreated(op) \/ ReportRemoved(op)

Apply == \/ \E op \in commit.left : Unbind(op) \/ Drive(op) \/ Report(op)
         \/ Unbound \/ Record \/ Return

\* Between commits, and after a crash, nothing needs to happen.
Rest == commit.at \in {"idle", "crashed"} /\ UNCHANGED vars

Next == \/ \E s \in Snapshots : Commit(s)
        \/ Apply
        \/ \E h \in Heights : Resize(h)
        \/ Rest

Spec == Init /\ [][Next]_vars

-----------------------------------------------------------------------------
(* Safety *)

AtRest == commit.at = "idle"

\* Where a declaration wants its host, measured from the top of the content.
AsDeclared(host, content, frame) ==
  /\ host.rect.h = IF frame.height > 0 THEN frame.height ELSE 0
  /\ content - (host.rect.y + host.rect.h) = frame.y

\* After every commit the owners are what was declared, each over a living view
\* placed as declared in the window as it then was; committing the same again
\* would change nothing.  Excepted is what a failed commit had begun on
\* (backend.go:109-206, 306-367, place.go:9-19).
InventoryApplied ==
  AtRest =>
    /\ \A d \in inventory : d.id \in torn \/
         /\ Held(d) /\ owners[d.id].surface = d
         /\ owners[d.id].view \in DOMAIN views
         /\ LET host == views[owners[d.id].view] IN AsDeclared(host, host.content, d.frame)
    /\ DOMAIN owners \subseteq {d.id : d \in inventory} \cup torn

\* One host view per declared surface: none is left in the window without its
\* owner, and no two surfaces share one (README.md:5, backend.go:127-158).
OneViewPerSurface ==
  AtRest => \A v \in DOMAIN views :
    views[v].id \in torn \/ {i \in DOMAIN owners : owners[i].view = v} = {views[v].id}

\* The channel never borrows a view that has been released, at any step of a
\* commit and whatever the driver fails to do (backend.go:115-117).
BoundViewsAreAlive == \A p \in Panes : bound[p] # NoView => bound[p] \in DOMAIN views

\* Between commits every pane with an owner has that owner's view bound, and a
\* pane without one has none (backend.go:118-125, 164-170).
EveryPaneHasItsView ==
  AtRest /\ torn = {} =>
    \A p \in Panes : LET naming == {i \in DOMAIN owners : owners[i].surface.pane = p} IN
      IF naming = {} THEN bound[p] = NoView
      ELSE \E i \in naming : bound[p] = owners[i].view

\* Between commits the host has been told exactly of the panes that are owned,
\* under their lifecycle generations: no session is opened twice, forgotten or
\* kept for a pane that went (backend.go:171-184).
ReportsMatchOwners ==
  AtRest => reported = {[generation |-> owners[i].life, pane |-> owners[i].surface.pane] :
                          i \in {j \in DOMAIN owners : owners[j].surface.pane # 0}}

\* A released view reaches the driver again only after a commit failed half way
\* (backend.go:127-130).
CrashOnlyAfterFailure == commit.at = "crashed" => torn # {}

\* After a commit every host is where its surface is declared in the window as
\* it is now (README.md:53).
HostsAtDeclaredFrame ==
  [][commit.at # "idle" /\ AtRest' /\ torn' = {} =>
       \A d \in inventory' : AsDeclared(views'[owners'[d.id].view], height', d.frame)]_vars

-----------------------------------------------------------------------------
(* What the host is promised *)

Promise == INSTANCE Declarations WITH last <- newest, live <- reported, Generations <- Lives

\* Reports come in the order ObservePanes promises (backend.go:96-101, 137-148).
ReportsInOrder == Promise!Spec
=============================================================================
