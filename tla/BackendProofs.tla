---------------------------- MODULE BackendProofs ----------------------------
(***************************************************************************)
(* Theorems about Backend, for any surfaces, panes, heights and bounds.    *)
(***************************************************************************)
EXTENDS Backend, FiniteSetTheorems, TLAPS

-----------------------------------------------------------------------------
(* The operations of a plan *)

Creations(operations) == {op \in operations : op.action = "create"}

Renewed(d) == Held(d) /\ owners[d.id].surface.generation # d.generation
Moved(d) == /\ Held(d) /\ owners[d.id].surface.generation = d.generation
            /\ ~PlacementEqual(owners[d.id].surface, d)

Creating(s, op) == \E d \in s : (Renewed(d) \/ ~Held(d)) /\ op = Creation(d)
Moving(s, op) == \E d \in s : Moved(d) /\ op = Update(d)
Replacing(s, op) == \E d \in s : Renewed(d) /\ op = Removal(d.id, FALSE, d.layer)
Dropping(s, op) ==
  \E i \in DOMAIN owners : (\A d \in s : d.id # i) /\ op = Removal(i, TRUE, 0)

LEMMA PlanElements ==
  ASSUME NEW s, NEW op
  PROVE  op \in Plan(s) <=> Creating(s, op) \/ Moving(s, op) \/ Replacing(s, op) \/ Dropping(s, op)
  BY DEF Plan, Creating, Moving, Replacing, Dropping, Renewed, Moved

\* What Apply remembers of a surface.
OwnersTyped ==
  /\ DOMAIN owners \subseteq Ids /\ IsFiniteSet(DOMAIN owners)
  /\ owners \in [DOMAIN owners -> Owners]
  /\ \A i \in DOMAIN owners : owners[i].surface.id = i

\* What the operations of a plan are about, by their kind.
LEMMA PlanFields ==
  ASSUME OwnersTyped, NEW s \in Snapshots, NEW op \in Plan(s)
  PROVE  /\ op \in Operations
         /\ op.action = "create" =>
              /\ op.surface \in s /\ op = Creation(op.surface)
              /\ Renewed(op.surface) \/ ~Held(op.surface)
         /\ op.action = "update" =>
              op.surface \in s /\ op = Update(op.surface) /\ Moved(op.surface)
         /\ op.action = "remove" =>
              /\ op.surface.id \in DOMAIN owners
              /\ op = Removal(op.surface.id, op.absent, op.layer)
              /\ IF op.absent THEN op.layer = 0 /\ \A d \in s : d.id # op.surface.id
                 ELSE \E d \in s : d.id = op.surface.id /\ Renewed(d) /\ op.layer = d.layer
  <1>1. s \subseteq Declarable
    BY DEF Snapshots
  <1>2. \A i \in DOMAIN owners :
          /\ owners[i].surface \in Declarable /\ owners[i].life \in Lives
          /\ owners[i].view \in Handles /\ owners[i].surface.id = i
    BY DEF OwnersTyped, Owners
  <1>3. \A d \in Declarable : d.layer \in Int
    BY DeclarableAssumption
  <1>4. CASE Creating(s, op)
    BY <1>1, <1>3, <1>4 DEF Creating, Creation, Operations
  <1>5. CASE Moving(s, op)
    BY <1>1, <1>2, <1>3, <1>5 DEF Moving, Update, Operations, Moved, Held
  <1>6. CASE Replacing(s, op)
    <2>1. PICK d \in s : Renewed(d) /\ op = Removal(d.id, FALSE, d.layer)
      BY <1>6 DEF Replacing
    <2>2. d.id \in DOMAIN owners /\ op.surface = owners[d.id].surface /\ op.surface.id = d.id
      BY <1>2, <2>1 DEF Renewed, Held, Removal
    <2>3. op.action = "remove" /\ op.absent = FALSE /\ op.layer = d.layer
      BY <2>1 DEF Removal
    <2>4. op \in Operations
      BY <1>1, <1>2, <1>3, <2>1, <2>2 DEF Removal, Operations
    <2>. QED BY <2>1, <2>2, <2>3, <2>4
  <1>7. CASE Dropping(s, op)
    <2>1. PICK i \in DOMAIN owners : (\A d \in s : d.id # i) /\ op = Removal(i, TRUE, 0)
      BY <1>7 DEF Dropping
    <2>2. op.surface = owners[i].surface /\ op.surface.id = i
      BY <1>2, <2>1 DEF Removal
    <2>3. op.action = "remove" /\ op.absent = TRUE /\ op.layer = 0
      BY <2>1 DEF Removal
    <2>4. op \in Operations
      BY <1>2, <2>1 DEF Removal, Operations
    <2>. QED BY <2>1, <2>2, <2>3, <2>4
  <1>. QED BY <1>4, <1>5, <1>6, <1>7, PlanElements

LEMMA PlanFinite ==
  ASSUME OwnersTyped, NEW s \in Snapshots
  PROVE  IsFiniteSet(Plan(s))
  <1>1. IsFiniteSet(s)
    BY DEF Snapshots
  <1> DEFINE renewed == {d \in s : Held(d) /\ owners[d.id].surface.generation # d.generation}
             moved == {d \in s \ renewed : Held(d) /\ ~PlacementEqual(owners[d.id].surface, d)}
             new == renewed \cup {e \in s : ~Held(e)}
             absent == DOMAIN owners \ {d.id : d \in s}
             fr == [d \in renewed |-> Removal(d.id, FALSE, d.layer)]
             fc == [d \in new |-> Creation(d)]
             fu == [d \in moved |-> Update(d)]
             fa == [i \in absent |-> Removal(i, TRUE, 0)]
  <1>2. IsFiniteSet(renewed) /\ IsFiniteSet(moved) /\ IsFiniteSet(new) /\ IsFiniteSet(absent)
    <2>1. renewed \in SUBSET s /\ moved \in SUBSET s /\ new \in SUBSET s
          /\ absent \in SUBSET (DOMAIN owners)
      OBVIOUS
    <2> HIDE DEF renewed, moved, new, absent
    <2>2. IsFiniteSet(DOMAIN owners)
      BY DEF OwnersTyped
    <2>. QED BY <1>1, <2>1, <2>2, FS_Subset
  <1>3. ASSUME NEW f, NEW S, f = [x \in S |-> f[x]], IsFiniteSet(S)
        PROVE  IsFiniteSet({f[x] : x \in S})
    <2>1. f \in Surjection(S, {f[x] : x \in S})
      BY <1>3 DEF Surjection
    <2>. QED BY <1>3, <2>1, FS_Surjection
  <1>4. /\ IsFiniteSet({fr[d] : d \in renewed}) /\ IsFiniteSet({fc[d] : d \in new})
        /\ IsFiniteSet({fu[d] : d \in moved}) /\ IsFiniteSet({fa[i] : i \in absent})
    BY <1>2, <1>3
  <1>5. Plan(s) = {fr[d] : d \in renewed} \cup {fc[d] : d \in new} \cup {fu[d] : d \in moved}
                    \cup {fa[i] : i \in absent}
    BY DEF Plan
  <1> DEFINE A == {fr[d] : d \in renewed}  B == {fc[d] : d \in new}
             C == {fu[d] : d \in moved}  D == {fa[i] : i \in absent}
  <1>6. Plan(s) = ((A \cup B) \cup C) \cup D
    BY <1>5
  <1> HIDE DEF A, B, C, D
  <1>7. IsFiniteSet(A) /\ IsFiniteSet(B) /\ IsFiniteSet(C) /\ IsFiniteSet(D)
    BY <1>4 DEF A, B, C, D
  <1>. QED BY <1>6, <1>7, FS_Union

\* A plan has one operation of a kind for a surface, two only to replace it.
LEMMA PlanSingle ==
  ASSUME OwnersTyped, NEW s \in Snapshots, NEW a \in Plan(s), NEW b \in Plan(s),
         a.surface.id = b.surface.id
  PROVE  /\ a.action = b.action => a = b
         /\ a.action = "create" => b.action # "update"
         /\ a.action = "remove" => b.action # "update"
  <1>1. \A d, e \in s : d.id = e.id => d = e
    BY DEF Snapshots
  <1>2. \A d \in s : ~(Moved(d) /\ (Renewed(d) \/ ~Held(d)))
    BY DEF Moved, Renewed
  <1>3. ASSUME NEW op \in Plan(s) PROVE op.action \in {"create", "update", "remove"}
    BY <1>3, PlanFields DEF Operations
  <1>4. CASE a.action = "create" /\ b.action \in {"create", "update"}
    BY <1>1, <1>2, <1>4, PlanFields
  <1>5. CASE a.action = "update" /\ b.action = "update"
    BY <1>1, <1>5, PlanFields
  <1>6. CASE a.action = "remove" /\ b.action = "remove"
    <2> DEFINE i == a.surface.id
    <2>1. /\ a = Removal(i, a.absent, a.layer) /\ b = Removal(i, b.absent, b.layer)
          /\ a.absent \in BOOLEAN /\ b.absent \in BOOLEAN
      BY <1>6, PlanFields DEF Operations
    <2>2. a.absent = b.absent /\ a.layer = b.layer
      BY <1>1, <1>6, <2>1, PlanFields
    <2>. QED BY <1>6, <2>1, <2>2
  <1>7. CASE a.action = "remove" /\ b.action = "update"
    <2>1. ~a.absent /\ Moved(b.surface)
      BY <1>7, PlanFields
    <2>. QED BY <1>1, <1>2, <1>7, <2>1, PlanFields
  <1>8. CASE a.action = "update"
    BY <1>3, <1>5, <1>8
  <1>9. CASE a.action = "create" /\ b.action = "remove"
    BY <1>9
  <1>10. CASE a.action = "remove" /\ b.action = "create"
    BY <1>10
  <1>. QED BY <1>3, <1>4, <1>6, <1>7, <1>8, <1>9, <1>10

-----------------------------------------------------------------------------
(* The order of a batch *)

LEMMA PrecedesOrder ==
  ASSUME NEW a \in Operations, NEW b \in Operations, NEW c \in Operations
  PROVE  /\ ~Precedes(a, a)
         /\ Precedes(a, b) /\ Precedes(b, c) => Precedes(a, c)
  <1>1. /\ a.layer \in Int /\ b.layer \in Int /\ c.layer \in Int
        /\ a.surface.id \in Int /\ b.surface.id \in Int /\ c.surface.id \in Int
        /\ a.absent \in BOOLEAN /\ b.absent \in BOOLEAN /\ c.absent \in BOOLEAN
    BY DeclarableAssumption DEF Operations
  <1>. QED BY <1>1 DEF Precedes

LEMMA PlanOrdered ==
  ASSUME OwnersTyped, NEW s \in Snapshots, NEW a \in Plan(s), NEW b \in Plan(s), a # b
  PROVE  Precedes(a, b) \/ Precedes(b, a)
  <1>1. a \in Operations /\ b \in Operations
    BY PlanFields
  <1>2. /\ a.layer \in Int /\ b.layer \in Int
        /\ a.surface.id \in Int /\ b.surface.id \in Int
        /\ a.absent \in BOOLEAN /\ b.absent \in BOOLEAN
        /\ a.action \in {"create", "update", "remove"} /\ b.action \in {"create", "update", "remove"}
    BY <1>1, DeclarableAssumption DEF Operations
  <1>3. a.absent => a.action = "remove" /\ a.layer = 0
    BY <1>2, PlanFields DEF Creation, Update
  <1>4. b.absent => b.action = "remove" /\ b.layer = 0
    BY <1>2, PlanFields DEF Creation, Update
  <1>5. a.surface.id = b.surface.id => a.action # b.action /\ "remove" \in {a.action, b.action}
    BY <1>2, PlanSingle
  <1>. QED BY <1>2, <1>3, <1>4, <1>5 DEF Precedes

\* Finitely many operations, one before the other, have a first.
LEMMA FirstIsFirst ==
  ASSUME NEW operations, IsFiniteSet(operations), operations # {},
         \A a, b, c \in operations :
           /\ ~Precedes(a, a) /\ (a # b => Precedes(a, b) \/ Precedes(b, a))
           /\ Precedes(a, b) /\ Precedes(b, c) => Precedes(a, c)
  PROVE  /\ First(operations) \in operations
         /\ \A other \in operations \ {First(operations)} : Precedes(First(operations), other)
  <1> DEFINE Before(a) == {c \in operations : Precedes(c, a)}
             Less == StrictSubsetOrdering(operations)
             all == {Before(a) : a \in operations}
  <1>1. IsWellFoundedOn(Less, FiniteSubsetsOf(operations))
    BY FS_StrictSubsetOrderingWellFounded
  <1>2. all \subseteq FiniteSubsetsOf(operations) /\ all # {}
    <2>1. FiniteSubsetsOf(operations) = SUBSET operations
      BY FS_FiniteSubsetsOfFinite
    <2>2. all \subseteq SUBSET operations
      OBVIOUS
    <2>3. all # {}
      <3> HIDE DEF Before
      <3>1. PICK a \in operations : TRUE
        OBVIOUS
      <3>2. Before(a) \in all
        OBVIOUS
      <3>. QED BY <3>2
    <2> HIDE DEF all
    <2>. QED BY <2>1, <2>2, <2>3
  <1>3. PICK least \in all : \A set \in all : <<set, least>> \notin Less
    <2> HIDE DEF all, Less
    <2>. QED BY <1>1, <1>2, WFMin
  <1>4. PICK a \in operations : least = Before(a)
    OBVIOUS
  <1>5. ASSUME NEW b \in operations, Precedes(b, a) PROVE FALSE
    <2>1. Before(b) \subseteq Before(a) /\ b \in Before(a) /\ b \notin Before(b)
      BY <1>5
    <2>2. <<Before(b), Before(a)>> \in Less
      BY <2>1 DEF StrictSubsetOrdering
    <2>. QED BY <1>3, <1>4, <2>2
  <1>6. \A other \in operations \ {a} : Precedes(a, other)
    BY <1>5
  <1>. QED BY <1>6 DEF First

\* A creation is ranked above those before it, and within their number.
LEMMA RankedInOrder ==
  ASSUME NEW creations, IsFiniteSet(creations), NEW a \in creations,
         \A b \in creations : ~Precedes(b, b),
         \A b, c, d \in creations : Precedes(b, c) /\ Precedes(c, d) => Precedes(b, d)
  PROVE  /\ Ranked(creations, a) \in 1 .. Cardinality(creations)
         /\ \A b \in creations : Precedes(a, b) => Ranked(creations, a) < Ranked(creations, b)
  <1> DEFINE Upto(b) == {c \in creations : c = b \/ Precedes(c, b)}
  <1>1. ASSUME NEW b \in creations
        PROVE  /\ IsFiniteSet(Upto(b)) /\ Cardinality(Upto(b)) \in Nat
               /\ Cardinality(Upto(b)) <= Cardinality(creations)
               /\ Ranked(creations, b) = Cardinality(Upto(b))
    <2>1. Upto(b) \in SUBSET creations
      OBVIOUS
    <2>2. IsFiniteSet(Upto(b)) /\ Cardinality(Upto(b)) <= Cardinality(creations)
      <3> HIDE DEF Upto
      <3>. QED BY <2>1, FS_Subset
    <2>. QED BY <2>2, FS_CardinalityType DEF Ranked
  <1>2. Cardinality(Upto(a)) # 0
    <2>1. a \in Upto(a)
      OBVIOUS
    <2>. QED BY <1>1, <2>1, FS_EmptySet
  <1>3. ASSUME NEW b \in creations, Precedes(a, b)
        PROVE  Cardinality(Upto(a)) < Cardinality(Upto(b))
    <2>1. Upto(a) \in SUBSET Upto(b) /\ b \in Upto(b) /\ b \notin Upto(a)
      BY <1>3
    <2>2. Cardinality(Upto(a)) <= Cardinality(Upto(b)) /\ Cardinality(Upto(a)) # Cardinality(Upto(b))
      <3>1. IsFiniteSet(Upto(b))
        BY <1>1
      <3> HIDE DEF Upto
      <3>. QED BY <2>1, <3>1, FS_Subset
    <2>3. Cardinality(Upto(a)) \in Nat /\ Cardinality(Upto(b)) \in Nat
      BY <1>1
    <2> HIDE DEF Upto
    <2>. QED BY <2>2, <2>3
  <1>4. Cardinality(creations) \in Nat
    BY FS_CardinalityType
  <1> HIDE DEF Upto
  <1>. QED BY <1>1, <1>2, <1>3, <1>4

-----------------------------------------------------------------------------
(* Types *)

CommitShape ==
  commit = [at |-> commit.at, snapshot |-> commit.snapshot, plan |-> commit.plan,
            left |-> commit.left, made |-> commit.made]

CommitTyped ==
  /\ CommitShape
  /\ commit.at \in {"idle", "unbind", "drive", "report", "crashed"}
  /\ commit.snapshot \in Snapshots
  /\ commit.plan \subseteq Operations /\ IsFiniteSet(commit.plan) /\ commit.left \subseteq commit.plan
  /\ DOMAIN commit.made \subseteq Ids /\ commit.made \in [DOMAIN commit.made -> Handles]

SpentTyped ==
  spent \in [commits : 0 .. MaxCommits, views : 0 .. MaxViews,
             failures : 0 .. MaxFailures, resizes : 0 .. MaxResizes]

ViewsTyped ==
  DOMAIN views \subseteq 1 .. spent.views /\ views \in [DOMAIN views -> Placements]

HostTyped ==
  /\ bound \in [Panes -> Handles \cup {NoView}]
  /\ reported \subseteq [generation : Lives, pane : Panes]
  /\ newest \in Lives \cup {0}

HistoryTyped == inventory \in Snapshots /\ torn \subseteq Ids

\* What is known of the batch at each point of Apply: the plan is that of the
\* snapshot until its owners are recorded, what is made is what the driver has
\* created, and there are views enough for the rest.
Batch ==
  /\ next <= spent.views
  /\ commit.at \in {"unbind", "drive"} => commit.plan = Plan(commit.snapshot)
  /\ commit.at = "unbind" =>
       /\ DOMAIN commit.made = {} /\ commit.left \subseteq Naming(Removals(commit.plan))
       /\ spent.views + Cardinality(Creations(commit.plan)) <= MaxViews
  /\ commit.at = "drive" =>
       /\ DOMAIN commit.made = {op.surface.id : op \in Creations(commit.plan \ commit.left)}
       /\ spent.views + Cardinality(Creations(commit.left)) <= MaxViews
       /\ next + Cardinality(Creations(commit.plan)) <=
            spent.views + Cardinality(Creations(commit.left))
  /\ commit.at = "report" =>
       \A op \in commit.left :
         /\ op.surface.pane # 0 /\ op.action # "update"
         /\ op.action = "create" => Held(op.surface) /\ owners[op.surface.id].surface = op.surface

\* The inductive invariant behind TypeOK.
Typing ==
  /\ OwnersTyped /\ next \in Nat
  /\ CommitTyped /\ SpentTyped /\ ViewsTyped /\ height \in Heights
  /\ HostTyped /\ HistoryTyped
  /\ Batch

LEMMA TypingIsTypeOK == Typing => TypeOK
  <1> SUFFICES ASSUME Typing PROVE TypeOK
    OBVIOUS
  <1>1. \E ids \in SUBSET Ids : owners \in [ids -> Owners]
    BY DEF Typing, OwnersTyped
  <1>2. \E ids \in SUBSET Ids : commit.made \in [ids -> Handles]
    BY DEF Typing, CommitTyped
  <1>3. \E alive \in SUBSET Handles : views \in [alive -> Placements]
    <2>1. DOMAIN views \in SUBSET Handles
      BY BoundsAssumption DEF Typing, ViewsTyped, SpentTyped, Handles
    <2>. QED BY <2>1 DEF Typing, ViewsTyped
  <1>. QED BY <1>1, <1>2, <1>3
           DEF Typing, TypeOK, CommitTyped, SpentTyped, HostTyped, HistoryTyped

LEMMA NothingDeclared == {} \in Snapshots /\ IsFiniteSet({})
  BY FS_EmptySet DEF Snapshots

LEMMA InitTyping == Init => Typing
  <1> SUFFICES ASSUME Init PROVE Typing
    OBVIOUS
  <1>1. DOMAIN owners = {} /\ DOMAIN views = {} /\ DOMAIN commit.made = {}
    BY DEF Init, Idle
  <1>2. OwnersTyped
    BY <1>1, NothingDeclared DEF Init, OwnersTyped
  <1>3. CommitTyped
    BY <1>1, NothingDeclared DEF Init, Idle, CommitTyped, CommitShape
  <1>4. SpentTyped /\ next \in Nat /\ height \in Heights
    BY BoundsAssumption DEF Init, SpentTyped
  <1>5. ViewsTyped
    BY <1>1 DEF Init, ViewsTyped
  <1>6. HostTyped /\ HistoryTyped
    BY NothingDeclared DEF Init, HostTyped, HistoryTyped
  <1>7. Batch
    BY DEF Init, Batch, Idle
  <1>. QED BY <1>2, <1>3, <1>4, <1>5, <1>6, <1>7 DEF Typing

-----------------------------------------------------------------------------
(* What the steps of Apply do *)

\* Apply goes on with its batch.
GoesOn(point, left) ==
  /\ CommitShape' /\ commit'.at = point /\ commit'.left = left
  /\ commit'.snapshot = commit.snapshot /\ commit'.plan = commit.plan

LEMMA GotoStep ==
  ASSUME CommitTyped, NEW point, NEW left, Goto(point, left)
  PROVE  GoesOn(point, left) /\ commit'.made = commit.made
  BY DEF CommitTyped, CommitShape, Goto, GoesOn

LEMMA DriveCreateStep ==
  ASSUME CommitTyped, SpentTyped, ViewsTyped, NEW op, DriveCreate(op)
  PROVE  LET v == spent.views + 1  made == commit.made IN
         /\ op.action = "create" /\ commit.at = "drive" /\ op = First(commit.left)
         /\ GoesOn("drive", commit.left \ {op})
         /\ DOMAIN commit'.made = DOMAIN made \cup {op.surface.id}
         /\ commit'.made = [i \in DOMAIN made \cup {op.surface.id} |->
                              IF i = op.surface.id THEN v ELSE made[i]]
         /\ DOMAIN views' = DOMAIN views \cup {v}
         /\ views' = [w \in DOMAIN views \cup {v} |->
                       IF w = v THEN HostOf(op.surface) ELSE views[w]]
         /\ spent' = [spent EXCEPT !.views = v] /\ spent'.views = v
         /\ UNCHANGED <<owners, next, height, bound, reported, newest, inventory, torn>>
  BY DEF CommitTyped, CommitShape, SpentTyped, DriveCreate, GoesOn, Put, hostVars

\* The plan of a snapshot tells of each of its surfaces: created, moved, or left
\* as it is.
Kept(d) == Held(d) /\ ~Renewed(d) /\ ~Moved(d)

LEMMA KeptIsEqual ==
  ASSUME NEW d, Kept(d)
  PROVE  owners[d.id].surface.generation = d.generation /\ PlacementEqual(owners[d.id].surface, d)
  BY DEF Kept, Renewed, Moved

\* What Apply records once the driver is done, without the choice of the code.
Recorded(d, owner) ==
  \/ /\ Renewed(d) \/ ~Held(d)
     /\ owner = [surface |-> d, life |-> next + Ranked(Creations(commit.plan), Creation(d)),
                 view |-> commit.made[d.id]]
  \/ Moved(d) /\ owner = [surface |-> d, life |-> owners[d.id].life, view |-> owners[d.id].view]
  \/ Kept(d) /\ owner = owners[d.id]

LEMMA RecordStep ==
  ASSUME Typing, Record
  PROVE  /\ DOMAIN owners' = {d.id : d \in commit.snapshot}
         /\ owners' = [i \in DOMAIN owners' |-> owners'[i]]
         /\ \A d \in commit.snapshot : Recorded(d, owners'[d.id])
         /\ next' = next + Cardinality(Creations(commit.plan))
         /\ commit.at = "drive" /\ commit.left = {}
         /\ GoesOn("report", {op \in Naming(commit.plan) : op.action # "update"})
         /\ commit'.made = commit.made
         /\ UNCHANGED <<views, height, bound, reported, newest, inventory, torn, spent>>
  <1> DEFINE s == commit.snapshot
             results == commit.plan \ Removals(commit.plan)
             of(i) == {op \in results : op.surface.id = i}
             ids == (DOMAIN owners \ Dropped(commit.plan)) \cup {op.surface.id : op \in results}
  <1>1. /\ OwnersTyped /\ s \in Snapshots /\ commit.plan = Plan(s)
        /\ \A d, e \in s : d.id = e.id => d = e
        /\ CommitTyped
    BY DEF Typing, CommitTyped, Batch, Record, Snapshots
  <1>2. {op \in results : op.action = "create"} = Creations(commit.plan)
    BY DEF Creations, Removals
  <1>3. /\ owners' = [i \in ids |-> IF of(i) = {} THEN owners[i]
                                   ELSE Owner(CHOOSE op \in of(i) : TRUE, Creations(commit.plan))]
        /\ next' = next + Cardinality(Creations(commit.plan))
        /\ commit.at = "drive" /\ commit.left = {}
        /\ commit' = [commit EXCEPT !.at = "report",
                                    !.left = {op \in Naming(commit.plan) : op.action # "update"}]
        /\ UNCHANGED <<views, height, bound, reported, newest, inventory, torn, spent>>
    <2> DEFINE creations == {op \in results : op.action = "create"}
    <2>1. /\ owners' = [i \in ids |-> IF of(i) = {} THEN owners[i]
                                     ELSE Owner(CHOOSE op \in of(i) : TRUE, creations)]
          /\ next' = next + Cardinality(creations)
      BY DEF Record
    <2>2. creations = Creations(commit.plan)
      BY <1>2
    <2> HIDE DEF creations, ids, of
    <2>3. /\ commit.at = "drive" /\ commit.left = {}
          /\ commit' = [commit EXCEPT !.at = "report",
                                      !.left = {op \in Naming(commit.plan) : op.action # "update"}]
          /\ UNCHANGED <<views, height, bound, reported, newest, inventory, torn, spent>>
      BY DEF Record, hostVars
    <2>. QED BY <2>1, <2>2, <2>3
  <1>4. /\ GoesOn("report", {op \in Naming(commit.plan) : op.action # "update"})
        /\ commit'.made = commit.made
    BY <1>1, <1>3 DEF CommitTyped, CommitShape, GoesOn
  <1>5. \A op \in results : op \in Plan(s) /\ op.action \in {"create", "update"} /\ op.surface \in s
    <2>1. \A op \in Plan(s) : op.action \in {"create", "update", "remove"}
      BY <1>1, PlanFields DEF Operations
    <2>. QED BY <1>1, <2>1, PlanFields DEF Removals
  <1>6. \A d \in s : Renewed(d) \/ ~Held(d) => Creation(d) \in results
    BY <1>1, PlanElements DEF Creating, Removals, Creation
  <1>7. \A d \in s : Moved(d) => Update(d) \in results
    BY <1>1, PlanElements DEF Moving, Removals, Update
  <1>8. ASSUME NEW d \in s PROVE d.id \in ids /\ Recorded(d, owners'[d.id])
    <2>1. CASE Renewed(d) \/ ~Held(d)
      <3>1. Creation(d) \in of(d.id) /\ Creation(d).surface = d /\ Creation(d).action = "create"
        BY <1>6, <2>1 DEF Creation
      <3>2. \A op \in of(d.id) : op = Creation(d)
        BY <1>1, <1>5, <3>1, PlanSingle
      <3>3. (CHOOSE op \in of(d.id) : TRUE) = Creation(d)
        BY <3>1, <3>2
      <3>4. d.id \in ids
        BY <3>1
      <3> HIDE DEF ids, of
      <3>5. owners'[d.id] = Owner(Creation(d), Creations(commit.plan))
        BY <1>3, <3>1, <3>3, <3>4
      <3>. QED BY <2>1, <3>1, <3>4, <3>5 DEF Owner, Recorded
    <2>2. CASE Moved(d)
      <3>1. Update(d) \in of(d.id) /\ Update(d).surface = d /\ Update(d).action = "update"
        BY <1>7, <2>2 DEF Update
      <3>2. \A op \in of(d.id) : op = Update(d)
        BY <1>1, <1>5, <3>1, PlanSingle
      <3>3. (CHOOSE op \in of(d.id) : TRUE) = Update(d)
        BY <3>1, <3>2
      <3>4. d.id \in ids
        BY <3>1
      <3>0. Update(d).view = owners[d.id].view
        BY DEF Update
      <3> HIDE DEF ids, of
      <3>5. owners'[d.id] = Owner(Update(d), Creations(commit.plan))
        BY <1>3, <3>1, <3>3, <3>4
      <3>. QED BY <2>2, <3>0, <3>1, <3>4, <3>5 DEF Owner, Recorded
    <2>3. CASE Kept(d)
      <3>1. \A op \in results : op.surface.id # d.id
        BY <1>1, <1>5, <2>3, PlanFields DEF Kept, Moved, Renewed, Held
      <3>2. of(d.id) = {}
        BY <3>1
      <3>3. d.id \notin Dropped(commit.plan)
        BY <1>1, <2>3, PlanFields DEF Dropped, Removals, Kept
      <3>4. d.id \in ids
        BY <2>3, <3>3 DEF Kept, Held
      <3> HIDE DEF ids, of
      <3>5. owners'[d.id] = owners[d.id]
        BY <1>3, <3>2, <3>4
      <3>. QED BY <2>3, <3>4, <3>5 DEF Recorded
    <2>. QED BY <2>1, <2>2, <2>3 DEF Kept
  <1>9. ASSUME NEW i \in DOMAIN owners, i \notin Dropped(commit.plan) PROVE \E d \in s : d.id = i
    <2>1. CASE \A d \in s : d.id # i
      <3>1. Removal(i, TRUE, 0) \in Plan(s)
        BY <2>1, PlanElements DEF Dropping
      <3>2. Removal(i, TRUE, 0).action = "remove" /\ Removal(i, TRUE, 0).surface.id = i
        BY <1>1 DEF Removal, OwnersTyped
      <3>. QED BY <1>1, <1>9, <3>1, <3>2 DEF Dropped, Removals
    <2>. QED BY <2>1
  <1>10. ids = {d.id : d \in s}
    BY <1>5, <1>8, <1>9
  <1>11. DOMAIN owners' = ids /\ owners' = [i \in DOMAIN owners' |-> owners'[i]]
    BY <1>3
  <1>. QED BY <1>3, <1>4, <1>8, <1>10, <1>11

-----------------------------------------------------------------------------
(* Every step keeps the types *)

LEMMA PlanStays ==
  ASSUME UNCHANGED owners, NEW s, commit'.snapshot = s
  PROVE  Plan(commit.snapshot)' = Plan(s)
  BY DEF Plan, Removal, Creation, Update, Held, PlacementEqual

LEMMA CreationsCount ==
  ASSUME NEW operations, IsFiniteSet(operations), NEW op \in operations
  PROVE  /\ Cardinality(Creations(operations)) \in Nat
         /\ op.action # "create" => Creations(operations \ {op}) = Creations(operations)
         /\ op.action = "create" =>
              /\ Cardinality(Creations(operations)) > 0
              /\ Cardinality(Creations(operations \ {op})) = Cardinality(Creations(operations)) - 1
  <1>1. Creations(operations) \in SUBSET operations
    BY DEF Creations
  <1>2. IsFiniteSet(Creations(operations)) /\ Cardinality(Creations(operations)) \in Nat
    BY <1>1, FS_Subset, FS_CardinalityType
  <1>3. CASE op.action = "create"
    <2>1. Creations(operations \ {op}) = Creations(operations) \ {op} /\ op \in Creations(operations)
      BY <1>3 DEF Creations
    <2>2. Cardinality(Creations(operations)) # 0
      BY <1>2, <2>1, FS_EmptySet
    <2>3. Cardinality(Creations(operations) \ {op}) = Cardinality(Creations(operations)) - 1
      BY <1>2, <2>1, FS_RemoveElement
    <2>4. Cardinality(Creations(operations \ {op})) = Cardinality(Creations(operations)) - 1
      BY <2>1, <2>3
    <2>5. Cardinality(Creations(operations)) > 0
      BY <1>2, <2>2
    <2>. QED BY <1>2, <1>3, <2>4, <2>5
  <1>4. CASE op.action # "create"
    BY <1>2, <1>4 DEF Creations
  <1>. QED BY <1>3, <1>4

\* A step that goes on with the batch over the same owners keeps their types.
LEMMA GoingOn ==
  ASSUME Typing, UNCHANGED owners, NEW point, NEW left, GoesOn(point, left),
         point \in {"idle", "unbind", "drive", "report", "crashed"}, left \subseteq commit.plan,
         DOMAIN commit'.made \subseteq Ids /\ commit'.made \in [DOMAIN commit'.made -> Handles]
  PROVE  /\ OwnersTyped' /\ CommitTyped'
         /\ commit.at \in {"unbind", "drive"} => commit'.plan = Plan(commit.snapshot)'
  <1>1. OwnersTyped' /\ CommitTyped'
    BY DEF Typing, OwnersTyped, CommitTyped, GoesOn
  <1>2. Plan(commit.snapshot)' = Plan(commit.snapshot)
    BY PlanStays DEF GoesOn
  <1>. QED BY <1>1, <1>2 DEF Typing, Batch, GoesOn

LEMMA CommitTyping == ASSUME Typing, NEW s \in Snapshots, Commit(s) PROVE Typing'
  <1>1. /\ commit.at = "idle" /\ spent.commits < MaxCommits
        /\ spent' = [spent EXCEPT !.commits = @ + 1]
        /\ spent.views + Cardinality(Creations(Plan(s))) <= MaxViews
        /\ UNCHANGED <<owners, next, views, height, bound, reported, newest, torn>>
    BY DEF Commit, Creations, hostVars
  <1>2. /\ OwnersTyped' /\ next' \in Nat /\ height' \in Heights /\ HostTyped'
        /\ SpentTyped' /\ spent'.views = spent.views
    BY <1>1, BoundsAssumption DEF Typing, OwnersTyped, HostTyped, SpentTyped
  <1>3. ViewsTyped'
    BY <1>1, <1>2 DEF Typing, ViewsTyped
  <1>4. CASE Plan(s) = {}
    <2>1. inventory' = s /\ UNCHANGED commit
      BY <1>4 DEF Commit
    <2>2. CommitTyped' /\ HistoryTyped'
      BY <1>1, <2>1 DEF Typing, CommitTyped, CommitShape, HistoryTyped
    <2>3. Batch'
      BY <1>1, <1>2, <2>1 DEF Typing, Batch
    <2>. QED BY <1>2, <1>3, <2>2, <2>3 DEF Typing
  <1>5. CASE Plan(s) # {}
    <2>1. /\ commit' = [Idle EXCEPT !.at = "unbind", !.snapshot = s, !.plan = Plan(s),
                                    !.left = Naming(Removals(Plan(s)))]
          /\ UNCHANGED inventory
      BY <1>5 DEF Commit
    <2>2. /\ CommitShape' /\ commit'.at = "unbind" /\ commit'.snapshot = s /\ commit'.plan = Plan(s)
          /\ commit'.left = Naming(Removals(Plan(s))) /\ commit'.made = <<>>
      BY <2>1 DEF CommitShape, Idle
    <2>9. DOMAIN commit'.made = {}
      BY <2>2
    <2>3. Plan(s) \subseteq Operations /\ IsFiniteSet(Plan(s))
      BY PlanFields, PlanFinite DEF Typing
    <2>4. Naming(Removals(Plan(s))) \subseteq Plan(s)
      BY DEF Naming, Removals
    <2>5. commit'.made \in [DOMAIN commit'.made -> Handles]
      BY <2>2
    <2>6. CommitTyped' /\ HistoryTyped'
      BY <1>1, <2>1, <2>2, <2>3, <2>4, <2>5, <2>9 DEF Typing, CommitTyped, HistoryTyped
    <2>7. commit'.plan = Plan(commit.snapshot)'
      BY <1>1, <2>2, PlanStays
    <2>8. Batch'
      BY <1>1, <1>2, <2>2, <2>7, <2>9 DEF Typing, Batch
    <2>. QED BY <1>2, <1>3, <2>6, <2>8 DEF Typing
  <1>. QED BY <1>4, <1>5

LEMMA UnbindTyping ==
  ASSUME Typing, (\E op \in commit.left : Unbind(op)) \/ Unbound PROVE Typing'
  <1>1. CommitTyped /\ Batch /\ commit.at = "unbind" /\ spent.views \in Nat
    <2>1. spent.views \in Nat
      BY BoundsAssumption DEF Typing, SpentTyped
    <2>. QED BY <2>1 DEF Typing, Unbind, Unbound, Doing
  <1>2. /\ UNCHANGED <<owners, next, views, height, reported, newest, inventory, torn, spent>>
        /\ OwnersTyped' /\ next' \in Nat /\ height' \in Heights /\ HistoryTyped'
        /\ SpentTyped' /\ ViewsTyped'
    BY DEF Typing, OwnersTyped, HistoryTyped, SpentTyped, ViewsTyped, Unbind, Unbound, hostVars
  <1>3. ASSUME NEW op \in commit.left, Unbind(op) PROVE Typing'
    <2>1. GoesOn("unbind", commit.left \ {op}) /\ commit'.made = commit.made
      BY <1>1, <1>3, GotoStep DEF Unbind, Doing
    <2>2. CommitTyped' /\ commit'.plan = Plan(commit.snapshot)'
      <3>1. commit.left \ {op} \subseteq commit.plan
        BY <1>1 DEF CommitTyped
      <3>. QED BY <1>1, <1>2, <2>1, <3>1, GoingOn DEF CommitTyped
    <2>3. HostTyped'
      <3>1. bound' \in [Panes -> Handles \cup {NoView}]
        BY <1>3 DEF Typing, HostTyped, Unbind
      <3>. QED BY <1>2, <3>1 DEF Typing, HostTyped
    <2>4. Batch'
      BY <1>1, <1>2, <2>1, <2>2 DEF Batch, GoesOn
    <2>. QED BY <1>2, <2>2, <2>3, <2>4 DEF Typing
  <1>4. CASE Unbound
    <2>1. GoesOn("drive", commit.plan) /\ commit'.made = commit.made
      BY <1>1, <1>4, GotoStep DEF Unbound
    <2>2. CommitTyped' /\ commit'.plan = Plan(commit.snapshot)'
      BY <1>1, <1>2, <2>1, GoingOn DEF CommitTyped
    <2>3. HostTyped'
      BY <1>2, <1>4 DEF Typing, HostTyped, Unbound
    <2>4. Batch'
      <3>1. /\ commit'.at = "drive" /\ commit'.plan = commit.plan /\ commit'.left = commit.plan
            /\ DOMAIN commit'.made = {}
        BY <1>1, <2>1 DEF Batch, GoesOn
      <3>2. {op.surface.id : op \in Creations(commit'.plan \ commit'.left)} = {}
        BY <3>1 DEF Creations
      <3>3. Cardinality(Creations(commit.plan)) \in Nat
        BY <1>1, FS_Subset, FS_CardinalityType DEF CommitTyped, Creations
      <3>4. next \in Nat
        BY DEF Typing
      <3>5. /\ next' + Cardinality(Creations(commit'.plan)) <=
                 spent'.views + Cardinality(Creations(commit'.left))
            /\ spent'.views + Cardinality(Creations(commit'.left)) <= MaxViews
            /\ next' <= spent'.views
        BY <1>1, <1>2, <3>1, <3>3, <3>4 DEF Batch
      <3>. QED BY <2>2, <3>1, <3>2, <3>5 DEF Batch, Creations
    <2>. QED BY <1>2, <2>2, <2>3, <2>4 DEF Typing
  <1>. QED BY <1>3, <1>4

LEMMA HostTypedOf == ASSUME height \in Heights, NEW d \in Declarable PROVE HostOf(d) \in Placements
  <1>1. d.id \in Ids /\ d.frame.y \in Int /\ d.frame.height \in Int /\ height \in Int
    BY DeclarableAssumption, HeightsAssumption DEF Ids, Frames
  <1>2. PlaceRect(d.frame, height) \in [y : Int, h : Nat]
    BY <1>1 DEF PlaceRect
  <1>. QED BY <1>1, <1>2 DEF HostOf, Placements

\* A step of the driver that leaves something to do.
LEMMA DriveBatch ==
  ASSUME Typing, NEW op \in commit.left, commit.at = "drive", UNCHANGED <<owners, next>>,
         GoesOn("drive", commit.left \ {op}), commit'.plan = Plan(commit.snapshot)',
         IF op.action = "create"
         THEN /\ spent'.views = spent.views + 1
              /\ DOMAIN commit'.made = DOMAIN commit.made \cup {op.surface.id}
         ELSE spent'.views = spent.views /\ commit'.made = commit.made
  PROVE  Batch'
  <1>1. IsFiniteSet(commit.left) /\ commit.left \subseteq commit.plan
    BY FS_Subset DEF Typing, CommitTyped
  <1>2. spent.views \in Nat /\ next \in Nat
    BY BoundsAssumption DEF Typing, SpentTyped
  <1>3. /\ Cardinality(Creations(commit.left)) \in Nat /\ Cardinality(Creations(commit.plan)) \in Nat
        /\ spent'.views + Cardinality(Creations(commit.left \ {op})) =
             spent.views + Cardinality(Creations(commit.left))
    <2>1. Cardinality(Creations(commit.plan)) \in Nat
      BY <1>1, CreationsCount DEF Typing, CommitTyped
    <2>. QED BY <1>1, <1>2, <2>1, CreationsCount
  <1>4. commit'.plan \ commit'.left = (commit.plan \ commit.left) \cup {op}
    BY <1>1 DEF GoesOn
  <1>5. DOMAIN commit'.made = {o.surface.id : o \in Creations(commit'.plan \ commit'.left)}
    <2>1. DOMAIN commit.made = {o.surface.id : o \in Creations(commit.plan \ commit.left)}
      BY DEF Typing, Batch
    <2>2. CASE op.action = "create"
      <3>1. Creations(commit'.plan \ commit'.left) = Creations(commit.plan \ commit.left) \cup {op}
        BY <1>4, <2>2 DEF Creations
      <3>. QED BY <2>1, <2>2, <3>1
    <2>3. CASE op.action # "create"
      <3>1. Creations(commit'.plan \ commit'.left) = Creations(commit.plan \ commit.left)
        BY <1>4, <2>3 DEF Creations
      <3>. QED BY <2>1, <2>3, <3>1
    <2>. QED BY <2>2, <2>3
  <1>6. /\ spent'.views + Cardinality(Creations(commit'.left)) <= MaxViews
        /\ next' + Cardinality(Creations(commit'.plan)) <=
             spent'.views + Cardinality(Creations(commit'.left))
        /\ next' <= spent'.views
    BY <1>2, <1>3 DEF Typing, Batch, GoesOn
  <1>7. Batch' <=>
          /\ next' <= spent'.views
          /\ DOMAIN commit'.made = {o.surface.id : o \in Creations(commit'.plan \ commit'.left)}
          /\ spent'.views + Cardinality(Creations(commit'.left)) <= MaxViews
          /\ next' + Cardinality(Creations(commit'.plan)) <=
               spent'.views + Cardinality(Creations(commit'.left))
    BY DEF Batch, GoesOn, Creations
  <1>. QED BY <1>5, <1>6, <1>7

LEMMA DriveCreateTyping ==
  ASSUME Typing, NEW op \in commit.left, DriveCreate(op) PROVE Typing'
  <1> DEFINE v == spent.views + 1
  <1>1. /\ op.action = "create" /\ commit.at = "drive"
        /\ GoesOn("drive", commit.left \ {op})
        /\ DOMAIN commit'.made = DOMAIN commit.made \cup {op.surface.id}
        /\ commit'.made = [i \in DOMAIN commit.made \cup {op.surface.id} |->
                             IF i = op.surface.id THEN v ELSE commit.made[i]]
        /\ DOMAIN views' = DOMAIN views \cup {v}
        /\ views' = [w \in DOMAIN views \cup {v} |->
                      IF w = v THEN HostOf(op.surface) ELSE views[w]]
        /\ spent' = [spent EXCEPT !.views = v] /\ spent'.views = v
        /\ UNCHANGED <<owners, next, height, bound, reported, newest, inventory, torn>>
    BY DriveCreateStep DEF Typing
  <1>2. op \in commit.plan /\ op.surface \in Declarable /\ op.surface.id \in Ids
    BY DEF Typing, CommitTyped, Operations, Ids
  <1>3. v \in Handles /\ spent.views \in Nat
    <2>1. spent.views \in Nat /\ MaxViews \in Nat
      BY BoundsAssumption DEF Typing, SpentTyped
    <2>2. IsFiniteSet(commit.left)
      BY FS_Subset DEF Typing, CommitTyped
    <2>3. Cardinality(Creations(commit.left)) > 0 /\ Cardinality(Creations(commit.left)) \in Nat
      BY <1>1, <2>2, CreationsCount
    <2>4. spent.views + Cardinality(Creations(commit.left)) <= MaxViews
      BY <1>1 DEF Typing, Batch
    <2>. QED BY <2>1, <2>3, <2>4 DEF Handles
  <1> HIDE DEF v
  <1>4. CommitTyped' /\ OwnersTyped' /\ commit'.plan = Plan(commit.snapshot)'
    <2>1. DOMAIN commit'.made \subseteq Ids /\ commit'.made \in [DOMAIN commit'.made -> Handles]
      BY <1>1, <1>2, <1>3 DEF Typing, CommitTyped
    <2>2. commit.left \ {op} \subseteq commit.plan
      BY DEF Typing, CommitTyped
    <2>. QED BY <1>1, <2>1, <2>2, GoingOn
  <1>5. SpentTyped'
    BY <1>1, <1>3 DEF Typing, SpentTyped, Handles
  <1>6. ViewsTyped'
    <2>1. HostOf(op.surface) \in Placements
      BY <1>2, HostTypedOf DEF Typing
    <2>2. DOMAIN views' \subseteq 1 .. spent'.views
      BY <1>1, <1>3 DEF Typing, ViewsTyped, v
    <2>. QED BY <1>1, <2>1, <2>2 DEF Typing, ViewsTyped
  <1>7. Batch'
    BY <1>1, <1>4, DriveBatch DEF v
  <1>. QED BY <1>1, <1>4, <1>5, <1>6, <1>7 DEF Typing, HostTyped, HistoryTyped

LEMMA DriveTyping ==
  ASSUME Typing, NEW op \in commit.left, DriveUpdate(op) \/ DriveRemove(op) PROVE Typing'
  <1>1. /\ op.action # "create" /\ commit.at = "drive" /\ op.view \in DOMAIN views
        /\ Doing("drive", op)
        /\ UNCHANGED <<owners, next, height, bound, reported, newest, inventory, torn, spent>>
    BY DEF DriveUpdate, DriveRemove, Doing, hostVars
  <1>2. GoesOn("drive", commit.left \ {op}) /\ commit'.made = commit.made
    BY <1>1, GotoStep DEF Typing, Doing
  <1>3. CommitTyped' /\ OwnersTyped' /\ commit'.plan = Plan(commit.snapshot)'
    <2>1. commit.left \ {op} \subseteq commit.plan
      BY DEF Typing, CommitTyped
    <2>. QED BY <1>1, <1>2, <2>1, GoingOn DEF Typing, CommitTyped
  <1>4. ViewsTyped'
    <2>1. HostOf(op.surface) \in Placements
      <3>1. op.surface \in Declarable
        BY DEF Typing, CommitTyped, Operations
      <3>. QED BY <3>1, HostTypedOf DEF Typing
    <2>2. CASE DriveUpdate(op)
      BY <1>1, <2>1, <2>2 DEF DriveUpdate, Typing, ViewsTyped
    <2>3. CASE DriveRemove(op)
      BY <1>1, <2>3 DEF DriveRemove, Typing, ViewsTyped, Restrict
    <2>. QED BY <2>2, <2>3
  <1>5. Batch'
    BY <1>1, <1>2, <1>3, DriveBatch
  <1>. QED BY <1>1, <1>3, <1>4, <1>5 DEF Typing, HostTyped, HistoryTyped, SpentTyped

LEMMA FailTyping ==
  ASSUME Typing, NEW op \in commit.left, CreateFails(op) \/ Crash(op) PROVE Typing'
  <1>1. /\ UNCHANGED <<owners, next, views, height, bound, reported, newest, inventory>>
        /\ commit.at = "drive"
    BY DEF CreateFails, Crash, hostVars
  <1>2. OwnersTyped' /\ next' \in Nat /\ height' \in Heights /\ HostTyped'
    BY <1>1 DEF Typing, OwnersTyped, HostTyped
  <1>3. CASE CreateFails(op)
    <2>1. /\ commit' = Idle /\ spent.failures < MaxFailures
          /\ torn' = torn \cup {o.surface.id : o \in (commit.plan \ commit.left) \cup Removals(commit.plan)}
          /\ spent' = [spent EXCEPT !.failures = @ + 1]
      BY <1>3 DEF CreateFails
    <2>2. SpentTyped' /\ spent'.views = spent.views
      BY <2>1, BoundsAssumption DEF Typing, SpentTyped
    <2>3. CommitTyped' /\ commit'.at = "idle"
      <3>1. DOMAIN <<>> = {}
        OBVIOUS
      <3>. QED BY <2>1, <3>1, NothingDeclared DEF Idle, CommitTyped, CommitShape
    <2>4. \A o \in Operations : o.surface.id \in Ids
      BY DEF Operations, Ids
    <2>5. HistoryTyped'
      BY <1>1, <2>1, <2>4 DEF Typing, HistoryTyped, CommitTyped, Removals
    <2>. QED BY <1>1, <1>2, <2>2, <2>3, <2>5 DEF Typing, Batch, ViewsTyped
  <1>4. CASE Crash(op)
    <2>1. commit' = [commit EXCEPT !.at = "crashed"] /\ UNCHANGED <<torn, spent>>
      BY <1>4 DEF Crash
    <2>2. CommitTyped' /\ commit'.at = "crashed"
      BY <2>1 DEF Typing, CommitTyped, CommitShape
    <2>. QED BY <1>1, <1>2, <2>1, <2>2 DEF Typing, Batch, ViewsTyped, SpentTyped, HistoryTyped
  <1>. QED BY <1>3, <1>4

LEMMA RecordTyping == ASSUME Typing, Record PROVE Typing'
  <1> DEFINE s == commit.snapshot
             creations == Creations(commit.plan)
  <1>1. /\ DOMAIN owners' = {d.id : d \in s}
        /\ owners' = [i \in DOMAIN owners' |-> owners'[i]]
        /\ \A d \in s : Recorded(d, owners'[d.id])
        /\ next' = next + Cardinality(creations)
        /\ commit.at = "drive" /\ commit.left = {}
        /\ GoesOn("report", {op \in Naming(commit.plan) : op.action # "update"})
        /\ commit'.made = commit.made
        /\ UNCHANGED <<views, height, bound, reported, newest, inventory, torn, spent>>
    BY RecordStep
  <1>2. /\ s \in Snapshots /\ s \subseteq Declarable /\ IsFiniteSet(s)
        /\ OwnersTyped /\ commit.plan = Plan(s)
    BY <1>1 DEF Typing, CommitTyped, Batch, Snapshots
  <1>3. /\ Cardinality(creations) \in Nat /\ next \in Nat
        /\ next + Cardinality(creations) <= spent.views
        /\ spent.views <= MaxViews /\ spent.views \in Nat
    <2>1. Creations({}) = {} /\ Cardinality({}) = 0
      BY FS_EmptySet DEF Creations
    <2>2. spent.views \in Nat /\ next \in Nat /\ spent.views <= MaxViews
      BY BoundsAssumption DEF Typing, SpentTyped
    <2>3. next + Cardinality(creations) <= spent.views + 0
      BY <1>1, <2>1 DEF Typing, Batch
    <2>4. Cardinality(creations) \in Nat
      BY FS_Subset, FS_CardinalityType DEF Typing, CommitTyped, Creations
    <2>. QED BY <2>2, <2>3, <2>4
  <1>4. ASSUME NEW d \in s, Renewed(d) \/ ~Held(d)
        PROVE  /\ Creation(d) \in creations
               /\ Ranked(creations, Creation(d)) \in 1 .. Cardinality(creations)
    <2>1. Creation(d) \in creations
      BY <1>2, <1>4, PlanElements DEF Creating, Creation, Creations
    <2>2. IsFiniteSet(creations) /\ creations \subseteq Operations
      <3>1. creations \in SUBSET commit.plan
        BY DEF Creations
      <3>. QED BY <3>1, FS_Subset DEF Typing, CommitTyped
    <2>3. /\ \A b \in creations : ~Precedes(b, b)
          /\ \A b, c, e \in creations : Precedes(b, c) /\ Precedes(c, e) => Precedes(b, e)
      BY <2>2, PrecedesOrder
    <2> HIDE DEF creations
    <2>. QED BY <2>1, <2>2, <2>3, RankedInOrder
  <1>5. ASSUME NEW d \in s PROVE owners'[d.id] \in Owners /\ owners'[d.id].surface.id = d.id
    <2>1. CASE Renewed(d) \/ ~Held(d)
      <3>1. owners'[d.id] = [surface |-> d, life |-> next + Ranked(creations, Creation(d)),
                             view |-> commit.made[d.id]]
        BY <1>1, <2>1 DEF Recorded, Moved, Kept, Renewed
      <3>2. commit.made[d.id] \in Handles
        <4>1. Creation(d) \in Creations(commit.plan \ commit.left) /\ Creation(d).surface = d
          BY <1>1, <1>4, <2>1 DEF Creations, Creation
        <4>2. d.id \in DOMAIN commit.made
          BY <1>1, <4>1 DEF Typing, Batch
        <4>. QED BY <4>2 DEF Typing, CommitTyped
      <3>3. next + Ranked(creations, Creation(d)) \in Lives
        <4>1. Ranked(creations, Creation(d)) \in 1 .. Cardinality(creations)
          BY <1>4, <2>1
        <4> HIDE DEF creations
        <4>2. MaxViews \in Nat
          BY BoundsAssumption
        <4>. QED BY <1>3, <4>1, <4>2 DEF Lives
      <3> HIDE DEF creations
      <3>. QED BY <1>2, <3>1, <3>2, <3>3 DEF Owners
    <2>2. CASE Moved(d)
      <3>1. owners'[d.id] = [surface |-> d, life |-> owners[d.id].life, view |-> owners[d.id].view]
        BY <1>1, <2>2 DEF Recorded, Moved, Kept, Renewed
      <3>. QED BY <1>2, <2>2, <3>1 DEF OwnersTyped, Owners, Moved, Held
    <2>3. CASE Kept(d)
      <3>1. owners'[d.id] = owners[d.id] /\ d.id \in DOMAIN owners
        BY <1>1, <2>3 DEF Recorded, Moved, Kept, Renewed, Held
      <3>. QED BY <1>2, <3>1 DEF OwnersTyped
    <2>. QED BY <2>1, <2>2, <2>3 DEF Kept
  <1>6. OwnersTyped'
    <2>1. DOMAIN owners' \subseteq Ids
      BY <1>1, <1>2 DEF Ids
    <2>2. IsFiniteSet(DOMAIN owners')
      <3> DEFINE id == [d \in s |-> d.id]
      <3>1. id \in Surjection(s, DOMAIN owners')
        BY <1>1 DEF Surjection
      <3>. QED BY <1>2, <3>1, FS_Surjection
    <2>3. \A i \in DOMAIN owners' : owners'[i] \in Owners /\ owners'[i].surface.id = i
      BY <1>1, <1>5
    <2>4. owners' \in [DOMAIN owners' -> Owners]
      BY <1>1, <2>3
    <2>. QED BY <2>1, <2>2, <2>3, <2>4 DEF OwnersTyped
  <1>7. CommitTyped' /\ next' \in Nat
    BY <1>1, <1>3 DEF Typing, CommitTyped, GoesOn, Naming
  <1>8. Batch'
    <2>1. ASSUME NEW op \in commit'.left
          PROVE  /\ op.surface.pane # 0 /\ op.action # "update"
                 /\ op.action = "create" =>
                      op.surface.id \in DOMAIN owners' /\ owners'[op.surface.id].surface = op.surface
      <3>1. op \in Plan(s) /\ op.surface.pane # 0 /\ op.action # "update"
        BY <1>1, <1>2, <2>1 DEF GoesOn, Naming
      <3>2. CASE op.action = "create"
        <4>1. op.surface \in s /\ (Renewed(op.surface) \/ ~Held(op.surface))
          BY <1>2, <3>1, <3>2, PlanFields
        <4>2. owners'[op.surface.id].surface = op.surface
          <5>1. Recorded(op.surface, owners'[op.surface.id])
            BY <1>1, <4>1
          <5>2. ~Moved(op.surface) /\ ~Kept(op.surface)
            BY <4>1 DEF Moved, Kept, Renewed
          <5>. QED BY <5>1, <5>2 DEF Recorded
        <4>. QED BY <1>1, <3>1, <4>1, <4>2
      <3>. QED BY <3>1, <3>2
    <2>. QED BY <1>1, <1>3, <2>1 DEF Batch, GoesOn, Held
  <1>. QED BY <1>1, <1>6, <1>7, <1>8
           DEF Typing, SpentTyped, ViewsTyped, HostTyped, HistoryTyped

LEMMA ReportTyping ==
  ASSUME Typing, NEW op \in commit.left, ReportCreated(op) \/ ReportRemoved(op) PROVE Typing'
  <1>1. /\ commit.at = "report" /\ Doing("report", op)
        /\ UNCHANGED <<owners, next, views, height, inventory, torn, spent>>
    BY DEF ReportCreated, ReportRemoved, Doing
  <1>2. GoesOn("report", commit.left \ {op}) /\ commit'.made = commit.made
    BY <1>1, GotoStep DEF Typing, Doing
  <1>3. CommitTyped' /\ OwnersTyped'
    <2>1. commit.left \ {op} \subseteq commit.plan
      BY DEF Typing, CommitTyped
    <2>. QED BY <1>1, <1>2, <2>1, GoingOn DEF Typing, CommitTyped
  <1>4. op \in Operations /\ op.surface.pane \in Panes
    <2>1. op \in Operations /\ op.surface \in Declarable /\ op.surface.pane # 0
      BY <1>1 DEF Typing, CommitTyped, Batch, Operations
    <2>. QED BY <2>1, DeclarableAssumption
  <1>5. HostTyped'
    <2>1. CASE ReportCreated(op)
      <3>1. op.surface.id \in DOMAIN owners
        BY <1>1, <2>1 DEF Typing, Batch, Held, ReportCreated
      <3>2. owners[op.surface.id].view \in Handles /\ owners[op.surface.id].life \in Lives
        BY <3>1 DEF Typing, OwnersTyped, Owners
      <3>. QED BY <1>4, <2>1, <3>2 DEF ReportCreated, Typing, HostTyped
    <2>2. CASE ReportRemoved(op)
      BY <2>2 DEF ReportRemoved, Typing, HostTyped
    <2>. QED BY <2>1, <2>2
  <1>6. Batch'
    BY <1>1, <1>2 DEF Typing, Batch, GoesOn, Held
  <1>. QED BY <1>1, <1>3, <1>5, <1>6 DEF Typing, SpentTyped, ViewsTyped, HistoryTyped

LEMMA RestTyping ==
  ASSUME Typing, Return \/ (\E h \in Heights : Resize(h)) \/ UNCHANGED vars PROVE Typing'
  <1>1. CASE Return
    <2>1. /\ commit' = Idle /\ inventory' = commit.snapshot
          /\ UNCHANGED <<owners, next, views, height, bound, reported, newest, torn, spent>>
      BY <1>1 DEF Return, hostVars
    <2>2. CommitTyped' /\ commit'.at = "idle"
      <3>1. DOMAIN <<>> = {}
        OBVIOUS
      <3>. QED BY <2>1, <3>1, NothingDeclared DEF Idle, CommitTyped, CommitShape
    <2>3. HistoryTyped' /\ OwnersTyped'
      BY <2>1 DEF Typing, HistoryTyped, CommitTyped, OwnersTyped
    <2>. QED BY <2>1, <2>2, <2>3 DEF Typing, Batch, ViewsTyped, SpentTyped, HostTyped
  <1>2. ASSUME NEW h \in Heights, Resize(h) PROVE Typing'
    <2>1. /\ height' = h /\ spent' = [spent EXCEPT !.resizes = @ + 1] /\ spent.resizes < MaxResizes
          /\ UNCHANGED <<owners, next, commit, views, bound, reported, newest, inventory, torn>>
          /\ commit.at = "idle"
      BY <1>2 DEF Resize, hostVars
    <2>2. SpentTyped' /\ spent'.views = spent.views
      BY <2>1, BoundsAssumption DEF Typing, SpentTyped
    <2>3. CommitTyped' /\ OwnersTyped'
      BY <2>1 DEF Typing, CommitTyped, CommitShape, OwnersTyped
    <2>. QED BY <2>1, <2>2, <2>3 DEF Typing, Batch, ViewsTyped, HostTyped, HistoryTyped
  <1>3. CASE UNCHANGED vars
    <2>1. UNCHANGED <<owners, next, commit, views, height, bound, reported, newest, inventory, torn, spent>>
      BY <1>3 DEF vars
    <2>2. CommitTyped' /\ OwnersTyped'
      BY <2>1 DEF Typing, CommitTyped, CommitShape, OwnersTyped
    <2>3. Batch'
      <3>1. Plan(commit.snapshot)' = Plan(commit.snapshot)
        BY <2>1, PlanStays
      <3>. QED BY <2>1, <3>1 DEF Typing, Batch, Held
    <2>. QED BY <2>1, <2>2, <2>3 DEF Typing, ViewsTyped, HostTyped, HistoryTyped, SpentTyped
  <1>. QED BY <1>1, <1>2, <1>3

LEMMA NextTyping == Typing /\ [Next]_vars => Typing'
  BY CommitTyping, UnbindTyping, DriveCreateTyping, DriveTyping, FailTyping, RecordTyping,
     ReportTyping, RestTyping
  DEF Next, Apply, Drive, Report, Rest

\* Every commit and failure keeps the types: no lifecycle generation and no view
\* is handed out beyond those that were planned for.
THEOREM TypeCorrect == Spec => []TypeOK
  BY InitTyping, NextTyping, TypingIsTypeOK, PTL DEF Spec

-----------------------------------------------------------------------------
(* Owners: a surface, a view and a life each *)

\* No two owners share a view, a lifecycle generation or a pane, and no owner has
\* the view that the driver has just made for another.
Distinct ==
  /\ \A i \in DOMAIN owners : owners[i].view <= spent.views /\ owners[i].life <= next
  /\ \A i, j \in DOMAIN owners : i # j =>
       /\ owners[i].view # owners[j].view /\ owners[i].life # owners[j].life
       /\ owners[i].surface.pane # owners[j].surface.pane \/ owners[i].surface.pane = 0
  /\ commit.at = "drive" => \A i \in DOMAIN commit.made :
       /\ commit.made[i] <= spent.views
       /\ \A j \in DOMAIN owners : commit.made[i] # owners[j].view
       /\ \A j \in DOMAIN commit.made : i # j => commit.made[i] # commit.made[j]

\* What is on record after a batch is what was committed.
LEMMA RecordedSurface ==
  ASSUME Typing, Record, NEW d \in commit.snapshot
  PROVE  owners'[d.id].surface = d
  <1>1. Recorded(d, owners'[d.id])
    BY RecordStep
  <1>2. CASE Kept(d)
    <2>1. owners'[d.id] = owners[d.id]
      BY <1>1, <1>2 DEF Recorded, Kept
    <2>2. /\ owners[d.id].surface \in Declarable /\ owners[d.id].surface.id = d.id /\ d \in Declarable
      BY <1>2 DEF Typing, OwnersTyped, Owners, CommitTyped, Snapshots, Kept, Held
    <2>3. /\ owners[d.id].surface.generation = d.generation
          /\ owners[d.id].surface.frame = d.frame /\ owners[d.id].surface.layer = d.layer
          /\ owners[d.id].surface.pane = d.pane
      BY <1>2, KeptIsEqual DEF PlacementEqual
    <2>. QED BY <2>1, <2>2, <2>3, DeclarableAssumption
  <1>. QED BY <1>1, <1>2 DEF Recorded

\* The view and the life recorded: new ones, or those of the same life of the
\* surface.
LEMMA RecordedOwner ==
  ASSUME Typing, Record, NEW d \in commit.snapshot
  PROVE  \/ /\ Renewed(d) \/ ~Held(d)
            /\ Creation(d) \in Creations(commit.plan)
            /\ d.id \in DOMAIN commit.made /\ owners'[d.id].view = commit.made[d.id]
            /\ owners'[d.id].life = next + Ranked(Creations(commit.plan), Creation(d))
            /\ owners'[d.id].life > next /\ owners'[d.id].life <= next'
         \/ /\ Held(d) /\ ~Renewed(d)
            /\ owners[d.id].surface.generation = d.generation
            /\ owners'[d.id].view = owners[d.id].view /\ owners'[d.id].life = owners[d.id].life
  <1>1. /\ Recorded(d, owners'[d.id]) /\ commit.at = "drive" /\ commit.left = {}
        /\ next' = next + Cardinality(Creations(commit.plan))
        /\ commit.plan = Plan(commit.snapshot) /\ OwnersTyped
    BY RecordStep DEF Typing, Batch
  <1>2. CASE Renewed(d) \/ ~Held(d)
    <2>1. Creation(d) \in Creations(commit.plan)
      BY <1>1, <1>2, PlanElements DEF Creating, Creation, Creations
    <2>2. Creation(d) \in Creations(commit.plan \ commit.left) /\ Creation(d).surface = d
      BY <1>1, <2>1 DEF Creations, Creation
    <2>3. d.id \in DOMAIN commit.made
      BY <1>1, <2>2 DEF Typing, Batch
    <2>4. IsFiniteSet(Creations(commit.plan)) /\ Creations(commit.plan) \subseteq Operations
      <3>1. Creations(commit.plan) \in SUBSET commit.plan
        BY DEF Creations
      <3>. QED BY <3>1, FS_Subset DEF Typing, CommitTyped
    <2>5. Ranked(Creations(commit.plan), Creation(d)) \in 1 .. Cardinality(Creations(commit.plan))
      BY <2>1, <2>4, RankedInOrder, PrecedesOrder
    <2>6. next \in Nat /\ Cardinality(Creations(commit.plan)) \in Nat
      BY <2>4, FS_CardinalityType DEF Typing
    <2>7. /\ owners'[d.id].view = commit.made[d.id]
          /\ owners'[d.id].life = next + Ranked(Creations(commit.plan), Creation(d))
      BY <1>1, <1>2 DEF Recorded, Moved, Kept, Renewed
    <2>. QED BY <1>1, <1>2, <2>1, <2>3, <2>5, <2>6, <2>7
  <1>3. CASE Held(d) /\ ~Renewed(d)
    BY <1>1, <1>3 DEF Recorded, Moved, Kept, Renewed
  <1>. QED BY <1>2, <1>3

LEMMA InitDistinct == Init => Distinct
  BY DEF Init, Distinct, Idle

LEMMA RecordDistinct == ASSUME Typing, Distinct, Record PROVE Distinct'
  <1> DEFINE s == commit.snapshot
             creations == Creations(commit.plan)
  <1>1. /\ DOMAIN owners' = {d.id : d \in s} /\ commit'.at = "report" /\ spent' = spent
        /\ commit.at = "drive"
        /\ \A d \in s : owners'[d.id].surface = d
        /\ \A d, e \in s : d # e => d.pane # e.pane \/ d.pane = 0
    BY RecordStep, RecordedSurface DEF GoesOn, Typing, CommitTyped, Snapshots
  <1>2. /\ next \in Nat /\ next' \in Nat /\ next <= next'
        /\ \A i \in DOMAIN owners : owners[i].life \in Nat
    <2>1. Cardinality(creations) \in Nat /\ next \in Nat
      BY FS_Subset, FS_CardinalityType DEF Typing, CommitTyped, Creations
    <2>2. next' = next + Cardinality(creations)
      BY RecordStep
    <2> HIDE DEF creations
    <2>. QED BY <2>1, <2>2 DEF Typing, OwnersTyped, Owners, Lives
  <1>3. ASSUME NEW d \in s PROVE owners'[d.id].view <= spent.views /\ owners'[d.id].life <= next'
    BY <1>1, <1>2, RecordedOwner DEF Distinct, Held
  <1>4. ASSUME NEW d \in s, NEW e \in s, d.id # e.id PROVE owners'[d.id].view # owners'[e.id].view
    BY <1>1, <1>4, RecordedOwner DEF Distinct, Held
  <1>5. ASSUME NEW d \in s, NEW e \in s, d.id # e.id PROVE owners'[d.id].life # owners'[e.id].life
    <2>1. CASE Creation(d) \in creations /\ Creation(e) \in creations
      <3>1. creations \subseteq Operations /\ IsFiniteSet(creations)
        <4>1. creations \in SUBSET commit.plan
          BY DEF Creations
        <4>. QED BY <4>1, FS_Subset DEF Typing, CommitTyped
      <3>2. Creation(d).surface = d /\ Creation(e).surface = e
        BY DEF Creation
      <3>3. Precedes(Creation(d), Creation(e)) \/ Precedes(Creation(e), Creation(d))
        <4>1. Creation(d) \in Plan(s) /\ Creation(e) \in Plan(s) /\ Creation(d) # Creation(e)
          BY <1>1, <1>5, <2>1, <3>2 DEF Creations, Typing, Batch
        <4>. QED BY <4>1, PlanOrdered DEF Typing, CommitTyped
      <3>4. /\ Ranked(creations, Creation(d)) # Ranked(creations, Creation(e))
            /\ Ranked(creations, Creation(d)) \in Nat /\ Ranked(creations, Creation(e)) \in Nat
        <4>1. /\ \A b \in creations : ~Precedes(b, b)
              /\ \A b, c, f \in creations : Precedes(b, c) /\ Precedes(c, f) => Precedes(b, f)
          BY <3>1, PrecedesOrder
        <4> HIDE DEF creations
        <4>2. /\ Ranked(creations, Creation(d)) \in 1 .. Cardinality(creations)
              /\ Ranked(creations, Creation(e)) \in 1 .. Cardinality(creations)
              /\ Precedes(Creation(d), Creation(e)) =>
                   Ranked(creations, Creation(d)) < Ranked(creations, Creation(e))
              /\ Precedes(Creation(e), Creation(d)) =>
                   Ranked(creations, Creation(e)) < Ranked(creations, Creation(d))
          BY <2>1, <3>1, <4>1, RankedInOrder
        <4>. QED BY <3>3, <4>2
      <3>5. /\ owners'[d.id].life = next + Ranked(creations, Creation(d))
            /\ owners'[e.id].life = next + Ranked(creations, Creation(e))
        <4>1. \A f \in s : Creation(f) \in creations => Renewed(f) \/ ~Held(f)
          <5>1. ASSUME NEW f \in s, Creation(f) \in creations PROVE Renewed(f) \/ ~Held(f)
            <6>1. Creation(f) \in Plan(s) /\ Creation(f).action = "create" /\ Creation(f).surface = f
              BY <1>1, <5>1 DEF Creations, Creation, Typing, Batch
            <6>2. OwnersTyped /\ s \in Snapshots
              BY DEF Typing, CommitTyped
            <6>. QED BY <6>1, <6>2, PlanFields
          <5>. QED BY <5>1
        <4>. QED BY <2>1, <4>1, RecordedOwner
      <3> HIDE DEF creations
      <3>. QED BY <1>2, <3>4, <3>5
    <2>2. CASE ~(Creation(d) \in creations /\ Creation(e) \in creations)
      BY <1>2, <1>5, <2>2, RecordedOwner DEF Distinct, Held
    <2>. QED BY <2>1, <2>2
  <1>6. \A i \in DOMAIN owners' : \E d \in s : i = d.id
    BY <1>1
  <1>. QED BY <1>1, <1>3, <1>4, <1>5, <1>6 DEF Distinct

\* What the driver has made after a creation, one by one.
LEMMA DriveCreateFacts ==
  ASSUME Typing, NEW op, DriveCreate(op)
  PROVE  /\ commit.at = "drive" /\ op = First(commit.left) /\ op.action = "create"
         /\ GoesOn("drive", commit.left \ {op})
         /\ DOMAIN commit'.made = DOMAIN commit.made \cup {op.surface.id}
         /\ \A i \in DOMAIN commit'.made :
              commit'.made[i] = IF i = op.surface.id THEN spent.views + 1 ELSE commit.made[i]
         /\ DOMAIN views' = DOMAIN views \cup {spent.views + 1}
         /\ \A w \in DOMAIN views' :
              views'[w] = IF w = spent.views + 1 THEN HostOf(op.surface) ELSE views[w]
         /\ spent'.views = spent.views + 1
         /\ UNCHANGED <<owners, next, height, bound, reported, newest, inventory, torn>>
  <1>1. CommitTyped /\ SpentTyped /\ ViewsTyped
    BY DEF Typing
  <1>2. /\ commit.at = "drive" /\ op = First(commit.left) /\ op.action = "create"
        /\ GoesOn("drive", commit.left \ {op})
        /\ commit'.made = [i \in DOMAIN commit.made \cup {op.surface.id} |->
                             IF i = op.surface.id THEN spent.views + 1 ELSE commit.made[i]]
        /\ views' = [w \in DOMAIN views \cup {spent.views + 1} |->
                       IF w = spent.views + 1 THEN HostOf(op.surface) ELSE views[w]]
        /\ spent'.views = spent.views + 1
        /\ UNCHANGED <<owners, next, height, bound, reported, newest, inventory, torn>>
    BY <1>1, DriveCreateStep
  <1>3. /\ DOMAIN commit'.made = DOMAIN commit.made \cup {op.surface.id}
        /\ \A i \in DOMAIN commit'.made :
             commit'.made[i] = IF i = op.surface.id THEN spent.views + 1 ELSE commit.made[i]
    BY <1>2
  <1>4. /\ DOMAIN views' = DOMAIN views \cup {spent.views + 1}
        /\ \A w \in DOMAIN views' :
             views'[w] = IF w = spent.views + 1 THEN HostOf(op.surface) ELSE views[w]
    BY <1>2
  <1>. QED BY <1>2, <1>3, <1>4

\* Every other step keeps the owners; only a creation makes a view.
LEMMA OwnersStay ==
  ASSUME Typing, [Next]_vars, ~Record
  PROVE  /\ UNCHANGED <<owners, next>>
         /\ \/ spent'.views = spent.views /\ (commit'.at = "drive" =>
                 commit'.made = commit.made /\ commit.at \in {"unbind", "drive"})
            \/ \E op \in commit.left : DriveCreate(op)
  <1>1. CASE UNCHANGED vars
    BY <1>1 DEF vars, Typing, Batch
  <1>2. ASSUME NEW s \in Snapshots, Commit(s)
        PROVE  /\ UNCHANGED <<owners, next>> /\ spent'.views = spent.views /\ commit'.at # "drive"
    <2>1. UNCHANGED <<owners, next>> /\ spent' = [spent EXCEPT !.commits = @ + 1] /\ commit.at = "idle"
      BY <1>2 DEF Commit
    <2>2. commit'.at # "drive"
      BY <1>2 DEF Commit, Idle
    <2>. QED BY <2>1, <2>2 DEF Typing, SpentTyped
  <1>3. ASSUME NEW op, Doing("unbind", op) \/ Doing("drive", op) \/ Doing("report", op)
        PROVE  commit'.at = "drive" => commit'.made = commit.made /\ commit.at \in {"unbind", "drive"}
    BY <1>3, GotoStep DEF Doing, Typing, GoesOn
  <1>4. ASSUME NEW op \in commit.left,
               \/ Unbind(op) \/ DriveUpdate(op) \/ DriveRemove(op)
               \/ ReportCreated(op) \/ ReportRemoved(op)
        PROVE  /\ UNCHANGED <<owners, next>> /\ spent'.views = spent.views
               /\ commit'.at = "drive" => commit'.made = commit.made /\ commit.at \in {"unbind", "drive"}
    BY <1>3, <1>4 DEF Unbind, DriveUpdate, DriveRemove, ReportCreated, ReportRemoved
  <1>5. ASSUME NEW op \in commit.left, CreateFails(op) \/ Crash(op)
        PROVE  UNCHANGED <<owners, next>> /\ spent'.views = spent.views /\ commit'.at # "drive"
    BY <1>5 DEF CreateFails, Crash, Idle, Typing, SpentTyped, CommitTyped, CommitShape
  <1>6. CASE Unbound
    BY <1>6, GotoStep DEF Unbound, Typing
  <1>7. CASE Return
    BY <1>7 DEF Return, Idle
  <1>8. ASSUME NEW h \in Heights, Resize(h)
        PROVE  UNCHANGED <<owners, next, commit>> /\ spent'.views = spent.views /\ commit.at = "idle"
    BY <1>8 DEF Resize, Typing, SpentTyped
  <1>9. \/ UNCHANGED vars
        \/ \E s \in Snapshots : Commit(s)
        \/ \E op \in commit.left : \/ Unbind(op) \/ DriveUpdate(op) \/ DriveRemove(op)
                                   \/ ReportCreated(op) \/ ReportRemoved(op)
        \/ \E op \in commit.left : CreateFails(op) \/ Crash(op)
        \/ \E op \in commit.left : DriveCreate(op)
        \/ Unbound \/ Return
        \/ \E h \in Heights : Resize(h)
    BY DEF Next, Apply, Drive, Report, Rest
  <1>10. CASE \E s \in Snapshots : Commit(s)
    BY <1>2, <1>10
  <1>11. CASE \E op \in commit.left : \/ Unbind(op) \/ DriveUpdate(op) \/ DriveRemove(op)
                                      \/ ReportCreated(op) \/ ReportRemoved(op)
    BY <1>4, <1>11
  <1>12. CASE \E op \in commit.left : CreateFails(op) \/ Crash(op)
    BY <1>5, <1>12
  <1>13. CASE \E op \in commit.left : DriveCreate(op)
    <2>1. UNCHANGED <<owners, next>>
      BY <1>13, DriveCreateFacts
    <2>. QED BY <1>13, <2>1
  <1>14. CASE \E h \in Heights : Resize(h)
    BY <1>8, <1>14
  <1>. QED BY <1>1, <1>6, <1>7, <1>9, <1>10, <1>11, <1>12, <1>13, <1>14

LEMMA NextDistinct == Typing /\ Distinct /\ [Next]_vars => Distinct'
  <1> SUFFICES ASSUME Typing, Distinct, [Next]_vars PROVE Distinct'
    OBVIOUS
  <1>1. CASE Record
    BY <1>1, RecordDistinct
  <1>2. ASSUME NEW op \in commit.left, DriveCreate(op) PROVE Distinct'
    <2> DEFINE v == spent.views + 1
    <2>1. /\ commit.at = "drive" /\ commit'.at = "drive" /\ spent'.views = v
          /\ DOMAIN commit'.made = DOMAIN commit.made \cup {op.surface.id}
          /\ \A i \in DOMAIN commit'.made :
               commit'.made[i] = IF i = op.surface.id THEN v ELSE commit.made[i]
          /\ UNCHANGED <<owners, next>>
      BY <1>2, DriveCreateFacts DEF GoesOn
    <2>2. /\ spent.views \in Nat
          /\ \A i \in DOMAIN owners : owners[i].view \in Nat
          /\ \A i \in DOMAIN commit.made : commit.made[i] \in Nat
      BY BoundsAssumption DEF Typing, SpentTyped, OwnersTyped, Owners, CommitTyped, Handles
    <2>. QED BY <2>1, <2>2 DEF Distinct
  <1>3. CASE /\ UNCHANGED <<owners, next>> /\ spent'.views = spent.views
             /\ commit'.at = "drive" => commit'.made = commit.made /\ commit.at \in {"unbind", "drive"}
    <2>1. commit.at = "unbind" => DOMAIN commit.made = {}
      BY DEF Typing, Batch
    <2>. QED BY <1>3, <2>1 DEF Distinct
  <1>. QED BY <1>1, <1>2, <1>3, OwnersStay

-----------------------------------------------------------------------------
(* Views bound to panes *)

\* A surface declares a source that names one pane as long as it is not declared
\* anew.
SourcesFixed ==
  \A d, e \in Declarable : d.id = e.id /\ d.generation = e.generation => d.pane = e.pane

\* The inductive invariant of what the channel may borrow: a bound view is alive
\* and its owner's, under the owner's pane; what a batch removes is unbound
\* before the driver begins, and what it reports is alive.
Binding ==
  /\ \A p \in Panes : bound[p] # NoView =>
       /\ bound[p] \in DOMAIN views
       /\ \E i \in DOMAIN owners : owners[i].surface.pane = p /\ owners[i].view = bound[p]
  /\ commit.at = "unbind" =>
       \A op \in Naming(Removals(commit.plan)) \ commit.left : bound[op.surface.pane] = NoView
  /\ commit.at = "drive" =>
       /\ \A op \in Naming(Removals(commit.plan)) : bound[op.surface.pane] = NoView
       /\ \A i \in DOMAIN commit.made : commit.made[i] \in DOMAIN views
  /\ commit.at = "report" => \A op \in Creations(commit.left) :
       owners[op.surface.id].view \in DOMAIN views

LEMMA InitBinding == Init => Binding
  BY DEF Init, Binding, Idle

LEMMA UnbindBinding ==
  ASSUME Typing, Binding, (\E op \in commit.left : Unbind(op)) \/ Unbound PROVE Binding'
  <1>1. /\ UNCHANGED <<owners, views>> /\ commit.at = "unbind"
        /\ DOMAIN commit.made = {} /\ CommitTyped /\ bound \in [Panes -> Handles \cup {NoView}]
    BY DEF Unbind, Unbound, Doing, Typing, Batch, HostTyped
  <1>2. ASSUME NEW op \in commit.left, Unbind(op) PROVE Binding'
    <2>1. GoesOn("unbind", commit.left \ {op}) /\ bound' = [bound EXCEPT ![op.surface.pane] = NoView]
      BY <1>1, <1>2, GotoStep DEF Unbind, Doing
    <2>2. \A o \in Naming(Removals(commit.plan)) : o.surface.pane \in Panes
      BY <1>1, DeclarableAssumption DEF CommitTyped, Naming, Removals, Operations
    <2>3. \A p \in Panes : bound'[p] = NoView \/ bound'[p] = bound[p]
      BY <1>1, <2>1
    <2>4. \A o \in Naming(Removals(commit.plan)) \ (commit.left \ {op}) :
            bound'[o.surface.pane] = NoView
      BY <1>1, <2>1, <2>2, <2>3 DEF Binding
    <2>. QED BY <1>1, <2>1, <2>3, <2>4 DEF Binding, GoesOn
  <1>3. CASE Unbound
    <2>1. GoesOn("drive", commit.plan) /\ commit'.made = commit.made /\ commit.left = {} /\ bound' = bound
      BY <1>1, <1>3, GotoStep DEF Unbound
    <2>. QED BY <1>1, <2>1 DEF Binding, GoesOn
  <1>. QED BY <1>2, <1>3

LEMMA DriveBinding ==
  ASSUME Typing, Distinct, Binding, NEW op \in commit.left, Drive(op) PROVE Binding'
  <1>1. CASE DriveCreate(op)
    <2>1. /\ commit.at = "drive" /\ GoesOn("drive", commit.left \ {op})
          /\ DOMAIN commit'.made = DOMAIN commit.made \cup {op.surface.id}
          /\ \A i \in DOMAIN commit'.made :
               commit'.made[i] = IF i = op.surface.id THEN spent.views + 1 ELSE commit.made[i]
          /\ DOMAIN views' = DOMAIN views \cup {spent.views + 1}
          /\ UNCHANGED <<owners, bound>>
      BY <1>1, DriveCreateFacts
    <2>. QED BY <2>1 DEF Binding, GoesOn
  <1>2. CASE CreateFails(op)
    BY <1>2 DEF CreateFails, Binding, Idle
  <1>3. CASE Crash(op)
    BY <1>3 DEF Crash, Binding, Typing, CommitTyped, CommitShape
  <1>4. CASE DriveUpdate(op) \/ DriveRemove(op)
    <2>1. /\ UNCHANGED <<owners, bound>> /\ Doing("drive", op)
          /\ \/ DOMAIN views' = DOMAIN views
             \/ op.action = "remove" /\ DOMAIN views' = DOMAIN views \ {op.view}
      <3>1. CASE DriveUpdate(op)
        <4>1. DOMAIN views' = DOMAIN views
          BY <3>1 DEF DriveUpdate
        <4>. QED BY <3>1, <4>1 DEF DriveUpdate
      <3>2. CASE DriveRemove(op)
        <4>1. DOMAIN views' = DOMAIN views \ {op.view}
          BY <3>2 DEF DriveRemove, Restrict
        <4>. QED BY <3>2, <4>1 DEF DriveRemove
      <3>. QED BY <1>4, <3>1, <3>2
    <2>2. /\ GoesOn("drive", commit.left \ {op}) /\ commit'.made = commit.made
          /\ commit.at = "drive"
      BY <2>1, GotoStep DEF Doing, Typing
    <2>3. CASE DOMAIN views' = DOMAIN views
      BY <2>1, <2>2, <2>3 DEF Binding, GoesOn
    <2>4. CASE op.action = "remove" /\ DOMAIN views' = DOMAIN views \ {op.view}
      <3> DEFINE i == op.surface.id
      <3>1. /\ i \in DOMAIN owners /\ op.surface = owners[i].surface /\ op.view = owners[i].view
        <4>1. op \in Plan(commit.snapshot) /\ commit.snapshot \in Snapshots /\ OwnersTyped
          BY <2>2 DEF Typing, Batch, CommitTyped
        <4>2. i \in DOMAIN owners /\ op = Removal(i, op.absent, op.layer)
          BY <2>4, <4>1, PlanFields
        <4>. QED BY <4>2 DEF Removal
      <3>2. \A p \in Panes : bound[p] # op.view \/ bound[p] = NoView
        <4>1. ASSUME NEW p \in Panes, bound[p] = op.view, bound[p] # NoView PROVE FALSE
          <5>1. PICK j \in DOMAIN owners : owners[j].surface.pane = p /\ owners[j].view = op.view
            BY <4>1 DEF Binding
          <5>2. j = i
            BY <3>1, <5>1 DEF Distinct
          <5>3. op \in Naming(Removals(commit.plan)) /\ op.surface.pane = p
            BY <2>4, <3>1, <5>1, <5>2, PanesAssumption DEF Naming, Removals, Typing, CommitTyped
          <5>. QED BY <2>2, <4>1, <5>3 DEF Binding
        <4>. QED BY <4>1
      <3>3. \A j \in DOMAIN commit.made : commit.made[j] # op.view
        BY <2>2, <3>1 DEF Distinct
      <3>. QED BY <2>1, <2>2, <2>4, <3>2, <3>3 DEF Binding, GoesOn
    <2>. QED BY <2>1, <2>3, <2>4
  <1>. QED BY <1>1, <1>2, <1>3, <1>4 DEF Drive

LEMMA RecordBinding == ASSUME SourcesFixed, Typing, Distinct, Binding, Record PROVE Binding'
  <1> DEFINE s == commit.snapshot
  <1>1. /\ DOMAIN owners' = {d.id : d \in s} /\ UNCHANGED <<views, bound>>
        /\ \A d \in s : owners'[d.id].surface = d
        /\ GoesOn("report", {op \in Naming(commit.plan) : op.action # "update"})
        /\ commit.at = "drive" /\ commit.plan = Plan(s) /\ s \in Snapshots /\ OwnersTyped
    BY RecordStep, RecordedSurface DEF Typing, Batch, CommitTyped
  <1>2. ASSUME NEW p \in Panes, bound[p] # NoView
        PROVE  \E i \in DOMAIN owners' : owners'[i].surface.pane = p /\ owners'[i].view = bound[p]
    <2>1. PICK i \in DOMAIN owners : owners[i].surface.pane = p /\ owners[i].view = bound[p]
      BY <1>2 DEF Binding
    <2>2. ASSUME NEW op \in Plan(s), op.action = "remove", op.surface = owners[i].surface PROVE FALSE
      <3>1. op \in Naming(Removals(commit.plan)) /\ op.surface.pane = p
        BY <1>1, <2>1, <2>2, PanesAssumption DEF Naming, Removals
      <3>. QED BY <1>1, <1>2, <3>1 DEF Binding
    <2>3. PICK d \in s : d.id = i
      <3>1. CASE \A d \in s : d.id # i
        <4>1. Removal(i, TRUE, 0) \in Plan(s)
          BY <3>1, PlanElements DEF Dropping
        <4>. QED BY <2>2, <4>1 DEF Removal
      <3>. QED BY <3>1
    <2>4. Held(d) /\ ~Renewed(d)
      <3>1. CASE Renewed(d)
        <4>1. Removal(d.id, FALSE, d.layer) \in Plan(s)
          BY <3>1, PlanElements DEF Replacing
        <4>. QED BY <2>2, <2>3, <4>1 DEF Removal
      <3>. QED BY <2>3, <3>1 DEF Held
    <2>5. owners[i].surface.generation = d.generation /\ owners'[i].view = owners[i].view
      BY <2>3, <2>4, RecordedOwner
    <2>6. d.pane = p
      <3>1. owners[i].surface \in Declarable /\ owners[i].surface.id = i /\ d \in Declarable
        BY <1>1 DEF OwnersTyped, Owners, Snapshots
      <3>. QED BY <2>1, <2>3, <2>5, <3>1 DEF SourcesFixed
    <2>. QED BY <1>1, <2>1, <2>3, <2>5, <2>6
  <1>3. ASSUME NEW op \in Creations(commit'.left) PROVE owners'[op.surface.id].view \in DOMAIN views'
    <2>1. op \in Plan(s) /\ op.action = "create"
      BY <1>1, <1>3 DEF GoesOn, Creations, Naming
    <2>2. op.surface \in s /\ (Renewed(op.surface) \/ ~Held(op.surface))
      BY <1>1, <2>1, PlanFields
    <2>3. /\ op.surface.id \in DOMAIN commit.made
          /\ owners'[op.surface.id].view = commit.made[op.surface.id]
      BY <2>2, RecordedOwner
    <2>. QED BY <1>1, <2>3 DEF Binding
  <1>. QED BY <1>1, <1>2, <1>3 DEF Binding, GoesOn

LEMMA ReportBinding ==
  ASSUME Typing, Binding, NEW op \in commit.left, Report(op) PROVE Binding'
  <1>1. Doing("report", op) /\ commit.at = "report" /\ UNCHANGED <<owners, views>>
    BY DEF Report, ReportCreated, ReportRemoved, Doing
  <1>2. GoesOn("report", commit.left \ {op})
    BY <1>1, GotoStep DEF Doing, Typing
  <1>3. ASSUME NEW p \in Panes, bound'[p] # NoView
        PROVE  /\ bound'[p] \in DOMAIN views
               /\ \E i \in DOMAIN owners : owners[i].surface.pane = p /\ owners[i].view = bound'[p]
    <2>1. CASE bound'[p] = bound[p]
      BY <1>3, <2>1 DEF Binding
    <2>2. CASE ReportCreated(op)
      <3>1. /\ bound' = [bound EXCEPT ![op.surface.pane] = owners[op.surface.id].view]
            /\ op \in Creations(commit.left)
        BY <2>2 DEF ReportCreated, Creations
      <3>2. /\ op.surface.id \in DOMAIN owners /\ owners[op.surface.id].surface = op.surface
            /\ owners[op.surface.id].view \in DOMAIN views
        BY <1>1, <3>1 DEF Typing, Batch, Binding, Creations, Held
      <3>3. CASE p = op.surface.pane
        BY <3>1, <3>2, <3>3 DEF Typing, HostTyped
      <3>. QED BY <2>1, <3>1, <3>3 DEF Typing, HostTyped
    <2>. QED BY <2>1, <2>2 DEF Report, ReportRemoved
  <1>. QED BY <1>1, <1>2, <1>3 DEF Binding, GoesOn, Creations

LEMMA NextBinding ==
  SourcesFixed /\ Typing /\ Distinct /\ Binding /\ [Next]_vars => Binding'
  <1> SUFFICES ASSUME SourcesFixed, Typing, Distinct, Binding, [Next]_vars PROVE Binding'
    OBVIOUS
  <1>1. CASE UNCHANGED vars
    BY <1>1 DEF vars, Binding
  <1>2. ASSUME NEW s \in Snapshots, Commit(s) PROVE Binding'
    <2>1. UNCHANGED <<owners, views, bound>> /\ commit.at = "idle"
      BY <1>2 DEF Commit
    <2>2. UNCHANGED commit \/ (commit'.at = "unbind" /\ commit'.left = Naming(Removals(commit'.plan)))
      BY <1>2 DEF Commit, Idle
    <2>. QED BY <2>1, <2>2 DEF Binding
  <1>3. CASE Return
    BY <1>3 DEF Return, Binding, Idle, hostVars
  <1>4. ASSUME NEW h \in Heights, Resize(h) PROVE Binding'
    BY <1>4 DEF Resize, Binding
  <1>. QED BY <1>1, <1>2, <1>3, <1>4, UnbindBinding, DriveBinding, RecordBinding, ReportBinding
           DEF Next, Apply, Rest

LEMMA InvariantBinding == SourcesFixed => (Spec => [](Typing /\ Distinct /\ Binding))
  <1> SUFFICES ASSUME SourcesFixed PROVE Spec => [](Typing /\ Distinct /\ Binding)
    OBVIOUS
  <1>1. Typing /\ Distinct /\ Binding /\ [Next]_vars => Binding'
    BY NextBinding
  <1>. QED BY <1>1, InitTyping, NextTyping, InitDistinct, NextDistinct, InitBinding, PTL DEF Spec

\* As long as a surface names one pane, the channel never borrows a view that has
\* been released: not between two calls of a commit, and not after a driver that
\* failed half way through one.
THEOREM BoundViewsLive == SourcesFixed => (Spec => []BoundViewsAreAlive)
  <1>1. Binding => BoundViewsAreAlive
    BY DEF Binding, BoundViewsAreAlive
  <1>. QED BY <1>1, InvariantBinding, PTL

-----------------------------------------------------------------------------
(* What the host is told of *)

\* The inductive invariant behind the order of the reports: a batch has an order,
\* and what it still has to report was given its life after everything reported,
\* in that order.
InOrder ==
  /\ newest <= next
  /\ \A a, b \in commit.plan : a # b => Precedes(a, b) \/ Precedes(b, a)
  /\ commit.at = "report" => \A a \in Creations(commit.left) :
       /\ owners[a.surface.id].life > newest
       /\ \A b \in Creations(commit.left) :
            Precedes(a, b) => owners[a.surface.id].life < owners[b.surface.id].life

\* The operation at hand precedes all that is left.
LEMMA FirstLeft ==
  ASSUME Typing, InOrder, commit.left # {}
  PROVE  /\ First(commit.left) \in commit.left
         /\ \A other \in commit.left \ {First(commit.left)} : Precedes(First(commit.left), other)
  <1>1. IsFiniteSet(commit.left) /\ commit.left \subseteq Operations /\ commit.left \subseteq commit.plan
    <2>1. IsFiniteSet(commit.plan) /\ commit.left \in SUBSET commit.plan /\ commit.plan \subseteq Operations
      BY DEF Typing, CommitTyped
    <2>. QED BY <2>1, FS_Subset
  <1>2. \A a, b, c \in commit.left :
          /\ ~Precedes(a, a) /\ (a # b => Precedes(a, b) \/ Precedes(b, a))
          /\ Precedes(a, b) /\ Precedes(b, c) => Precedes(a, c)
    BY <1>1, PrecedesOrder DEF InOrder
  <1>. QED BY <1>1, <1>2, FirstIsFirst

LEMMA InitInOrder == Init => InOrder
  BY DEF Init, InOrder, Idle

LEMMA RecordInOrder == ASSUME Typing, InOrder, Record PROVE InOrder'
  <1> DEFINE creations == Creations(commit.plan)
  <1>1. /\ GoesOn("report", {op \in Naming(commit.plan) : op.action # "update"})
        /\ commit.plan = Plan(commit.snapshot) /\ commit.snapshot \in Snapshots /\ OwnersTyped
        /\ next' = next + Cardinality(creations) /\ newest' = newest
    BY RecordStep DEF Typing, Batch, CommitTyped
  <1>2. creations \subseteq Operations /\ IsFiniteSet(creations)
    <2>1. creations \in SUBSET commit.plan
      BY DEF Creations
    <2>. QED BY <2>1, FS_Subset DEF Typing, CommitTyped
  <1>3. /\ next \in Nat /\ newest \in Nat /\ newest <= next /\ Cardinality(creations) \in Nat
        /\ \A a \in creations : Ranked(creations, a) \in Nat
    <2>1. Cardinality(creations) \in Nat
      BY <1>2, FS_CardinalityType
    <2>2. /\ \A b \in creations : ~Precedes(b, b)
          /\ \A b, c, f \in creations : Precedes(b, c) /\ Precedes(c, f) => Precedes(b, f)
      BY <1>2, PrecedesOrder
    <2> HIDE DEF creations
    <2>3. \A a \in creations : Ranked(creations, a) \in 1 .. Cardinality(creations)
      BY <1>2, <2>2, RankedInOrder
    <2>. QED BY <2>1, <2>3 DEF Typing, HostTyped, InOrder, Lives
  <1>4. ASSUME NEW a \in Creations(commit'.left)
        PROVE  /\ a \in creations /\ owners'[a.surface.id].life > next
               /\ owners'[a.surface.id].life = next + Ranked(creations, a)
    <2>1. a \in Plan(commit.snapshot) /\ a.action = "create" /\ a \in creations
      BY <1>1, <1>4 DEF GoesOn, Creations, Naming
    <2>2. /\ a.surface \in commit.snapshot /\ a = Creation(a.surface)
          /\ Renewed(a.surface) \/ ~Held(a.surface)
      BY <1>1, <2>1, PlanFields
    <2>3. /\ owners'[a.surface.id].life > next
          /\ owners'[a.surface.id].life = next + Ranked(creations, Creation(a.surface))
      BY <2>2, RecordedOwner
    <2>. QED BY <2>1, <2>2, <2>3
  <1>5. \A a, b \in creations : Precedes(a, b) => Ranked(creations, a) < Ranked(creations, b)
    <2>1. /\ \A b \in creations : ~Precedes(b, b)
          /\ \A b, c, f \in creations : Precedes(b, c) /\ Precedes(c, f) => Precedes(b, f)
      BY <1>2, PrecedesOrder
    <2> HIDE DEF creations
    <2>. QED BY <1>2, <2>1, RankedInOrder
  <1>6. newest' <= next'
    <2> HIDE DEF creations
    <2>. QED BY <1>1, <1>3
  <1>7. \A a \in Creations(commit'.left) :
          /\ owners'[a.surface.id].life > newest'
          /\ \A b \in Creations(commit'.left) :
               Precedes(a, b) => owners'[a.surface.id].life < owners'[b.surface.id].life
    <2> HIDE DEF creations
    <2>1. ASSUME NEW a \in Creations(commit'.left), NEW b \in Creations(commit'.left), Precedes(a, b)
          PROVE  owners'[a.surface.id].life < owners'[b.surface.id].life
      BY <1>3, <1>4, <1>5, <2>1
    <2>2. ASSUME NEW a \in Creations(commit'.left) PROVE owners'[a.surface.id].life > newest'
      BY <1>1, <1>3, <1>4, <2>2
    <2>. QED BY <2>1, <2>2
  <1>. QED BY <1>1, <1>6, <1>7 DEF InOrder, GoesOn

LEMMA ReportInOrder ==
  ASSUME Typing, Distinct, InOrder, NEW op \in commit.left, Report(op)
  PROVE  InOrder' /\ [Promise!Next]_(Promise!vars)
  <1>1. Doing("report", op) /\ UNCHANGED <<owners, next>>
    BY DEF Report, ReportCreated, ReportRemoved
  <1>2. /\ GoesOn("report", commit.left \ {op}) /\ op = First(commit.left) /\ commit.at = "report"
        /\ \A other \in commit.left \ {op} : Precedes(op, other)
    BY <1>1, GotoStep, FirstLeft DEF Doing, Typing
  <1>3. /\ op.surface.pane \in Panes
    BY <1>2, DeclarableAssumption DEF Typing, Batch, CommitTyped, Operations
  <1>4. Creations(commit'.left) \subseteq Creations(commit.left)
    BY <1>2 DEF GoesOn, Creations
  <1>5. CASE ReportCreated(op)
    <2> DEFINE owner == owners[op.surface.id]
               d == [generation |-> owner.life, pane |-> op.surface.pane]
    <2>1. op \in Creations(commit.left) /\ reported' = reported \cup {d} /\ newest' = owner.life
      BY <1>5 DEF ReportCreated, Creations
    <2>2. op.surface.id \in DOMAIN owners
      BY <1>2, <2>1 DEF Typing, Batch, Creations, Held
    <2>3. owner.life \in Lives /\ owner.life > newest
      BY <1>2, <2>1, <2>2 DEF Typing, OwnersTyped, Owners, InOrder
    <2>4. \A b \in Creations(commit'.left) : owners[b.surface.id].life > owner.life
      <3>1. ASSUME NEW b \in Creations(commit'.left) PROVE owners[b.surface.id].life > owner.life
        <4>1. b \in Creations(commit.left) /\ Precedes(op, b)
          BY <1>2, <1>4, <3>1 DEF GoesOn, Creations
        <4>2. owner.life < owners[b.surface.id].life
          BY <1>2, <2>1, <4>1 DEF InOrder
        <4>. QED BY <4>2
      <3>. QED BY <3>1
    <2>5. newest' <= next'
      BY <1>1, <2>1, <2>2 DEF Distinct
    <2>6. InOrder'
      BY <1>1, <1>2, <1>4, <2>1, <2>4, <2>5 DEF InOrder, GoesOn
    <2>7. Promise!Appear(d) /\ d \in [generation : Lives, pane : Panes]
      BY <1>3, <2>1, <2>3 DEF Promise!Appear
    <2>. QED BY <2>6, <2>7 DEF Promise!Next
  <1>6. CASE ReportRemoved(op)
    <2> DEFINE d == [generation |-> op.life, pane |-> op.surface.pane]
    <2>1. reported' = reported \ {d} /\ newest' = newest
      BY <1>6 DEF ReportRemoved
    <2>2. InOrder'
      BY <1>1, <1>2, <1>4, <2>1 DEF InOrder, GoesOn
    <2>3. CASE d \in reported
      <3>1. d \in [generation : Lives, pane : Panes] /\ Promise!Go(d)
        BY <2>1, <2>3 DEF Typing, HostTyped, Promise!Go
      <3>. QED BY <2>2, <3>1 DEF Promise!Next
    <2>4. CASE d \notin reported
      <3>1. UNCHANGED <<newest, reported>>
        BY <2>1, <2>4
      <3>. QED BY <2>2, <3>1 DEF Promise!vars
    <2>. QED BY <2>3, <2>4
  <1>. QED BY <1>5, <1>6 DEF Report

LEMMA NextInOrder ==
  Typing /\ Distinct /\ InOrder /\ [Next]_vars => InOrder' /\ [Promise!Next]_(Promise!vars)
  <1> SUFFICES ASSUME Typing, Distinct, InOrder, [Next]_vars
               PROVE  InOrder' /\ [Promise!Next]_(Promise!vars)
    OBVIOUS
  <1>1. CASE UNCHANGED vars
    BY <1>1 DEF vars, InOrder, Promise!vars
  <1>2. ASSUME NEW s \in Snapshots, Commit(s) PROVE InOrder' /\ UNCHANGED <<newest, reported>>
    <2>1. UNCHANGED <<next, newest, reported>>
      BY <1>2 DEF Commit, hostVars
    <2>2. UNCHANGED commit \/ (commit'.at = "unbind" /\ commit'.plan = Plan(s))
      BY <1>2 DEF Commit, Idle
    <2>3. commit.at = "idle"
      BY <1>2 DEF Commit
    <2>4. \A a, b \in Plan(s) : a # b => Precedes(a, b) \/ Precedes(b, a)
      BY PlanOrdered DEF Typing
    <2>. QED BY <2>1, <2>2, <2>3, <2>4 DEF InOrder
  <1>3. ASSUME UNCHANGED <<next, newest, reported>>, commit'.at # "report",
               commit'.plan = commit.plan \/ commit'.plan = {}
        PROVE  InOrder' /\ UNCHANGED <<newest, reported>>
    BY <1>3 DEF InOrder
  <1>4. ASSUME NEW op \in commit.left, Unbind(op) \/ DriveUpdate(op) \/ DriveRemove(op)
        PROVE  InOrder' /\ UNCHANGED <<newest, reported>>
    <2>1. Doing("unbind", op) \/ Doing("drive", op)
      BY <1>4 DEF Unbind, DriveUpdate, DriveRemove
    <2>2. commit'.at # "report" /\ commit'.plan = commit.plan
      BY <2>1, GotoStep DEF Doing, GoesOn, Typing
    <2>. QED BY <1>3, <1>4, <2>2 DEF Unbind, DriveUpdate, DriveRemove, hostVars
  <1>5. ASSUME NEW op \in commit.left, DriveCreate(op) PROVE InOrder' /\ UNCHANGED <<newest, reported>>
    BY <1>3, <1>5, DriveCreateFacts DEF GoesOn
  <1>6. ASSUME NEW op \in commit.left, CreateFails(op) \/ Crash(op)
        PROVE  InOrder' /\ UNCHANGED <<newest, reported>>
    BY <1>3, <1>6 DEF CreateFails, Crash, Idle, hostVars, Typing, CommitTyped, CommitShape
  <1>7. CASE Unbound
    <2>1. commit'.at # "report" /\ commit'.plan = commit.plan
      BY <1>7, GotoStep DEF Unbound, GoesOn, Typing
    <2>. QED BY <1>3, <1>7, <2>1 DEF Unbound, hostVars, Promise!vars
  <1>8. CASE Return
    BY <1>3, <1>8 DEF Return, Idle, hostVars, Promise!vars
  <1>9. ASSUME NEW h \in Heights, Resize(h) PROVE InOrder' /\ UNCHANGED <<newest, reported>>
    BY <1>9 DEF Resize, InOrder, hostVars
  <1>10. CASE Record
    <2>1. UNCHANGED <<newest, reported>>
      BY <1>10, RecordStep
    <2>. QED BY <1>10, <2>1, RecordInOrder DEF Promise!vars
  <1>11. UNCHANGED <<newest, reported>> => UNCHANGED Promise!vars
    BY DEF Promise!vars
  <1>. QED BY <1>1, <1>2, <1>4, <1>5, <1>6, <1>7, <1>8, <1>9, <1>10, <1>11, ReportInOrder
           DEF Next, Apply, Drive, Report, Rest

\* Apply reports as ObservePanes promises: whatever is committed and whatever the
\* driver fails to create, a pane appears once, under a generation above every
\* one reported before, and goes with the one it appeared under.
THEOREM ReportsKeepPromise == Spec => ReportsInOrder
  <1>1. Init => Promise!Init
    BY DEF Init, Promise!Init
  <1>2. Typing /\ Distinct /\ InOrder /\ [Next]_vars => InOrder' /\ [Promise!Next]_(Promise!vars)
    BY NextInOrder
  <1>3. Init => InOrder
    BY InitInOrder
  <1>. QED BY <1>1, <1>2, <1>3, InitTyping, NextTyping, InitDistinct, NextDistinct, PTL
           DEF Spec, ReportsInOrder, Promise!Spec

-----------------------------------------------------------------------------
(* Hosts of the owners *)

\* What the driver has done of the batch under way.
Finished == {op \in commit.plan \ commit.left : commit.at = "drive"}
Done(i, action) == \E op \in Finished : op.surface.id = i /\ op.action = action
Made(i, v) == commit.at = "drive" /\ i \in DOMAIN commit.made /\ commit.made[i] = v

\* The inductive invariant of the hosts.  An owner's view is in the window under
\* the owner's id, unless the driver has removed it or a failed commit may have;
\* a host is its owner's, or was just made, or is left by a failed commit.
Standing ==
  IF commit.at = "crashed" THEN torn # {} ELSE
  /\ \A i \in DOMAIN owners :
       /\ owners[i].view \in DOMAIN views => views[owners[i].view].id = i /\ ~Done(i, "remove")
       /\ owners[i].view \notin DOMAIN views => i \in torn \/ Done(i, "remove")
  /\ \A v \in DOMAIN views :
       \/ views[v].id \in torn
       \/ views[v].id \in DOMAIN owners /\ owners[views[v].id].view = v
       \/ Made(views[v].id, v)
  /\ commit.at = "drive" => \A i \in DOMAIN commit.made :
       commit.made[i] \in DOMAIN views /\ views[commit.made[i]].id = i

\* Where the driver places a host.
OnDeclared(v, frame) == AsDeclared(views[v], views[v].content, frame)

\* A host is where its owner was declared, unless the driver has moved it or a
\* failed commit may have; what the driver has placed is where the batch wants it.
Placed ==
  commit.at # "crashed" =>
    /\ \A i \in DOMAIN owners : owners[i].view \in DOMAIN views =>
         \/ OnDeclared(owners[i].view, owners[i].surface.frame)
         \/ i \in torn \/ Done(i, "update")
    /\ \A op \in Finished :
         /\ op.action = "create" => OnDeclared(commit.made[op.surface.id], op.surface.frame)
         /\ op.action = "update" /\ op.view \in DOMAIN views => OnDeclared(op.view, op.surface.frame)

\* Owners are what was last applied, but for what a failed commit had begun on;
\* once recorded, they are what is being committed.
Declared ==
  IF commit.at = "report"
  THEN /\ \A d \in commit.snapshot : Held(d) /\ owners[d.id].surface = d
       /\ DOMAIN owners = {d.id : d \in commit.snapshot}
  ELSE /\ \A d \in inventory : d.id \in torn \/ (Held(d) /\ owners[d.id].surface = d)
       /\ DOMAIN owners \subseteq {d.id : d \in inventory} \cup torn

LEMMA HostsHold ==
  ASSUME Typing, Distinct, Standing, Placed, Declared
  PROVE  CrashOnlyAfterFailure /\ OneViewPerSurface /\ InventoryApplied
  <1>1. CrashOnlyAfterFailure
    BY DEF Standing, CrashOnlyAfterFailure
  <1>2. CASE commit.at = "idle"
    <2>1. \A i, action : ~Done(i, action)
      BY <1>2 DEF Done, Finished
    <2>2. \A i, v : ~Made(i, v)
      BY <1>2 DEF Made
    <2>3. OneViewPerSurface
      <3>1. ASSUME NEW v \in DOMAIN views, views[v].id \notin torn
            PROVE  {i \in DOMAIN owners : owners[i].view = v} = {views[v].id}
        <4>1. views[v].id \in DOMAIN owners /\ owners[views[v].id].view = v
          BY <1>2, <2>2, <3>1 DEF Standing
        <4>2. \A i \in DOMAIN owners : owners[i].view = v => i = views[v].id
          BY <4>1 DEF Distinct
        <4>. QED BY <4>1, <4>2
      <3>. QED BY <3>1 DEF OneViewPerSurface
    <2>4. InventoryApplied
      <3>1. ASSUME NEW d \in inventory, d.id \notin torn
            PROVE  /\ Held(d) /\ owners[d.id].surface = d /\ owners[d.id].view \in DOMAIN views
                   /\ OnDeclared(owners[d.id].view, d.frame)
        <4>1. d.id \in DOMAIN owners /\ owners[d.id].surface = d
          BY <1>2, <3>1 DEF Declared, Held
        <4>2. owners[d.id].view \in DOMAIN views
          BY <1>2, <2>1, <3>1, <4>1 DEF Standing
        <4>3. OnDeclared(owners[d.id].view, d.frame)
          BY <1>2, <2>1, <3>1, <4>1, <4>2 DEF Placed
        <4>. QED BY <4>1, <4>2, <4>3 DEF Held
      <3>2. DOMAIN owners \subseteq {d.id : d \in inventory} \cup torn
        BY <1>2 DEF Declared
      <3>. QED BY <3>1, <3>2 DEF InventoryApplied, OnDeclared
    <2>. QED BY <1>1, <2>3, <2>4
  <1>. QED BY <1>1, <1>2 DEF OneViewPerSurface, InventoryApplied, AtRest

LEMMA HostDeclared ==
  ASSUME height \in Heights, NEW d \in Declarable
  PROVE  HostOf(d).id = d.id /\ AsDeclared(HostOf(d), HostOf(d).content, d.frame)
  <1>1. height \in Int /\ d.frame.y \in Int /\ d.frame.height \in Int
    BY HeightsAssumption, DeclarableAssumption DEF Frames
  <1>. QED BY <1>1 DEF HostOf, PlaceRect, AsDeclared

LEMMA InitHosts == Init => Standing /\ Placed /\ Declared
  <1> SUFFICES ASSUME Init PROVE Standing /\ Placed /\ Declared
    OBVIOUS
  <1>1. DOMAIN owners = {} /\ DOMAIN views = {} /\ commit.at = "idle" /\ inventory = {}
    BY DEF Init, Idle
  <1>. QED BY <1>1 DEF Standing, Placed, Declared, Finished

\* Steps outside the driver leave owners and hosts alone.
LEMMA QuietStep ==
  ASSUME Typing, [Next]_vars, commit.at \notin {"drive", "crashed"}
  PROVE  /\ UNCHANGED <<owners, views, torn>>
         /\ Finished = {} /\ Finished' = {} /\ commit'.at # "crashed"
         /\ commit'.at = "drive" => DOMAIN commit'.made = {}
         /\ \/ UNCHANGED inventory /\ commit.at # "report" /\ commit'.at # "report"
            \/ UNCHANGED inventory /\ commit.at = "report" /\ commit'.at = "report"
               /\ commit'.snapshot = commit.snapshot
            \/ Return
            \/ \E s \in Snapshots : Commit(s) /\ Plan(s) = {}
  <1>1. Finished = {}
    BY DEF Finished
  <1>2. CASE UNCHANGED vars
    BY <1>1, <1>2 DEF vars, Finished
  <1>3. ASSUME NEW s \in Snapshots, Commit(s)
        PROVE  /\ UNCHANGED <<owners, views, torn>> /\ commit'.at \in {"idle", "unbind"}
               /\ commit.at = "idle" /\ (Plan(s) = {} \/ UNCHANGED inventory)
    <2>1. commit'.at \in {"idle", "unbind"} /\ (Plan(s) = {} \/ UNCHANGED inventory)
      BY <1>3 DEF Commit, Idle
    <2>. QED BY <1>3, <2>1 DEF Commit
  <1>4. ASSUME NEW op \in commit.left, Unbind(op) \/ Report(op)
        PROVE  /\ UNCHANGED <<owners, views, torn, inventory>> /\ commit'.at = commit.at
               /\ commit.at \in {"unbind", "report"} /\ commit'.snapshot = commit.snapshot
    <2>1. Doing("unbind", op) \/ Doing("report", op)
      BY <1>4 DEF Unbind, Report, ReportCreated, ReportRemoved
    <2>2. /\ commit'.at = commit.at /\ commit.at \in {"unbind", "report"}
          /\ commit'.snapshot = commit.snapshot
      BY <2>1, GotoStep DEF Doing, Typing, GoesOn
    <2>. QED BY <1>4, <2>2 DEF Unbind, Report, ReportCreated, ReportRemoved
  <1>5. CASE Unbound
    <2>1. GoesOn("drive", commit.plan) /\ commit'.made = commit.made /\ commit.at = "unbind"
      BY <1>5, GotoStep DEF Unbound, Typing
    <2>2. DOMAIN commit'.made = {} /\ Finished' = {} /\ commit'.at = "drive"
      BY <2>1 DEF Typing, Batch, Finished, GoesOn
    <2>. QED BY <1>1, <1>5, <2>1, <2>2 DEF Unbound
  <1>6. CASE Return
    <2>1. commit'.at = "idle"
      BY <1>6 DEF Return, Idle
    <2>. QED BY <1>1, <1>6, <2>1 DEF Return, Finished
  <1>7. ASSUME NEW h \in Heights, Resize(h)
        PROVE  UNCHANGED <<owners, views, torn, inventory>> /\ commit.at = "idle" /\ commit' = commit
    BY <1>7 DEF Resize
  <1>8. \/ \E s \in Snapshots : Commit(s)
        \/ \E op \in commit.left : Unbind(op) \/ Report(op)
        \/ Unbound \/ Return
        \/ \E h \in Heights : Resize(h)
        \/ UNCHANGED vars
    BY DEF Next, Apply, Drive, DriveCreate, CreateFails, DriveUpdate, DriveRemove, Doing, Crash,
           Record, Rest
  <1>9. CASE \E s \in Snapshots : Commit(s)
    BY <1>1, <1>3, <1>9 DEF Finished
  <1>10. CASE \E op \in commit.left : Unbind(op) \/ Report(op)
    BY <1>1, <1>4, <1>10 DEF Finished
  <1>11. CASE \E h \in Heights : Resize(h)
    BY <1>1, <1>7, <1>11 DEF Finished
  <1>. QED BY <1>2, <1>5, <1>6, <1>8, <1>9, <1>10, <1>11

LEMMA QuietHosts ==
  ASSUME Typing, Standing, Placed, Declared, [Next]_vars, commit.at \notin {"drive", "crashed"}
  PROVE  Standing' /\ Placed' /\ Declared'
  <1>1. /\ UNCHANGED <<owners, views, torn>>
        /\ Finished = {} /\ Finished' = {} /\ commit'.at # "crashed"
        /\ commit'.at = "drive" => DOMAIN commit'.made = {}
    BY QuietStep
  <1>2. Standing'
    BY <1>1 DEF Standing, Done, Made
  <1>3. Placed'
    BY <1>1 DEF Placed, Done, OnDeclared
  <1>4. CASE Return
    <2>1. commit.at = "report" /\ inventory' = commit.snapshot /\ commit'.at = "idle"
      BY <1>4 DEF Return, Idle
    <2>. QED BY <1>1, <1>2, <1>3, <2>1 DEF Declared, Held
  <1>5. ASSUME NEW s \in Snapshots, Commit(s), Plan(s) = {} PROVE Declared'
    <2>1. inventory' = s /\ commit'.at = "idle"
      BY <1>5 DEF Commit
    <2>2. ASSUME NEW d \in s PROVE Held(d) /\ owners[d.id].surface = d
      <3>1. Kept(d)
        BY <1>5, PlanElements DEF Kept, Creating, Moving
      <3>2. /\ d.id \in DOMAIN owners /\ owners[d.id].surface \in Declarable
            /\ owners[d.id].surface.id = d.id /\ d \in Declarable
        BY <3>1 DEF Typing, OwnersTyped, Owners, Snapshots, Kept, Held
      <3>3. /\ owners[d.id].surface.generation = d.generation
            /\ owners[d.id].surface.frame = d.frame /\ owners[d.id].surface.layer = d.layer
            /\ owners[d.id].surface.pane = d.pane
        BY <3>1, KeptIsEqual DEF PlacementEqual
      <3>. QED BY <3>2, <3>3, DeclarableAssumption DEF Held
    <2>3. ASSUME NEW i \in DOMAIN owners PROVE \E d \in s : d.id = i
      <3>1. CASE \A d \in s : d.id # i
        <4>1. Removal(i, TRUE, 0) \in Plan(s)
          BY <3>1, PlanElements DEF Dropping
        <4>. QED BY <1>5, <4>1
      <3>. QED BY <3>1
    <2>. QED BY <1>1, <2>1, <2>2, <2>3 DEF Declared, Held
  <1>6. CASE UNCHANGED inventory /\ commit.at # "report" /\ commit'.at # "report"
    BY <1>1, <1>2, <1>3, <1>6 DEF Declared, Held
  <1>7. CASE /\ UNCHANGED inventory /\ commit.at = "report" /\ commit'.at = "report"
             /\ commit'.snapshot = commit.snapshot
    BY <1>1, <1>2, <1>3, <1>7 DEF Declared, Held
  <1>. QED BY <1>2, <1>3, <1>4, <1>5, <1>6, <1>7, QuietStep

\* What the driver has done grows by the operation at hand.
LEMMA FinishedStep ==
  ASSUME Typing, NEW op \in commit.left, commit.at = "drive", GoesOn("drive", commit.left \ {op})
  PROVE  /\ Finished' = Finished \cup {op}
         /\ \A i, action : Done(i, action)' <=>
              Done(i, action) \/ (op.surface.id = i /\ op.action = action)
  <1>1. Finished' = Finished \cup {op}
    BY DEF Finished, GoesOn, Typing, CommitTyped
  <1>. QED BY <1>1 DEF Done

\* An update or a removal is about the view of an owner, and only one of either
\* is in a batch.
LEMMA OwnersOperation ==
  ASSUME Typing, commit.at = "drive", NEW op \in commit.plan, op.action \in {"update", "remove"}
  PROVE  /\ op.surface.id \in DOMAIN owners /\ op.view = owners[op.surface.id].view
         /\ \A other \in commit.plan :
              other.surface.id = op.surface.id /\ other.action \in {"update", "remove"} => other = op
  <1>1. OwnersTyped /\ commit.snapshot \in Snapshots /\ commit.plan = Plan(commit.snapshot)
    BY DEF Typing, Batch, CommitTyped
  <1>2. op.surface.id \in DOMAIN owners /\ op.view = owners[op.surface.id].view
    <2>1. CASE op.action = "update"
      <3>1. op = Update(op.surface) /\ Moved(op.surface)
        BY <1>1, <2>1, PlanFields
      <3>2. Update(op.surface).view = owners[op.surface.id].view
        BY DEF Update
      <3>. QED BY <3>1, <3>2 DEF Moved, Held
    <2>2. CASE op.action = "remove"
      <3>1. op.surface.id \in DOMAIN owners /\ op = Removal(op.surface.id, op.absent, op.layer)
        BY <1>1, <2>2, PlanFields
      <3>2. \A i, absent, layer : Removal(i, absent, layer).view = owners[i].view
        BY DEF Removal
      <3>. QED BY <3>1, <3>2
    <2>. QED BY <2>1, <2>2
  <1>3. ASSUME NEW other \in commit.plan, other.surface.id = op.surface.id,
               other.action \in {"update", "remove"}
        PROVE  other = op
    BY <1>1, <1>3, PlanSingle
  <1>. QED BY <1>2, <1>3

\* What has been done of the batch is of the plan, and not what is at hand.
LEMMA DoneOperation ==
  ASSUME Typing, NEW i, NEW action, Done(i, action)
  PROVE  /\ commit.at = "drive"
         /\ \E op \in commit.plan \ commit.left : op.surface.id = i /\ op.action = action
  BY DEF Done, Finished

LEMMA CreateHosts ==
  ASSUME Typing, Distinct, Standing, Placed, Declared, NEW op \in commit.left, DriveCreate(op)
  PROVE  Standing' /\ Placed' /\ Declared'
  <1> DEFINE i == op.surface.id
  <1>0. PICK v : v = spent.views + 1
    OBVIOUS
  <1>1. /\ commit.at = "drive" /\ commit'.at = "drive" /\ op.action = "create"
        /\ GoesOn("drive", commit.left \ {op})
        /\ DOMAIN commit'.made = DOMAIN commit.made \cup {i}
        /\ \A j \in DOMAIN commit'.made : commit'.made[j] = IF j = i THEN v ELSE commit.made[j]
        /\ DOMAIN views' = DOMAIN views \cup {v}
        /\ \A w \in DOMAIN views' : views'[w] = IF w = v THEN HostOf(op.surface) ELSE views[w]
        /\ UNCHANGED <<owners, inventory, torn>>
    BY <1>0, DriveCreateFacts DEF GoesOn
  <1>2. /\ \A j, action : Done(j, action)' <=> Done(j, action) \/ (i = j /\ action = "create")
        /\ Finished' = Finished \cup {op}
    <2>1. /\ Finished' = Finished \cup {op}
          /\ \A j, action : Done(j, action)' <=>
               Done(j, action) \/ (op.surface.id = j /\ op.action = action)
      BY <1>1, FinishedStep
    <2>. QED BY <1>1, <2>1
  <1>3. /\ v \notin DOMAIN views /\ \A j \in DOMAIN owners : owners[j].view # v
        /\ \A j \in DOMAIN commit.made : commit.made[j] # v
    <2>1. spent.views \in Nat /\ DOMAIN views \subseteq 1 .. spent.views
      BY BoundsAssumption DEF Typing, SpentTyped, ViewsTyped
    <2>2. \A j \in DOMAIN owners : owners[j].view \in Nat
      BY DEF Typing, OwnersTyped, Owners, Handles
    <2>3. \A j \in DOMAIN commit.made : commit.made[j] \in Nat
      BY DEF Typing, CommitTyped, Handles
    <2>4. /\ \A j \in DOMAIN owners : owners[j].view <= spent.views
          /\ \A j \in DOMAIN commit.made : commit.made[j] <= spent.views
      BY <1>1 DEF Distinct
    <2>. QED BY <1>0, <2>1, <2>2, <2>3, <2>4
  <1>4. i \notin DOMAIN commit.made
    <2>1. ASSUME NEW other \in Creations(commit.plan \ commit.left), other.surface.id = i PROVE FALSE
      <3>1. /\ OwnersTyped /\ commit.snapshot \in Snapshots
            /\ other \in Plan(commit.snapshot) /\ op \in Plan(commit.snapshot)
            /\ other.action = "create" /\ other # op
        BY <1>1, <2>1 DEF Typing, Batch, CommitTyped, Creations
      <3>. QED BY <1>1, <2>1, <3>1, PlanSingle
    <2>2. DOMAIN commit.made = {o.surface.id : o \in Creations(commit.plan \ commit.left)}
      BY <1>1 DEF Typing, Batch
    <2>. QED BY <2>1, <2>2
  <1>5. HostOf(op.surface).id = i
    BY DEF HostOf
  <1>6. Standing'
    <2>1. ASSUME NEW j \in DOMAIN owners'
          PROVE  /\ owners'[j].view \in DOMAIN views' =>
                      views'[owners'[j].view].id = j /\ ~Done(j, "remove")'
                 /\ owners'[j].view \notin DOMAIN views' => j \in torn' \/ Done(j, "remove")'
      BY <1>1, <1>2, <1>3 DEF Standing
    <2>2. ASSUME NEW w \in DOMAIN views'
          PROVE  \/ views'[w].id \in torn'
                 \/ views'[w].id \in DOMAIN owners' /\ owners'[views'[w].id].view = w
                 \/ Made(views[w].id, w)'
      <3>1. CASE w = v
        BY <1>1, <1>5, <3>1 DEF Made
      <3>2. CASE w # v
        <4>1. w \in DOMAIN views /\ views'[w] = views[w]
          BY <1>1, <3>2
        <4>2. ASSUME Made(views[w].id, w) PROVE Made(views[w].id, w)'
          BY <1>1, <1>4, <4>1, <4>2 DEF Made
        <4>. QED BY <1>1, <4>1, <4>2 DEF Standing
      <3>. QED BY <3>1, <3>2
    <2>3. ASSUME NEW j \in DOMAIN commit'.made
          PROVE  commit'.made[j] \in DOMAIN views' /\ views'[commit'.made[j]].id = j
      BY <1>1, <1>3, <1>5 DEF Standing
    <2>. QED BY <1>1, <2>1, <2>2, <2>3 DEF Standing
  <1>7. Placed'
    <2>1. \A w \in DOMAIN views : \A frame : OnDeclared(w, frame)' <=> OnDeclared(w, frame)
      BY <1>1, <1>3 DEF OnDeclared, AsDeclared
    <2>2. ASSUME NEW j \in DOMAIN owners', owners'[j].view \in DOMAIN views'
          PROVE  \/ OnDeclared(owners[j].view, owners[j].surface.frame)'
                 \/ j \in torn' \/ Done(j, "update")'
      <3>1. j \in DOMAIN owners /\ owners[j].view \in DOMAIN views /\ owners' = owners
        BY <1>1, <1>3, <2>2
      <3>2. OnDeclared(owners[j].view, owners[j].surface.frame)
              => OnDeclared(owners[j].view, owners[j].surface.frame)'
        BY <2>1, <3>1 DEF OnDeclared
      <3>. QED BY <1>1, <1>2, <3>1, <3>2 DEF Placed
    <2>3. OnDeclared(v, op.surface.frame)'
      <3>1. op.surface \in Declarable /\ height \in Heights
        BY DEF Typing, CommitTyped, Operations
      <3>2. views'[v] = HostOf(op.surface)
        BY <1>1
      <3>3. AsDeclared(HostOf(op.surface), HostOf(op.surface).content, op.surface.frame)
        BY <3>1, HostDeclared
      <3>. QED BY <3>2, <3>3 DEF OnDeclared
    <2>4. ASSUME NEW o \in Finished'
          PROVE  /\ o.action = "create" => OnDeclared(commit.made[o.surface.id], o.surface.frame)'
                 /\ o.action = "update" /\ o.view \in DOMAIN views' =>
                      OnDeclared(o.view, o.surface.frame)'
      <3>1. CASE o = op
        <4>1. commit'.made[op.surface.id] = v
          BY <1>1
        <4>. QED BY <1>1, <2>3, <3>1, <4>1 DEF OnDeclared
      <3>2. CASE o \in Finished
        <4>1. o \in commit.plan \ commit.left
          BY <3>2 DEF Finished
        <4>2. ASSUME o.action = "create" PROVE OnDeclared(commit.made[o.surface.id], o.surface.frame)'
          <5>1. o.surface.id \in DOMAIN commit.made
            BY <1>1, <4>1, <4>2 DEF Typing, Batch, Creations
          <5>2. /\ commit'.made[o.surface.id] = commit.made[o.surface.id]
                /\ commit.made[o.surface.id] \in DOMAIN views
            BY <1>1, <1>4, <5>1 DEF Standing
          <5>3. OnDeclared(commit.made[o.surface.id], o.surface.frame)
            BY <1>1, <3>2, <4>2 DEF Placed
          <5>. QED BY <2>1, <5>2, <5>3 DEF OnDeclared
        <4>3. ASSUME o.action = "update", o.view \in DOMAIN views' PROVE OnDeclared(o.view, o.surface.frame)'
          <5>1. o.view \in DOMAIN views
            <6>1. o.surface.id \in DOMAIN owners /\ o.view = owners[o.surface.id].view
              BY <1>1, <4>1, <4>3, OwnersOperation
            <6>. QED BY <1>1, <1>3, <4>3, <6>1
          <5>2. OnDeclared(o.view, o.surface.frame)
            BY <1>1, <3>2, <4>3, <5>1 DEF Placed
          <5>. QED BY <2>1, <5>1, <5>2
        <4>. QED BY <4>2, <4>3
      <3>. QED BY <1>2, <3>1, <3>2
    <2>. QED BY <2>2, <2>4 DEF Placed
  <1>8. Declared'
    BY <1>1 DEF Declared, Held
  <1>. QED BY <1>6, <1>7, <1>8

LEMMA UpdateHosts ==
  ASSUME Typing, Distinct, Standing, Placed, Declared, NEW op \in commit.left, DriveUpdate(op)
  PROVE  Standing' /\ Placed' /\ Declared'
  <1> DEFINE i == op.surface.id
  <1>1. /\ commit.at = "drive" /\ commit'.at = "drive" /\ op.action = "update"
        /\ GoesOn("drive", commit.left \ {op}) /\ commit'.made = commit.made
        /\ op.view \in DOMAIN views /\ DOMAIN views' = DOMAIN views
        /\ \A w \in DOMAIN views' : views'[w] = IF w = op.view THEN HostOf(op.surface) ELSE views[w]
        /\ UNCHANGED <<owners, inventory, torn>>
    <2>1. Doing("drive", op) /\ views' = [views EXCEPT ![op.view] = HostOf(op.surface)]
      BY DEF DriveUpdate
    <2>2. GoesOn("drive", commit.left \ {op}) /\ commit'.made = commit.made /\ commit.at = "drive"
      BY <2>1, GotoStep DEF Doing, Typing
    <2>3. /\ DOMAIN views' = DOMAIN views
          /\ \A w \in DOMAIN views' : views'[w] = IF w = op.view THEN HostOf(op.surface) ELSE views[w]
      BY <2>1
    <2>. QED BY <2>2, <2>3 DEF DriveUpdate, GoesOn
  <1>2. /\ \A j, action : Done(j, action)' <=> Done(j, action) \/ (i = j /\ action = "update")
        /\ Finished' = Finished \cup {op}
    <2>1. /\ Finished' = Finished \cup {op}
          /\ \A j, action : Done(j, action)' <=>
               Done(j, action) \/ (op.surface.id = j /\ op.action = action)
      BY <1>1, FinishedStep
    <2>. QED BY <1>1, <2>1
  <1>3. op \in commit.plan /\ commit.left \subseteq commit.plan
    BY DEF Typing, CommitTyped
  <1>4. /\ i \in DOMAIN owners /\ op.view = owners[i].view
        /\ \A j \in DOMAIN owners : owners[j].view = op.view => j = i
        /\ \A j \in DOMAIN commit.made : commit.made[j] # op.view
        /\ \A o \in commit.plan : o.surface.id = i /\ o.action \in {"update", "remove"} => o = op
    <2>1. i \in DOMAIN owners /\ op.view = owners[i].view
      BY <1>1, <1>3, OwnersOperation
    <2>2. \A o \in commit.plan : o.surface.id = i /\ o.action \in {"update", "remove"} => o = op
      BY <1>1, <1>3, OwnersOperation
    <2>. QED BY <1>1, <2>1, <2>2 DEF Distinct
  <1>5. HostOf(op.surface).id = i /\ \A w \in DOMAIN views : views'[w].id = views[w].id
    <2>1. HostOf(op.surface).id = i
      BY DEF HostOf
    <2>2. views[op.view].id = i
      BY <1>1, <1>4 DEF Standing
    <2>. QED BY <1>1, <2>1, <2>2
  <1>6. Standing'
    <2>1. \A j, w : Made(j, w)' <=> Made(j, w)
      BY <1>1 DEF Made
    <2>2. \A j : Done(j, "remove")' <=> Done(j, "remove")
      BY <1>2
    <2>. QED BY <1>1, <1>5, <2>1, <2>2 DEF Standing
  <1>7. Placed'
    <2>1. \A w \in DOMAIN views : w # op.view =>
            \A frame : OnDeclared(w, frame)' <=> OnDeclared(w, frame)
      BY <1>1 DEF OnDeclared, AsDeclared
    <2>2. OnDeclared(op.view, op.surface.frame)'
      <3>1. op.surface \in Declarable /\ height \in Heights
        BY DEF Typing, CommitTyped, Operations
      <3>2. views'[op.view] = HostOf(op.surface)
        BY <1>1
      <3>3. AsDeclared(HostOf(op.surface), HostOf(op.surface).content, op.surface.frame)
        BY <3>1, HostDeclared
      <3>. QED BY <3>2, <3>3 DEF OnDeclared
    <2>3. ASSUME NEW j \in DOMAIN owners', owners'[j].view \in DOMAIN views'
          PROVE  \/ OnDeclared(owners[j].view, owners[j].surface.frame)'
                 \/ j \in torn' \/ Done(j, "update")'
      <3>1. CASE j = i
        BY <1>2, <3>1
      <3>2. CASE j # i
        <4>1. /\ j \in DOMAIN owners /\ owners[j].view \in DOMAIN views /\ owners' = owners
              /\ owners[j].view # op.view
          BY <1>1, <1>4, <2>3, <3>2
        <4>2. OnDeclared(owners[j].view, owners[j].surface.frame)
                => OnDeclared(owners[j].view, owners[j].surface.frame)'
          BY <2>1, <4>1 DEF OnDeclared
        <4>. QED BY <1>1, <1>2, <4>1, <4>2 DEF Placed
      <3>. QED BY <3>1, <3>2
    <2>4. ASSUME NEW o \in Finished, o.action = "create"
          PROVE  OnDeclared(commit.made[o.surface.id], o.surface.frame)'
      <3>1. o.surface.id \in DOMAIN commit.made
        BY <1>1, <2>4 DEF Typing, Batch, Creations, Finished
      <3>2. commit.made[o.surface.id] \in DOMAIN views /\ commit.made[o.surface.id] # op.view
        BY <1>1, <1>4, <3>1 DEF Standing
      <3>3. OnDeclared(commit.made[o.surface.id], o.surface.frame)
        BY <1>1, <2>4 DEF Placed
      <3>. QED BY <1>1, <2>1, <3>2, <3>3 DEF OnDeclared
    <2>5. ASSUME NEW o \in Finished, o.action = "update", o.view \in DOMAIN views'
          PROVE  OnDeclared(o.view, o.surface.frame)'
      <3>1. o \in commit.plan /\ o # op
        BY <2>5 DEF Finished
      <3>2. o.surface.id \in DOMAIN owners /\ o.view = owners[o.surface.id].view
        BY <1>1, <2>5, <3>1, OwnersOperation
      <3>3. o.view # op.view /\ o.view \in DOMAIN views
        BY <1>1, <1>4, <2>5, <3>1, <3>2
      <3>4. OnDeclared(o.view, o.surface.frame)
        BY <1>1, <2>5, <3>3 DEF Placed
      <3>. QED BY <2>1, <3>3, <3>4
    <2>. QED BY <1>1, <1>2, <2>2, <2>3, <2>4, <2>5 DEF Placed
  <1>8. Declared'
    BY <1>1 DEF Declared, Held
  <1>. QED BY <1>6, <1>7, <1>8

LEMMA RemoveHosts ==
  ASSUME Typing, Distinct, Standing, Placed, Declared, NEW op \in commit.left, DriveRemove(op)
  PROVE  Standing' /\ Placed' /\ Declared'
  <1> DEFINE i == op.surface.id
  <1>1. /\ commit.at = "drive" /\ commit'.at = "drive" /\ op.action = "remove"
        /\ GoesOn("drive", commit.left \ {op}) /\ commit'.made = commit.made
        /\ op.view \in DOMAIN views /\ DOMAIN views' = DOMAIN views \ {op.view}
        /\ \A w \in DOMAIN views' : views'[w] = views[w]
        /\ UNCHANGED <<owners, inventory, torn>>
    <2>1. Doing("drive", op) /\ views' = Restrict(views, DOMAIN views \ {op.view})
      BY DEF DriveRemove
    <2>2. GoesOn("drive", commit.left \ {op}) /\ commit'.made = commit.made /\ commit.at = "drive"
      BY <2>1, GotoStep DEF Doing, Typing
    <2>3. /\ DOMAIN views' = DOMAIN views \ {op.view}
          /\ \A w \in DOMAIN views' : views'[w] = views[w]
      BY <2>1 DEF Restrict
    <2>. QED BY <2>2, <2>3 DEF DriveRemove, GoesOn
  <1>2. /\ \A j, action : Done(j, action)' <=> Done(j, action) \/ (i = j /\ action = "remove")
        /\ Finished' = Finished \cup {op}
    <2>1. /\ Finished' = Finished \cup {op}
          /\ \A j, action : Done(j, action)' <=>
               Done(j, action) \/ (op.surface.id = j /\ op.action = action)
      BY <1>1, FinishedStep
    <2>. QED BY <1>1, <2>1
  <1>3. op \in commit.plan /\ commit.left \subseteq commit.plan
    BY DEF Typing, CommitTyped
  <1>4. /\ i \in DOMAIN owners /\ op.view = owners[i].view
        /\ \A j \in DOMAIN owners : owners[j].view = op.view => j = i
        /\ \A j \in DOMAIN commit.made : commit.made[j] # op.view
    <2>1. i \in DOMAIN owners /\ op.view = owners[i].view
      BY <1>1, <1>3, OwnersOperation
    <2>. QED BY <1>1, <2>1 DEF Distinct
  <1>5. Standing'
    <2>1. \A j, w : Made(j, w)' <=> Made(j, w)
      BY <1>1 DEF Made
    <2>2. ASSUME NEW j \in DOMAIN owners'
          PROVE  /\ owners'[j].view \in DOMAIN views' =>
                      views'[owners'[j].view].id = j /\ ~Done(j, "remove")'
                 /\ owners'[j].view \notin DOMAIN views' => j \in torn' \/ Done(j, "remove")'
      BY <1>1, <1>2, <1>4 DEF Standing
    <2>3. ASSUME NEW w \in DOMAIN views'
          PROVE  \/ views'[w].id \in torn'
                 \/ views'[w].id \in DOMAIN owners' /\ owners'[views'[w].id].view = w
                 \/ Made(views[w].id, w)'
      <3>1. w \in DOMAIN views /\ views'[w] = views[w]
        BY <1>1
      <3>2. Made(views[w].id, w)' <=> Made(views[w].id, w)
        BY <1>1, <3>1 DEF Made
      <3>. QED BY <1>1, <3>1, <3>2 DEF Standing
    <2>4. ASSUME NEW j \in DOMAIN commit'.made
          PROVE  commit'.made[j] \in DOMAIN views' /\ views'[commit'.made[j]].id = j
      BY <1>1, <1>4 DEF Standing
    <2>. QED BY <1>1, <2>2, <2>3, <2>4 DEF Standing
  <1>6. Placed'
    <2>1. \A w \in DOMAIN views' : \A frame : OnDeclared(w, frame)' <=> OnDeclared(w, frame)
      BY <1>1 DEF OnDeclared, AsDeclared
    <2>2. ASSUME NEW j \in DOMAIN owners', owners'[j].view \in DOMAIN views'
          PROVE  \/ OnDeclared(owners[j].view, owners[j].surface.frame)'
                 \/ j \in torn' \/ Done(j, "update")'
      <3>1. j \in DOMAIN owners /\ owners[j].view \in DOMAIN views /\ owners' = owners
        BY <1>1, <2>2
      <3>2. OnDeclared(owners[j].view, owners[j].surface.frame)
              => OnDeclared(owners[j].view, owners[j].surface.frame)'
        BY <2>1, <2>2, <3>1 DEF OnDeclared
      <3>. QED BY <1>1, <1>2, <3>1, <3>2 DEF Placed
    <2>3. ASSUME NEW o \in Finished, o.action = "create"
          PROVE  OnDeclared(commit.made[o.surface.id], o.surface.frame)'
      <3>1. o.surface.id \in DOMAIN commit.made
        BY <1>1, <2>3 DEF Typing, Batch, Creations, Finished
      <3>2. commit.made[o.surface.id] \in DOMAIN views'
        BY <1>1, <1>4, <3>1 DEF Standing
      <3>3. OnDeclared(commit.made[o.surface.id], o.surface.frame)
        BY <1>1, <2>3 DEF Placed
      <3>. QED BY <1>1, <2>1, <3>2, <3>3 DEF OnDeclared
    <2>4. ASSUME NEW o \in Finished, o.action = "update", o.view \in DOMAIN views'
          PROVE  OnDeclared(o.view, o.surface.frame)'
      <3>1. OnDeclared(o.view, o.surface.frame)
        BY <1>1, <2>4 DEF Placed
      <3>. QED BY <2>1, <2>4, <3>1
    <2>. QED BY <1>1, <1>2, <2>2, <2>3, <2>4 DEF Placed
  <1>7. Declared'
    BY <1>1 DEF Declared, Held
  <1>. QED BY <1>5, <1>6, <1>7

LEMMA FailedHosts ==
  ASSUME Typing, Distinct, Standing, Placed, Declared, NEW op \in commit.left, CreateFails(op)
  PROVE  Standing' /\ Placed' /\ Declared'
  <1>1. /\ commit.at = "drive" /\ commit' = Idle /\ UNCHANGED <<owners, views, inventory>>
        /\ torn' = torn \cup {o.surface.id : o \in (commit.plan \ commit.left) \cup Removals(commit.plan)}
    BY DEF CreateFails
  <1>2. commit'.at = "idle" /\ Finished' = {}
    BY <1>1 DEF Finished, Idle
  <1>3. torn \subseteq torn' /\ \A j, action : Done(j, action) => j \in torn'
    BY <1>1 DEF Done, Finished
  <1>4. \A j, w : Made(j, w) => j \in torn'
    <2>1. DOMAIN commit.made = {o.surface.id : o \in Creations(commit.plan \ commit.left)}
      BY <1>1 DEF Typing, Batch
    <2>. QED BY <1>1, <2>1 DEF Made, Creations
  <1>5. Standing'
    <2>1. \A j, action : ~Done(j, action)'
      BY <1>2 DEF Done
    <2>. QED BY <1>1, <1>2, <1>3, <1>4, <2>1 DEF Standing
  <1>6. Placed'
    BY <1>1, <1>2, <1>3 DEF Placed, OnDeclared
  <1>7. Declared'
    BY <1>1, <1>2, <1>3 DEF Declared, Held
  <1>. QED BY <1>5, <1>6, <1>7

\* The driver can be sent to a view that is gone only by what a failed commit had
\* begun on.
LEMMA CrashedHosts ==
  ASSUME Typing, Standing, Declared, NEW op \in commit.left, Crash(op)
  PROVE  Standing' /\ Placed' /\ Declared'
  <1>1. /\ commit.at = "drive" /\ op.action \in {"update", "remove"} /\ op.view \notin DOMAIN views
        /\ commit'.at = "crashed" /\ UNCHANGED <<owners, inventory, torn>>
        /\ op \in commit.plan
    BY DEF Crash, Typing, CommitTyped, CommitShape
  <1>2. op.surface.id \in DOMAIN owners /\ op.view = owners[op.surface.id].view
    BY <1>1, OwnersOperation
  <1>3. ~Done(op.surface.id, "remove")
    <2>1. ASSUME NEW o \in commit.plan \ commit.left, o.surface.id = op.surface.id, o.action = "remove"
          PROVE  FALSE
      <3>1. o = op
        BY <1>1, <2>1, OwnersOperation
      <3>. QED BY <3>1
    <2>. QED BY <2>1 DEF Done, Finished
  <1>4. op.surface.id \in torn
    BY <1>1, <1>2, <1>3 DEF Standing
  <1>. QED BY <1>1, <1>4 DEF Standing, Placed, Declared, Held

LEMMA RecordHosts ==
  ASSUME Typing, Distinct, Standing, Placed, Declared, Record
  PROVE  Standing' /\ Placed' /\ Declared'
  <1> DEFINE s == commit.snapshot
  <1>1. /\ DOMAIN owners' = {d.id : d \in s}
        /\ \A d \in s : owners'[d.id].surface = d
        /\ commit.at = "drive" /\ commit.left = {} /\ commit'.at = "report" /\ commit'.snapshot = s
        /\ UNCHANGED <<views, torn, inventory>>
        /\ OwnersTyped /\ s \in Snapshots /\ commit.plan = Plan(s)
        /\ \A d, e \in s : d.id = e.id => d = e
    BY RecordStep, RecordedSurface DEF Typing, CommitTyped, Batch, Snapshots, GoesOn
  <1>2. Finished = commit.plan /\ Finished' = {} /\ \A j, action : ~Done(j, action)'
    BY <1>1 DEF Finished, Done
  <1>3. DOMAIN commit.made = {o.surface.id : o \in Creations(commit.plan)}
    BY <1>1 DEF Typing, Batch
  <1>4. ASSUME NEW d \in s, ~Renewed(d), Held(d)
        PROVE  /\ owners'[d.id].view = owners[d.id].view /\ d.id \in DOMAIN owners
               /\ ~Done(d.id, "remove")
    <2>1. owners'[d.id].view = owners[d.id].view
      BY <1>4, RecordedOwner
    <2>2. ASSUME NEW o \in Plan(s), o.surface.id = d.id, o.action = "remove" PROVE FALSE
      <3>1. CASE o.absent
        BY <1>1, <2>2, <3>1, PlanFields
      <3>2. CASE ~o.absent
        BY <1>1, <1>4, <2>2, <3>2, PlanFields
      <3>. QED BY <3>1, <3>2
    <2>. QED BY <1>1, <1>2, <1>4, <2>1, <2>2 DEF Done, Held
  <1>5. ASSUME NEW d \in s, Renewed(d) \/ ~Held(d)
        PROVE  /\ d.id \in DOMAIN commit.made /\ owners'[d.id].view = commit.made[d.id]
               /\ commit.made[d.id] \in DOMAIN views /\ views[commit.made[d.id]].id = d.id
               /\ OnDeclared(commit.made[d.id], d.frame)
    <2>1. /\ Creation(d) \in Finished /\ Creation(d).action = "create" /\ Creation(d).surface = d
          /\ d.id \in DOMAIN commit.made /\ owners'[d.id].view = commit.made[d.id]
      BY <1>2, <1>5, RecordedOwner DEF Creations, Creation
    <2>2. OnDeclared(commit.made[d.id], d.frame)
      <3>1. OnDeclared(commit.made[Creation(d).surface.id], Creation(d).surface.frame)
        BY <1>1, <2>1 DEF Placed
      <3>. QED BY <2>1, <3>1
    <2>. QED BY <1>1, <2>1, <2>2 DEF Standing
  <1>6. Standing'
    <2>1. ASSUME NEW i \in DOMAIN owners'
          PROVE  /\ owners'[i].view \in DOMAIN views => views[owners'[i].view].id = i
                 /\ owners'[i].view \notin DOMAIN views => i \in torn
      <3>1. PICK d \in s : d.id = i
        BY <1>1
      <3>2. CASE Renewed(d) \/ ~Held(d)
        BY <1>5, <3>1, <3>2
      <3>3. CASE ~Renewed(d) /\ Held(d)
        BY <1>1, <1>4, <3>1, <3>3 DEF Standing
      <3>. QED BY <3>2, <3>3
    <2>2. ASSUME NEW v \in DOMAIN views
          PROVE  \/ views[v].id \in torn
                 \/ views[v].id \in DOMAIN owners' /\ owners'[views[v].id].view = v
      <3>1. CASE views[v].id \in DOMAIN owners /\ owners[views[v].id].view = v
        <4> DEFINE i == views[v].id
        <4>1. ~Done(i, "remove")
          BY <1>1, <3>1 DEF Standing
        <4>2. PICK d \in s : d.id = i
          <5>1. CASE \A d \in s : d.id # i
            <6>1. Removal(i, TRUE, 0) \in Plan(s)
              BY <3>1, <5>1, PlanElements DEF Dropping
            <6>2. Removal(i, TRUE, 0).action = "remove" /\ Removal(i, TRUE, 0).surface.id = i
              BY <1>1, <3>1 DEF Removal, OwnersTyped
            <6>. QED BY <1>1, <1>2, <4>1, <6>1, <6>2 DEF Done
          <5>. QED BY <5>1
        <4>3. Held(d) /\ ~Renewed(d)
          <5>1. CASE Renewed(d)
            <6>1. Removal(d.id, FALSE, d.layer) \in Plan(s)
              BY <5>1, PlanElements DEF Replacing
            <6>2. /\ Removal(d.id, FALSE, d.layer).action = "remove"
                  /\ Removal(d.id, FALSE, d.layer).surface.id = i
              BY <1>1, <3>1, <4>2 DEF Removal, OwnersTyped
            <6>. QED BY <1>1, <1>2, <4>1, <6>1, <6>2 DEF Done
          <5>. QED BY <3>1, <4>2, <5>1 DEF Held
        <4>. QED BY <1>1, <1>4, <3>1, <4>2, <4>3
      <3>2. CASE Made(views[v].id, v)
        <4>1. PICK o \in Creations(commit.plan) : o.surface.id = views[v].id
          BY <1>3, <3>2 DEF Made
        <4>2. o.surface \in s /\ (Renewed(o.surface) \/ ~Held(o.surface))
          BY <1>1, <4>1, PlanFields DEF Creations
        <4>. QED BY <1>1, <1>5, <3>2, <4>1, <4>2 DEF Made
      <3>. QED BY <1>1, <3>1, <3>2 DEF Standing
    <2>. QED BY <1>1, <1>2, <2>1, <2>2 DEF Standing
  <1>7. Placed'
    <2>1. ASSUME NEW i \in DOMAIN owners', owners'[i].view \in DOMAIN views, i \notin torn
          PROVE  OnDeclared(owners[i].view, owners[i].surface.frame)'
      <3>1. PICK d \in s : d.id = i /\ owners'[i].surface = d
        BY <1>1, <2>1
      <3>2. CASE Renewed(d) \/ ~Held(d)
        BY <1>1, <1>5, <3>1, <3>2 DEF OnDeclared
      <3>3. CASE Moved(d)
        <4>1. Update(d) \in Finished
          BY <1>1, <1>2, <3>3, PlanElements DEF Moving
        <4>2. /\ Update(d).action = "update" /\ Update(d).view = owners[d.id].view
              /\ Update(d).surface = d
          BY DEF Update
        <4>3. owners'[i].view = owners[d.id].view
          BY <1>4, <3>1, <3>3 DEF Moved, Renewed
        <4>4. OnDeclared(Update(d).view, Update(d).surface.frame)
          BY <1>1, <2>1, <4>1, <4>2, <4>3 DEF Placed
        <4>. QED BY <1>1, <3>1, <4>2, <4>3, <4>4 DEF OnDeclared
      <3>4. CASE Kept(d)
        <4>1. /\ owners'[i].view = owners[i].view /\ i \in DOMAIN owners
              /\ owners[i].surface.frame = d.frame
          BY <1>4, <3>1, <3>4, KeptIsEqual DEF Kept, PlacementEqual
        <4>2. ~Done(i, "update")
          <5>1. ASSUME NEW o \in Plan(s), o.surface.id = i, o.action = "update" PROVE FALSE
            <6>1. o.surface \in s /\ Moved(o.surface)
              BY <1>1, <5>1, PlanFields
            <6>. QED BY <1>1, <3>1, <3>4, <5>1, <6>1 DEF Kept
          <5>. QED BY <1>1, <1>2, <5>1 DEF Done
        <4>3. OnDeclared(owners[i].view, owners[i].surface.frame)
          BY <1>1, <2>1, <4>1, <4>2 DEF Placed
        <4>. QED BY <1>1, <3>1, <4>1, <4>3 DEF OnDeclared
      <3>. QED BY <3>2, <3>3, <3>4 DEF Kept
    <2>. QED BY <1>1, <1>2, <2>1 DEF Placed
  <1>8. Declared'
    BY <1>1 DEF Declared, Held
  <1>. QED BY <1>6, <1>7, <1>8

LEMMA NextHosts ==
  Typing /\ Distinct /\ Standing /\ Placed /\ Declared /\ [Next]_vars
    => Standing' /\ Placed' /\ Declared'
  <1> SUFFICES ASSUME Typing, Distinct, Standing, Placed, Declared, [Next]_vars
               PROVE  Standing' /\ Placed' /\ Declared'
    OBVIOUS
  <1>1. CASE UNCHANGED vars
    <2>1. UNCHANGED <<owners, commit, views, inventory, torn>>
      BY <1>1 DEF vars
    <2>. QED BY <2>1 DEF Standing, Placed, Declared, Done, Made, Finished, OnDeclared, Held
  <1>2. CASE commit.at \notin {"drive", "crashed"}
    BY <1>2, QuietHosts
  <1>3. CASE commit.at \in {"drive", "crashed"} /\ ~UNCHANGED vars
    <2>1. (\E op \in commit.left : Drive(op)) \/ Record
      BY <1>3 DEF Next, Commit, Apply, Unbind, Unbound, Report, ReportCreated, ReportRemoved, Doing,
                  Return, Resize, Rest
    <2>. QED BY <2>1, CreateHosts, UpdateHosts, RemoveHosts, FailedHosts, CrashedHosts, RecordHosts
             DEF Drive
  <1>. QED BY <1>1, <1>2, <1>3

LEMMA InvariantHosts ==
  Spec => [](CrashOnlyAfterFailure /\ OneViewPerSurface /\ InventoryApplied)
  <1> DEFINE Hosts == Standing /\ Placed /\ Declared
  <1>1. Init => Hosts
    BY InitHosts
  <1>2. Typing /\ Distinct /\ Hosts /\ [Next]_vars => Hosts'
    BY NextHosts
  <1>3. Typing /\ Distinct /\ Hosts => CrashOnlyAfterFailure /\ OneViewPerSurface /\ InventoryApplied
    BY HostsHold
  <1> HIDE DEF Hosts
  <1>. QED BY <1>1, <1>2, <1>3, InitTyping, NextTyping, InitDistinct, NextDistinct, PTL DEF Spec

\* After a commit the owners are what was committed, each over a living view at
\* the place it declares; only what a failed commit had begun on is excepted.
THEOREM CommitsAreApplied == Spec => []InventoryApplied
  BY InvariantHosts, PTL

\* No commit leaves a view in the window without its owner or under two of them.
THEOREM ViewsAreOwned == Spec => []OneViewPerSurface
  BY InvariantHosts, PTL

\* The driver is never sent to a released view unless a commit failed before.
THEOREM CrashNeedsFailure == Spec => []CrashOnlyAfterFailure
  BY InvariantHosts, PTL

-----------------------------------------------------------------------------
(* Panes of the owners *)

\* A pane whose new view is still to be bound and reported, and a pane whose
\* going is still to be reported.
Coming(i) == commit.at = "report" /\ \E op \in Creations(commit.left) : op.surface.id = i
Leaving(op) == commit.at = "report" /\ op \in Removals(commit.left)

Declaration(i) == [generation |-> owners[i].life, pane |-> owners[i].surface.pane]
Farewell(op) == [generation |-> op.life, pane |-> op.surface.pane]

\* As long as no commit failed, an owner's view is bound to its pane, unless the
\* batch removes the owner or is still to bind it.
OwnersBound ==
  torn = {} => \A i \in DOMAIN owners : owners[i].surface.pane # 0 =>
    \/ bound[owners[i].surface.pane] = owners[i].view
    \/ commit.at \in {"unbind", "drive"} /\ \E op \in Removals(commit.plan) : op.surface.id = i
    \/ Coming(i)

\* What was reported is what is owned, less what is still to be reported to come
\* and with what is still to be reported to go, which no owner shares.
Told ==
  /\ \A d \in reported :
       \/ \E i \in DOMAIN owners : owners[i].surface.pane # 0 /\ ~Coming(i) /\ d = Declaration(i)
       \/ \E op \in commit.left : Leaving(op) /\ d = Farewell(op)
  /\ \A i \in DOMAIN owners : owners[i].surface.pane # 0 /\ ~Coming(i) => Declaration(i) \in reported
  /\ \A op \in commit.left : Leaving(op) =>
       /\ Farewell(op) \in reported
       /\ \A i \in DOMAIN owners : owners[i].life # op.life
       /\ \A other \in commit.left : Leaving(other) /\ other # op => other.life # op.life

LEMMA PanesHold ==
  ASSUME Typing, Binding, OwnersBound, Told
  PROVE  EveryPaneHasItsView /\ ReportsMatchOwners
  <1>1. CASE commit.at = "idle"
    <2>1. (\A i : ~Coming(i)) /\ \A op : ~Leaving(op)
      BY <1>1 DEF Coming, Leaving
    <2>2. EveryPaneHasItsView
      <3>1. ASSUME NEW p \in Panes, torn = {}, {i \in DOMAIN owners : owners[i].surface.pane = p} # {}
            PROVE  \E i \in {j \in DOMAIN owners : owners[j].surface.pane = p} : bound[p] = owners[i].view
        <4>1. PICK i \in DOMAIN owners : owners[i].surface.pane = p
          BY <3>1
        <4>2. bound[p] = owners[i].view
          BY <1>1, <2>1, <3>1, <4>1, PanesAssumption DEF OwnersBound
        <4>. QED BY <4>1, <4>2
      <3>2. ASSUME NEW p \in Panes, {i \in DOMAIN owners : owners[i].surface.pane = p} = {}
            PROVE  bound[p] = NoView
        BY <3>2 DEF Binding
      <3>. QED BY <3>1, <3>2 DEF EveryPaneHasItsView
    <2>3. ReportsMatchOwners
      <3> DEFINE named == {j \in DOMAIN owners : owners[j].surface.pane # 0}
      <3>1. \A d \in reported : \E i \in named : d = Declaration(i)
        BY <2>1 DEF Told
      <3>2. \A i \in named : Declaration(i) \in reported
        BY <2>1 DEF Told
      <3>3. reported = {Declaration(i) : i \in named}
        BY <3>1, <3>2
      <3>. QED BY <3>3 DEF ReportsMatchOwners, Declaration
    <2>. QED BY <2>2, <2>3
  <1>. QED BY <1>1 DEF EveryPaneHasItsView, ReportsMatchOwners, AtRest

LEMMA InitPanes == Init => OwnersBound /\ Told
  <1> SUFFICES ASSUME Init PROVE OwnersBound /\ Told
    OBVIOUS
  <1>1. DOMAIN owners = {} /\ reported = {} /\ commit.left = {}
    BY DEF Init, Idle
  <1>. QED BY <1>1 DEF OwnersBound, Told

\* Outside Record and the reports, nobody is told anything.
LEMMA SilentPanes ==
  ASSUME OwnersBound, Told, UNCHANGED <<owners, bound, reported>>,
         commit.at = "report" => commit.left = {},
         commit'.at # "report",
         torn' = {} => /\ torn = {}
                       /\ \A op \in Removals(commit.plan) : commit.at \in {"unbind", "drive"} =>
                            op \in Removals(commit'.plan) /\ commit'.at \in {"unbind", "drive"}
  PROVE  OwnersBound' /\ Told'
  <1>1. /\ \A i : ~Coming(i) /\ ~Coming(i)'
        /\ \A op : ~Leaving(op) /\ ~Leaving(op)'
    BY DEF Coming, Leaving, Creations, Removals
  <1>2. OwnersBound'
    <2>1. ASSUME torn' = {}, NEW i \in DOMAIN owners, owners[i].surface.pane # 0
          PROVE  \/ bound[owners[i].surface.pane] = owners[i].view
                 \/ commit'.at \in {"unbind", "drive"} /\ \E op \in Removals(commit'.plan) : op.surface.id = i
      BY <1>1, <2>1 DEF OwnersBound
    <2>. QED BY <2>1 DEF OwnersBound
  <1>3. Told'
    <2>1. \A i : Declaration(i)' = Declaration(i)
      BY DEF Declaration
    <2>. QED BY <1>1, <2>1 DEF Told
  <1>. QED BY <1>2, <1>3

LEMMA UnbindPanes ==
  ASSUME Typing, Distinct, OwnersBound, Told, NEW op \in commit.left, Unbind(op)
  PROVE  OwnersBound' /\ Told'
  <1>1. /\ commit.at = "unbind" /\ GoesOn("unbind", commit.left \ {op})
        /\ bound' = [bound EXCEPT ![op.surface.pane] = NoView]
        /\ UNCHANGED <<owners, reported, torn>>
    BY GotoStep DEF Unbind, Doing, Typing, hostVars
  <1>2. /\ \A i : ~Coming(i) /\ ~Coming(i)'
        /\ \A o : ~Leaving(o) /\ ~Leaving(o)'
    BY <1>1 DEF Coming, Leaving, GoesOn
  <1>3. /\ op \in Removals(commit.plan) /\ op.surface.pane # 0
        /\ op.surface.id \in DOMAIN owners /\ op.surface = owners[op.surface.id].surface
    <2>1. /\ op \in Plan(commit.snapshot) /\ commit.snapshot \in Snapshots /\ OwnersTyped
          /\ op \in Removals(commit.plan) /\ op.surface.pane # 0 /\ op.action = "remove"
      BY <1>1 DEF Typing, Batch, CommitTyped, Naming, Removals
    <2>2. op.surface.id \in DOMAIN owners /\ op = Removal(op.surface.id, op.absent, op.layer)
      BY <2>1, PlanFields
    <2>3. \A i, absent, layer : Removal(i, absent, layer).surface = owners[i].surface
      BY DEF Removal
    <2>. QED BY <2>1, <2>2, <2>3
  <1>4. OwnersBound'
    <2>1. ASSUME torn = {}, NEW i \in DOMAIN owners, owners[i].surface.pane # 0
          PROVE  \/ bound'[owners[i].surface.pane] = owners[i].view
                 \/ \E o \in Removals(commit.plan) : o.surface.id = i
      <3>1. CASE owners[i].surface.pane = op.surface.pane
        <4>1. i = op.surface.id
          BY <1>3, <2>1, <3>1 DEF Distinct
        <4>. QED BY <1>3, <4>1
      <3>2. CASE owners[i].surface.pane # op.surface.pane
        <4>1. owners[i].surface.pane \in Panes
          BY <2>1, DeclarableAssumption DEF Typing, OwnersTyped, Owners
        <4>2. bound'[owners[i].surface.pane] = bound[owners[i].surface.pane]
          BY <1>1, <3>2, <4>1 DEF Typing, HostTyped
        <4>. QED BY <1>1, <1>2, <2>1, <4>2 DEF OwnersBound
      <3>. QED BY <3>1, <3>2
    <2>. QED BY <1>1, <2>1 DEF OwnersBound, GoesOn
  <1>5. Told'
    <2>1. \A i : Declaration(i)' = Declaration(i)
      BY <1>1 DEF Declaration
    <2>. QED BY <1>1, <1>2, <2>1 DEF Told
  <1>. QED BY <1>4, <1>5

\* The owners a batch removes: those without a surface of the same life.
LEMMA RemovedOwner ==
  ASSUME Typing, commit.at = "drive", NEW i \in DOMAIN owners
  PROVE  \/ \E d \in commit.snapshot :
              /\ d.id = i /\ Held(d) /\ ~Renewed(d)
              /\ \A op \in commit.plan : op.surface.id = i => op.action = "update"
         \/ /\ \A d \in commit.snapshot : d.id = i => Renewed(d)
            /\ \E op \in Removals(commit.plan) : /\ op.surface = owners[i].surface
                                                 /\ op.life = owners[i].life
  <1> DEFINE s == commit.snapshot
  <1>1. /\ OwnersTyped /\ s \in Snapshots /\ commit.plan = Plan(s)
        /\ \A d, e \in s : d.id = e.id => d = e
    BY DEF Typing, CommitTyped, Batch, Snapshots
  <1>2. ASSUME NEW absent, NEW layer, Removal(i, absent, layer) \in Plan(s)
        PROVE  \E op \in Removals(commit.plan) : /\ op.surface = owners[i].surface
                                                 /\ op.life = owners[i].life
    <2> DEFINE op == Removal(i, absent, layer)
    <2>1. op.surface = owners[i].surface /\ op.life = owners[i].life /\ op.action = "remove"
      BY DEF Removal
    <2> HIDE DEF op
    <2>2. op \in Removals(commit.plan)
      BY <1>1, <1>2, <2>1 DEF Removals, op
    <2>. QED BY <2>1, <2>2
  <1>3. CASE \A d \in s : d.id # i
    <2>1. Removal(i, TRUE, 0) \in Plan(s)
      BY <1>3, PlanElements DEF Dropping
    <2>. QED BY <1>2, <1>3, <2>1
  <1>4. ASSUME NEW d \in s, d.id = i, Renewed(d)
        PROVE  /\ \A e \in s : e.id = i => Renewed(e)
               /\ \E op \in Removals(commit.plan) : /\ op.surface = owners[i].surface
                                                    /\ op.life = owners[i].life
    <2>1. Removal(d.id, FALSE, d.layer) \in Plan(s)
      BY <1>4, PlanElements DEF Replacing
    <2>. QED BY <1>1, <1>2, <1>4, <2>1
  <1>5. ASSUME NEW d \in s, d.id = i, ~Renewed(d)
        PROVE  Held(d) /\ \A op \in commit.plan : op.surface.id = i => op.action = "update"
    <2>1. Held(d)
      BY <1>5 DEF Held
    <2>2. ASSUME NEW op \in Plan(s), op.surface.id = i PROVE op.action = "update"
      <3>1. op.action \in {"create", "update", "remove"}
        BY <1>1, PlanFields DEF Operations
      <3>2. op.action # "create"
        BY <1>1, <1>5, <2>1, <2>2, PlanFields
      <3>3. op.action # "remove"
        BY <1>1, <1>5, <2>2, PlanFields
      <3>. QED BY <3>1, <3>2, <3>3
    <2>. QED BY <1>1, <2>1, <2>2
  <1>. QED BY <1>3, <1>4, <1>5

LEMMA RecordPanes ==
  ASSUME SourcesFixed, Typing, Distinct, OwnersBound, Told, Record
  PROVE  OwnersBound' /\ Told'
  <1> DEFINE s == commit.snapshot
  <1>1. /\ DOMAIN owners' = {d.id : d \in s}
        /\ \A d \in s : owners'[d.id].surface = d
        /\ commit.at = "drive" /\ commit'.at = "report" /\ commit'.plan = commit.plan
        /\ commit'.left = {op \in Naming(commit.plan) : op.action # "update"}
        /\ UNCHANGED <<bound, torn, reported>>
        /\ OwnersTyped /\ s \in Snapshots /\ commit.plan = Plan(s)
        /\ \A d, e \in s : d.id = e.id => d = e
    BY RecordStep, RecordedSurface DEF Typing, CommitTyped, Batch, Snapshots, GoesOn
  <1>2. /\ \A i : ~Coming(i)
        /\ \A op : ~Leaving(op)
        /\ \A op : Leaving(op)' <=> op \in Removals(commit.plan) /\ op.surface.pane # 0
        /\ \A op \in commit'.left : op \in commit.plan
    BY <1>1 DEF Coming, Leaving, Removals, Naming
  <1>3. ASSUME NEW d \in s, Held(d), ~Renewed(d)
        PROVE  /\ owners'[d.id].view = owners[d.id].view /\ owners'[d.id].life = owners[d.id].life
               /\ owners[d.id].surface.pane = d.pane
               /\ \A op \in commit.plan : op.surface.id = d.id => op.action = "update"
               /\ ~Coming(d.id)'
    <2>1. /\ owners'[d.id].view = owners[d.id].view /\ owners'[d.id].life = owners[d.id].life
          /\ owners[d.id].surface.generation = d.generation
      BY <1>3, RecordedOwner
    <2>2. owners[d.id].surface.pane = d.pane
      <3>1. owners[d.id].surface \in Declarable /\ owners[d.id].surface.id = d.id /\ d \in Declarable
        BY <1>1, <1>3 DEF OwnersTyped, Owners, Snapshots, Held
      <3>. QED BY <2>1, <3>1 DEF SourcesFixed
    <2>3. \A op \in commit.plan : op.surface.id = d.id => op.action = "update"
      BY <1>1, <1>3, RemovedOwner DEF Held
    <2>4. ~Coming(d.id)'
      BY <1>2, <2>3 DEF Coming, Creations
    <2>. QED BY <2>1, <2>2, <2>3, <2>4
  <1>4. ASSUME NEW d \in s, Renewed(d) \/ ~Held(d), d.pane # 0 PROVE Coming(d.id)'
    <2>1. /\ Creation(d) \in commit.plan /\ Creation(d).surface = d /\ Creation(d).action = "create"
      BY <1>4, RecordedOwner DEF Creations, Creation
    <2>2. Creation(d) \in commit'.left
      BY <1>1, <1>4, <2>1 DEF Naming
    <2>. QED BY <1>1, <2>1, <2>2 DEF Coming, Creations
  <1>5. OwnersBound'
    <2>1. ASSUME torn = {}, NEW d \in s, d.pane # 0
          PROVE  bound[d.pane] = owners'[d.id].view \/ Coming(d.id)'
      <3>1. CASE Held(d) /\ ~Renewed(d)
        BY <1>1, <1>2, <1>3, <2>1, <3>1 DEF OwnersBound, Held, Removals
      <3>. QED BY <1>4, <2>1, <3>1
    <2>. QED BY <1>1, <2>1 DEF OwnersBound
  <1>6. ASSUME NEW e \in reported
        PROVE  \/ \E i \in DOMAIN owners' : owners'[i].surface.pane # 0 /\ ~Coming(i)' /\ e = Declaration(i)'
               \/ \E op \in commit'.left : Leaving(op)' /\ e = Farewell(op)
    <2>1. PICK i \in DOMAIN owners : owners[i].surface.pane # 0 /\ e = Declaration(i)
      BY <1>2 DEF Told
    <2>2. ASSUME NEW d \in s, d.id = i, Held(d), ~Renewed(d)
          PROVE  i \in DOMAIN owners' /\ owners'[i].surface.pane # 0 /\ ~Coming(i)' /\ e = Declaration(i)'
      BY <1>1, <1>3, <2>1, <2>2 DEF Declaration
    <2>3. ASSUME NEW op \in Removals(commit.plan), op.surface = owners[i].surface, op.life = owners[i].life
          PROVE  op \in commit'.left /\ Leaving(op)' /\ e = Farewell(op)
      BY <1>1, <1>2, <2>1, <2>3 DEF Declaration, Farewell, Removals, Naming
    <2>. QED BY <1>1, <2>2, <2>3, RemovedOwner
  <1>7. ASSUME NEW i \in DOMAIN owners', owners'[i].surface.pane # 0, ~Coming(i)'
        PROVE  Declaration(i)' \in reported
    <2>1. PICK d \in s : d.id = i /\ owners'[i].surface = d
      BY <1>1
    <2>2. Held(d) /\ ~Renewed(d)
      BY <1>4, <1>7, <2>1
    <2>3. /\ Declaration(i)' = Declaration(i) /\ i \in DOMAIN owners /\ owners[i].surface.pane # 0
      BY <1>3, <1>7, <2>1, <2>2 DEF Declaration, Held
    <2>. QED BY <1>2, <2>3 DEF Told
  <1>8. ASSUME NEW op \in commit'.left, Leaving(op)'
        PROVE  /\ op.surface.id \in DOMAIN owners
               /\ op.surface = owners[op.surface.id].surface /\ op.life = owners[op.surface.id].life
               /\ op \in Plan(s) /\ op.action = "remove" /\ op.surface.pane # 0
    <2>1. op \in Plan(s) /\ op.action = "remove" /\ op.surface.pane # 0
      BY <1>1, <1>2, <1>8 DEF Removals
    <2>2. op.surface.id \in DOMAIN owners /\ op = Removal(op.surface.id, op.absent, op.layer)
      BY <1>1, <2>1, PlanFields
    <2>3. \A i, absent, layer : /\ Removal(i, absent, layer).surface = owners[i].surface
                                /\ Removal(i, absent, layer).life = owners[i].life
      BY DEF Removal
    <2>. QED BY <2>1, <2>2, <2>3
  <1>9. ASSUME NEW op \in commit'.left, Leaving(op)'
        PROVE  /\ Farewell(op) \in reported
               /\ \A i \in DOMAIN owners' : owners'[i].life # op.life
               /\ \A other \in commit'.left : Leaving(other)' /\ other # op => other.life # op.life
    <2>1. Farewell(op) \in reported
      <3>1. Farewell(op) = Declaration(op.surface.id)
        BY <1>8, <1>9 DEF Farewell, Declaration
      <3>. QED BY <1>2, <1>8, <1>9, <3>1 DEF Told
    <2>2. ASSUME NEW d \in s PROVE owners'[d.id].life # op.life
      <3>1. CASE Held(d) /\ ~Renewed(d)
        <4>1. d.id # op.surface.id /\ owners'[d.id].life = owners[d.id].life /\ d.id \in DOMAIN owners
          BY <1>1, <1>3, <1>8, <1>9, <3>1 DEF Held
        <4>. QED BY <1>8, <1>9, <4>1 DEF Distinct
      <3>2. CASE Renewed(d) \/ ~Held(d)
        <4>1. owners'[d.id].life > next
          BY <3>2, RecordedOwner
        <4>2. op.life <= next /\ op.life \in Nat /\ next \in Nat
          BY <1>8, <1>9 DEF Distinct, Typing, OwnersTyped, Owners, Lives
        <4>3. owners'[d.id].life = next + Ranked(Creations(commit.plan), Creation(d))
          BY <3>2, RecordedOwner
        <4>. QED BY <4>1, <4>2, <4>3
      <3>. QED BY <3>1, <3>2
    <2>3. ASSUME NEW other \in commit'.left, Leaving(other)', other # op PROVE other.life # op.life
      <3>1. CASE other.surface.id = op.surface.id
        BY <1>1, <1>8, <1>9, <2>3, <3>1, PlanSingle
      <3>2. CASE other.surface.id # op.surface.id
        <4>1. /\ other.surface.id \in DOMAIN owners /\ other.life = owners[other.surface.id].life
              /\ op.surface.id \in DOMAIN owners /\ op.life = owners[op.surface.id].life
          BY <1>8, <1>9, <2>3
        <4>. QED BY <3>2, <4>1 DEF Distinct
      <3>. QED BY <3>1, <3>2
    <2>. QED BY <1>1, <2>1, <2>2, <2>3
  <1>10. \A op : Farewell(op)' = Farewell(op)
    BY DEF Farewell
  <1>11. Told'
    BY <1>1, <1>6, <1>7, <1>9, <1>10 DEF Told
  <1>. QED BY <1>5, <1>11

LEMMA ReportPanes ==
  ASSUME Typing, Distinct, InOrder, OwnersBound, Told, NEW op \in commit.left, Report(op)
  PROVE  OwnersBound' /\ Told'
  <1>1. Doing("report", op) /\ UNCHANGED <<owners, torn>>
    BY DEF Report, ReportCreated, ReportRemoved
  <1>2. /\ GoesOn("report", commit.left \ {op}) /\ op = First(commit.left) /\ commit.at = "report"
        /\ \A other \in commit.left \ {op} : Precedes(op, other)
    BY <1>1, GotoStep, FirstLeft DEF Doing, Typing
  <1>3. /\ \A i : Declaration(i)' = Declaration(i)
        /\ \A o : Farewell(o)' = Farewell(o)
    BY <1>1 DEF Declaration, Farewell
  <1>4. CASE ReportCreated(op)
    <2> DEFINE i == op.surface.id
    <2>1. /\ op \in Creations(commit.left) /\ op.action = "create"
          /\ bound' = [bound EXCEPT ![op.surface.pane] = owners[i].view]
          /\ reported' = reported \cup {[generation |-> owners[i].life, pane |-> op.surface.pane]}
      BY <1>4 DEF ReportCreated, Creations
    <2>2. /\ i \in DOMAIN owners /\ owners[i].surface = op.surface /\ op.surface.pane \in Panes
          /\ op.surface.pane # 0
      <3>1. i \in DOMAIN owners /\ owners[i].surface = op.surface /\ op.surface.pane # 0
        BY <1>2, <2>1 DEF Typing, Batch, Held
      <3>. QED BY <3>1, DeclarableAssumption DEF Typing, CommitTyped, Operations
    <2>3. \A j : Coming(j)' <=> Coming(j) /\ j # i
      <3>1. ASSUME NEW other \in Creations(commit.left), other # op PROVE other.surface.id # i
        <4>1. Precedes(op, other)
          BY <1>2, <3>1 DEF Creations
        <4>2. owners[i].life < owners[other.surface.id].life
          BY <1>2, <2>1, <3>1, <4>1 DEF InOrder
        <4>3. owners[i].life \in Nat
          BY <2>2 DEF Typing, OwnersTyped, Owners, Lives
        <4>. QED BY <4>2, <4>3
      <3>2. Creations(commit'.left) = Creations(commit.left) \ {op}
        BY <1>2 DEF Creations, GoesOn
      <3>. QED BY <1>2, <3>1, <3>2 DEF Coming, GoesOn
    <2>4. \A o : Leaving(o)' <=> Leaving(o)
      BY <1>2, <2>1 DEF Leaving, GoesOn, Removals
    <2>5. \A o \in commit.left : Leaving(o) => o \in commit'.left
      BY <1>2, <2>1 DEF Leaving, GoesOn, Removals
    <2>6. OwnersBound'
      <3>1. ASSUME torn = {}, NEW j \in DOMAIN owners, owners[j].surface.pane # 0
            PROVE  bound'[owners[j].surface.pane] = owners[j].view \/ Coming(j)'
        <4>1. CASE j = i
          BY <2>1, <2>2, <4>1 DEF Typing, HostTyped
        <4>2. CASE j # i
          <5>1. owners[j].surface.pane # op.surface.pane
            BY <2>2, <3>1, <4>2 DEF Distinct
          <5>2. owners[j].surface.pane \in Panes
            BY <3>1, DeclarableAssumption DEF Typing, OwnersTyped, Owners
          <5>3. bound'[owners[j].surface.pane] = bound[owners[j].surface.pane]
            BY <2>1, <5>1, <5>2 DEF Typing, HostTyped
          <5>. QED BY <1>2, <2>3, <3>1, <4>2, <5>3 DEF OwnersBound
        <4>. QED BY <4>1, <4>2
      <3>. QED BY <1>1, <3>1 DEF OwnersBound
    <2>7. reported' = reported \cup {Declaration(i)} /\ ~Coming(i)'
      BY <2>1, <2>2, <2>3 DEF Declaration
    <2>8. ASSUME NEW e \in reported'
          PROVE  \/ \E j \in DOMAIN owners : owners[j].surface.pane # 0 /\ ~Coming(j)' /\ e = Declaration(j)
                 \/ \E o \in commit'.left : Leaving(o) /\ e = Farewell(o)
      <3>1. CASE e = Declaration(i)
        BY <2>2, <2>7, <3>1
      <3>2. CASE e \in reported
        BY <2>3, <2>5, <3>2 DEF Told
      <3>. QED BY <2>7, <3>1, <3>2
    <2>9. ASSUME NEW j \in DOMAIN owners, owners[j].surface.pane # 0, ~Coming(j)'
          PROVE  Declaration(j) \in reported'
      BY <2>3, <2>7, <2>9 DEF Told
    <2>10. commit'.left \subseteq commit.left
      BY <1>2 DEF GoesOn
    <2>11. Told'
      BY <1>1, <1>3, <2>4, <2>7, <2>8, <2>9, <2>10 DEF Told
    <2>. QED BY <2>6, <2>11
  <1>5. CASE ReportRemoved(op)
    <2>1. op.action = "remove" /\ bound' = bound /\ reported' = reported \ {Farewell(op)}
      BY <1>5 DEF ReportRemoved, Farewell
    <2>2. \A j : Coming(j)' <=> Coming(j)
      <3>1. Creations(commit'.left) = Creations(commit.left)
        BY <1>2, <2>1 DEF Creations, GoesOn
      <3>. QED BY <1>2, <3>1 DEF Coming, GoesOn
    <2>3. /\ \A o : Leaving(o)' <=> Leaving(o) /\ o # op
          /\ Leaving(op) /\ commit'.left = commit.left \ {op}
      BY <1>2, <2>1 DEF Leaving, GoesOn, Removals
    <2>4. OwnersBound'
      <3>1. ASSUME torn = {}, NEW j \in DOMAIN owners, owners[j].surface.pane # 0
            PROVE  bound[owners[j].surface.pane] = owners[j].view \/ Coming(j)'
        BY <1>2, <2>2, <3>1 DEF OwnersBound
      <3>. QED BY <1>1, <2>1, <3>1 DEF OwnersBound
    <2>5. ASSUME NEW j \in DOMAIN owners PROVE Declaration(j) # Farewell(op)
      <3>1. owners[j].life # op.life
        BY <2>3 DEF Told
      <3>. QED BY <3>1 DEF Declaration, Farewell
    <2>6. ASSUME NEW o \in commit.left, Leaving(o), o # op PROVE Farewell(o) # Farewell(op)
      <3>1. o.life # op.life
        BY <2>3, <2>6 DEF Told
      <3>. QED BY <3>1 DEF Farewell
    <2>7. ASSUME NEW e \in reported'
          PROVE  \/ \E j \in DOMAIN owners : owners[j].surface.pane # 0 /\ ~Coming(j) /\ e = Declaration(j)
                 \/ \E o \in commit'.left : Leaving(o) /\ e = Farewell(o)
      BY <2>1, <2>3 DEF Told
    <2>8. ASSUME NEW j \in DOMAIN owners, owners[j].surface.pane # 0, ~Coming(j)
          PROVE  Declaration(j) \in reported'
      BY <2>1, <2>5, <2>8 DEF Told
    <2>9. ASSUME NEW o \in commit'.left, Leaving(o), o # op
          PROVE  /\ Farewell(o) \in reported'
                 /\ \A j \in DOMAIN owners : owners[j].life # o.life
                 /\ \A other \in commit'.left : Leaving(other) /\ other # o => other.life # o.life
      BY <2>1, <2>3, <2>6, <2>9 DEF Told
    <2>10. op \notin commit'.left
      BY <2>3
    <2>11. Told'
      BY <1>1, <1>3, <2>2, <2>3, <2>7, <2>8, <2>9, <2>10 DEF Told
    <2>. QED BY <2>4, <2>11
  <1>. QED BY <1>4, <1>5 DEF Report

LEMMA NextPanes ==
  ASSUME SourcesFixed, Typing, Distinct, InOrder, Standing, Placed, Declared, OwnersBound, Told,
         [Next]_vars
  PROVE  OwnersBound' /\ Told'
  <1>1. CASE UNCHANGED vars
    <2>1. UNCHANGED <<owners, commit, bound, reported, torn>>
      BY <1>1 DEF vars
    <2>2. /\ \A i : Declaration(i)' = Declaration(i) /\ (Coming(i)' <=> Coming(i))
          /\ \A op : Farewell(op)' = Farewell(op) /\ (Leaving(op)' <=> Leaving(op))
      BY <2>1 DEF Declaration, Farewell, Coming, Leaving
    <2>. QED BY <2>1, <2>2 DEF OwnersBound, Told
  <1>2. ASSUME NEW s \in Snapshots, Commit(s) PROVE OwnersBound' /\ Told'
    <2>1. commit.at = "idle" /\ UNCHANGED <<owners, bound, reported, torn>>
      BY <1>2 DEF Commit, hostVars
    <2>2. commit'.at # "report"
      BY <1>2 DEF Commit, Idle
    <2>. QED BY <2>1, <2>2, SilentPanes
  <1>3. CASE Unbound
    <2>1. GoesOn("drive", commit.plan) /\ commit.at = "unbind"
      BY <1>3, GotoStep DEF Unbound, Typing
    <2>. QED BY <1>3, <2>1, SilentPanes DEF Unbound, GoesOn, hostVars
  <1>4. ASSUME NEW op \in commit.left, DriveCreate(op) \/ DriveUpdate(op) \/ DriveRemove(op)
        PROVE  OwnersBound' /\ Told'
    <2>1. GoesOn("drive", commit.left \ {op}) /\ commit.at = "drive"
      BY <1>4, GotoStep, DriveCreateFacts DEF DriveUpdate, DriveRemove, Doing, Typing
    <2>2. UNCHANGED <<owners, bound, reported, torn>>
      BY <1>4 DEF DriveCreate, DriveUpdate, DriveRemove, hostVars
    <2>. QED BY <2>1, <2>2, SilentPanes DEF GoesOn
  <1>5. ASSUME NEW op \in commit.left, CreateFails(op) PROVE OwnersBound' /\ Told'
    <2>1. /\ commit.at = "drive" /\ commit'.at = "idle" /\ UNCHANGED <<owners, bound, reported>>
          /\ torn' = torn \cup {o.surface.id : o \in (commit.plan \ commit.left) \cup Removals(commit.plan)}
      BY <1>5 DEF CreateFails, Idle, hostVars
    <2>2. torn' = {} => torn = {} /\ Removals(commit.plan) = {}
      BY <2>1
    <2>. QED BY <2>1, <2>2, SilentPanes
  <1>6. ASSUME NEW op \in commit.left, Crash(op) PROVE OwnersBound' /\ Told'
    <2>1. /\ commit.at = "drive" /\ commit'.at = "crashed"
          /\ UNCHANGED <<owners, bound, reported, torn>>
      BY <1>6 DEF Crash, hostVars, Typing, CommitTyped, CommitShape
    <2>2. torn' # {}
      BY <1>6, <2>1, CrashedHosts DEF Standing
    <2>. QED BY <2>1, <2>2, SilentPanes
  <1>7. CASE Return
    <2>1. /\ commit.at = "report" /\ commit.left = {} /\ commit'.at = "idle"
          /\ UNCHANGED <<owners, bound, reported, torn>>
      BY <1>7 DEF Return, Idle, hostVars
    <2>. QED BY <2>1, SilentPanes
  <1>8. ASSUME NEW h \in Heights, Resize(h) PROVE OwnersBound' /\ Told'
    <2>1. /\ commit.at = "idle" /\ commit' = commit
          /\ UNCHANGED <<owners, bound, reported, torn>>
      BY <1>8 DEF Resize, hostVars
    <2>. QED BY <2>1, SilentPanes
  <1>. QED BY <1>1, <1>2, <1>3, <1>4, <1>5, <1>6, <1>7, <1>8, UnbindPanes, RecordPanes, ReportPanes
           DEF Next, Apply, Drive, Rest

LEMMA InvariantPanes ==
  SourcesFixed => (Spec => [](EveryPaneHasItsView /\ ReportsMatchOwners))
  <1> SUFFICES ASSUME SourcesFixed PROVE Spec => [](EveryPaneHasItsView /\ ReportsMatchOwners)
    OBVIOUS
  <1> DEFINE Known == Typing /\ Distinct /\ InOrder /\ Standing /\ Placed /\ Declared
             Panels == Binding /\ OwnersBound /\ Told
  <1>1. Init => Known /\ Panels
    BY InitTyping, InitDistinct, InitInOrder, InitHosts, InitBinding, InitPanes
  <1>2. Known /\ [Next]_vars => Known'
    BY NextTyping, NextDistinct, NextInOrder, NextHosts
  <1>3. Known /\ Panels /\ [Next]_vars => Panels'
    BY NextBinding, NextPanes
  <1>4. Known /\ Panels => EveryPaneHasItsView /\ ReportsMatchOwners
    BY PanesHold
  <1> HIDE DEF Known, Panels
  <1>. QED BY <1>1, <1>2, <1>3, <1>4, PTL DEF Spec

\* As long as a surface names one pane and no commit has failed, every pane with
\* an owner has that owner's view bound between commits, and a pane without one
\* has none.
THEOREM PanesHaveTheirViews == SourcesFixed => (Spec => []EveryPaneHasItsView)
  BY InvariantPanes, PTL

\* As long as a surface names one pane, the host knows between commits of exactly
\* the panes that are owned, whatever the driver failed to create.
THEOREM HostKnowsTheOwners == SourcesFixed => (Spec => []ReportsMatchOwners)
  BY InvariantPanes, PTL

=============================================================================
