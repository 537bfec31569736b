------------------------------ MODULE RepairProofs ------------------------------
(***************************************************************************)
(* A scale or an update that is accepted has repaired its function,        *)
(* whatever earlier calls, faults and crashes left behind: ScaleConverges  *)
(* and UpdateRecreates, for every number of requests, replicas and faults, *)
(* as long as no two calls of one function overlap and labels are left to  *)
(* the gateway.                                                            *)
(*                                                                         *)
(* The first part is about ReplicaPlan alone: what the plan leaves of any  *)
(* set of containers, and what is to be created to reach the target.  The  *)
(* second follows a handler from the plan, or from the pull, to the store. *)
(***************************************************************************)
EXTENDS LifecycleProofs

\* What the engine may list when it is now: an index is a number or missing, and no
\* container is from the future.
Listed(C, now) == \A c \in C : c.replica \in Nat \cup {NoIndex} /\ c.created \in 0 .. now

\* A set of containers no older than the beginning has a newest one.
LEMMA NewestExists ==
    ASSUME NEW now \in Nat, NEW C, Listed(C, now), C # {}
    PROVE  \E k \in C : \A c \in C : c.created <= k.created
  <1> DEFINE R == {ij \in Nat \X Nat : ij[1] < ij[2]}
             Ages == {now - c.created : c \in C}
  <1>1. IsWellFoundedOn(R, Nat)
    BY NatLessThanWellFounded DEF OpToRel
  <1>2. Ages \subseteq Nat /\ Ages # {}
    BY DEF Listed
  <1>3. \A i, j \in Nat : i < j => <<i, j>> \in R
    OBVIOUS
  <1>4. PICK a \in Ages : \A b \in Ages : <<b, a>> \notin R
    <2> HIDE DEF R, Ages
    <2> QED
      BY <1>1, <1>2, WFMin
  <1>5. PICK k \in C : a = now - k.created
    OBVIOUS
  <1>6. \A c \in C : ~(now - c.created < now - k.created)
    <2> SUFFICES ASSUME NEW c \in C
                 PROVE  ~(now - c.created < now - k.created)
      OBVIOUS
    <2>1. now - c.created \in Ages
      OBVIOUS
    <2> HIDE DEF R
    <2> QED
      BY <1>2, <1>3, <1>4, <1>5, <2>1
  <1>7. \A c \in C : c.created \in Int /\ k.created \in Int
    BY DEF Listed
  <1> QED
    BY <1>6, <1>7

\* selectReplicaKeeper has a best container in every group: the newest of those that
\* are running, or of all when none is.
LEMMA KeeperExists ==
    ASSUME NEW now \in Nat, NEW C, Listed(C, now), C # {}
    PROVE  IsKeeper(Keeper(C), C)
  <1> DEFINE U == {c \in C : IsRunning(c.state)}
  <1>1. \A c \in C : c.created \in Int
    BY DEF Listed
  <1>2. CASE U # {}
    <2>1. PICK k \in U : \A c \in U : c.created <= k.created
      BY <1>2, NewestExists DEF Listed
    <2>2. IsKeeper(k, C)
      BY <1>1, <2>1 DEF IsKeeper, Preferred
    <2> QED
      BY <2>2 DEF Keeper
  <1>3. CASE U = {}
    <2>1. PICK k \in C : \A c \in C : c.created <= k.created
      BY NewestExists
    <2>2. IsKeeper(k, C)
      BY <1>1, <1>3, <2>1 DEF IsKeeper, Preferred
    <2> QED
      BY <2>2 DEF Keeper
  <1> QED
    BY <1>2, <1>3

\* What is left of the listed containers once the plan's removals are carried out.
Left(listed, target) ==
    listed \ (ScalePlan(listed, target).stale \cup ScalePlan(listed, target).active)

\* buildReplicaScalePlan, for every list and every target: what its removals leave is
\* not stale and below the target; an index it does not recreate has exactly one
\* container left, and a best one; an index it recreates has none.  So removing what
\* it names and creating what it misses leaves each index below the target once.
THEOREM PlanReachesTargetAlways ==
    ASSUME NEW now \in Nat, NEW listed, Listed(listed, now), NEW target \in Nat
    PROVE  /\ \A c \in Left(listed, target) : ~IsStale(c.state) /\ c.replica < target
           /\ target = 0 => Left(listed, target) = {}
           /\ \A i \in 0 .. target - 1 :
                 IF i \in ScalePlan(listed, target).missing
                 THEN \A c \in Left(listed, target) : c.replica # i
                 ELSE \E k \in Left(listed, target) :
                         /\ IsKeeper(k, Group(listed, i))
                         /\ \A c \in Left(listed, target) : c.replica = i => c = k
  <1>1. \A c : c \in Left(listed, target) <=>
                  /\ c \in listed /\ ~IsStale(c.state)
                  /\ IF c.replica = NoIndex THEN target # 0
                     ELSE c \in Kept(listed) /\ ~(c.replica >= target)
    BY DEF Left, ScalePlan, Live
  <1>2. \A c \in listed : c.replica \in Nat \cup {NoIndex}
    BY DEF Listed
  <1>3. \A i \in Indices(listed) :
          /\ IsKeeper(Keeper(Group(listed, i)), Group(listed, i))
          /\ Keeper(Group(listed, i)) \in Group(listed, i)
    <2> SUFFICES ASSUME NEW i \in Indices(listed)
                 PROVE  IsKeeper(Keeper(Group(listed, i)), Group(listed, i))
      BY DEF IsKeeper
    <2>1. Listed(Group(listed, i), now) /\ Group(listed, i) # {}
      BY DEF Group, Indices, Live, Listed
    <2> QED
      BY <2>1, KeeperExists
  <1>4. \A i \in Nat : \A k, c \in Kept(listed) : k.replica = i /\ c.replica = i => k = c
    BY <1>3 DEF Kept, Group
  <1>5. \A c \in Left(listed, target) : ~IsStale(c.state) /\ c.replica < target
    BY <1>1, <1>2 DEF NoIndex
  <1>6. target = 0 => Left(listed, target) = {}
    BY <1>1, <1>2 DEF NoIndex
  <1>7. ASSUME NEW i \in 0 .. target - 1, i \in ScalePlan(listed, target).missing,
               NEW c \in Left(listed, target)
        PROVE  c.replica # i
    <2>1. i \notin Indices(listed) /\ i # NoIndex
      BY <1>7 DEF ScalePlan, NoIndex
    <2>2. c \in Live(listed)
      BY <1>1 DEF Live
    <2> QED
      BY <2>1, <2>2 DEF Indices
  <1>8. ASSUME NEW i \in 0 .. target - 1, i \notin ScalePlan(listed, target).missing
        PROVE  \E k \in Left(listed, target) :
                  /\ IsKeeper(k, Group(listed, i))
                  /\ \A c \in Left(listed, target) : c.replica = i => c = k
    <2>1. i \in Indices(listed) /\ i \in Nat /\ i # NoIndex
      BY <1>8 DEF ScalePlan, NoIndex
    <2> DEFINE k == Keeper(Group(listed, i))
    <2>2. k \in Group(listed, i) /\ IsKeeper(k, Group(listed, i)) /\ k \in Kept(listed)
      BY <1>3, <2>1 DEF Kept
    <2>3. k \in listed /\ ~IsStale(k.state) /\ k.replica = i
      BY <2>2 DEF Group, Live
    <2> HIDE DEF k
    <2>4. k \in Left(listed, target)
      BY <1>1, <2>1, <2>2, <2>3
    <2>5. \A c \in Left(listed, target) : c.replica = i => c = k
      BY <1>1, <1>4, <2>1, <2>2, <2>3
    <2> QED
      BY <2>2, <2>4, <2>5
  <1> QED
    BY <1>5, <1>6, <1>7, <1>8

--------------------------------------------------------------------------------
(* What a handler has done of its scale or update *)

\* No two calls of one function overlap; calls of different functions may.
NoOverlap == \A r, t \in InFlight : Service(r) = Service(t) => r = t

\* A container has the replica index in its id, and the image of the call of the
\* update or build that created it.
Identified ==
    \A c \in Existing :
       /\ containers[c].replica = c[2]
       /\ c[1] \in Requests /\ Op(c[1]) \in {"update", "build"} =>
             containers[c].image = req[c[1]].call.image

\* The container listed as replica i of s.
Indexed(s, i) == {c \in ContainersOf(s) : containers[c].replica = i}

\* The handler of r has created replica i.
Remade(r, i) == \E c \in Indexed(Service(r), i) : c[1] = r

Scaling(r) == req[r].job \in {"scale", "wake"}

\* The containers of s that are none of the victims.
SparedBy(s, victims) == {c \in ContainersOf(s) : \A v \in victims : v.id # c}

\* The containers in C are not stale, and are the replicas below n that are not missing.
Covering(C, n, missing) ==
    /\ missing \subseteq 0 .. n - 1
    /\ {containers[c].replica : c \in C} = (0 .. n - 1) \ missing
    /\ \A c \in C : ~IsStale(containers[c].state)

Spared(r)    == SparedBy(Service(r), req[r].victims)
Covers(r, C) == Covering(C, Target(r), req[r].missing)

Preparing == {"create", "netcreate", "connect", "inspect", "ccreate"}

\* The labels at which there is something to remember.
Remembering == CreatingLabels \cup {"pull", "reap", "remove", "save", "setreplicas"}

Underway(r) ==
    /\ pc[r] \in {"save", "setreplicas"} => req[r].missing = {}
    /\ req[r].job = "update" =>
          /\ pc[r] \in CreatingLabels \cup {"save"} =>
                \A i \in 0 .. req[r].row.replicas - 1 : i \in req[r].missing \/ Remade(r, i)
          /\ pc[r] = "rmstale" => req[r].cur[2] = NextReplica(r)
    /\ Scaling(r) =>
          /\ pc[r] \in {"reap", "remove"} => Covers(r, Spared(r))
          /\ pc[r] \notin {"pull", "rmstale"}
          /\ pc[r] \in Preparing \cup {"setreplicas"} => Covers(r, ContainersOf(Service(r)))
          /\ pc[r] = "cstart" => Covers(r, ContainersOf(Service(r)) \ {NewContainer(r)})

RepairInv == Identified /\ \A r \in Requests : Underway(r)

\* Containers keep their index and image, or are of the handler of r's making.
Identifies(r) ==
    \A c \in Existing' :
       \/ /\ c \in Existing
          /\ containers'[c].replica = containers[c].replica
          /\ containers'[c].image = containers[c].image
       \/ /\ c[1] = r /\ containers'[c].replica = c[2]
          /\ Op(r) \in {"update", "build"} => containers'[c].image = req[r].call.image

Repairs(r) == Underway(r)' /\ Identifies(r)

--------------------------------------------------------------------------------
(* Lemmas: what stays *)

LEMMA NothingUnderway ==
    ASSUME NEW r, pc[r] \notin Remembering
    PROVE  Underway(r)
  BY DEF Underway, Remembering, CreatingLabels, Preparing

\* The containers of a handler's function keep their indices, and none becomes stale.
LEMMA UnderwayStands ==
    ASSUME NEW r, Underway(r),
           pc'[r] = pc[r] \/ (pc[r] \in Preparing /\ pc'[r] \in Preparing),
           req'[r].call = req[r].call, req'[r].job = req[r].job, req'[r].row = req[r].row,
           req'[r].victims = req[r].victims, req'[r].missing = req[r].missing,
           req'[r].cur = req[r].cur,
           NEW s, s = Service(r), ContainersOf(s)' = ContainersOf(s),
           \A c \in ContainersOf(s) :
              /\ containers'[c].replica = containers[c].replica
              /\ IsStale(containers'[c].state) => IsStale(containers[c].state)
    PROVE  Underway(r)'
  <1>1. Service(r)' = s /\ Op(r)' = Op(r)
    BY DEF Service, Op
  <1>2. Target(r)' = Target(r) /\ Scaling(r)' = Scaling(r) /\ NextReplica(r)' = NextReplica(r)
    BY DEF Target, Scaling, NextReplica
  <1>3. NewContainer(r)' = NewContainer(r)
    BY <1>2 DEF NewContainer
  <1>4. Spared(r)' = Spared(r)
    BY <1>1 DEF Spared, SparedBy
  <1>5. \A i : Remade(r, i)' <=> Remade(r, i)
    BY <1>1 DEF Remade, Indexed
  <1>6. ASSUME NEW C, C \subseteq ContainersOf(s), Covers(r, C)
        PROVE  /\ req'[r].missing \subseteq 0 .. Target(r)' - 1
               /\ {containers'[c].replica : c \in C} = (0 .. Target(r)' - 1) \ req'[r].missing
               /\ \A c \in C : ~IsStale(containers'[c].state)
    <2>1. {containers'[c].replica : c \in C} = {containers[c].replica : c \in C}
      BY <1>6
    <2> QED
      BY <1>2, <1>6, <2>1 DEF Covers, Covering
  <1>7. Scaling(r) /\ pc[r] \in {"reap", "remove"} => Covers(r, Spared(r))'
    <2> HAVE Scaling(r) /\ pc[r] \in {"reap", "remove"}
    <2>1. Spared(r) \subseteq ContainersOf(s) /\ Covers(r, Spared(r))
      BY DEF Spared, SparedBy, Underway
    <2> QED
      BY <1>4, <1>6, <2>1 DEF Covers, Covering
  <1>8. Scaling(r) /\ pc[r] \in Preparing \cup {"setreplicas"} => Covers(r, ContainersOf(Service(r)))'
    <2> HAVE Scaling(r) /\ pc[r] \in Preparing \cup {"setreplicas"}
    <2>1. Covers(r, ContainersOf(s))
      BY DEF Underway
    <2>2. ContainersOf(Service(r))' = ContainersOf(s)
      BY <1>1 DEF ContainersOf
    <2> QED
      BY <1>6, <2>1, <2>2 DEF Covers, Covering
  <1>9. Scaling(r) /\ pc[r] = "cstart" =>
           Covers(r, ContainersOf(Service(r)) \ {NewContainer(r)})'
    <2> HAVE Scaling(r) /\ pc[r] = "cstart"
    <2>1. Covers(r, ContainersOf(s) \ {NewContainer(r)})
      BY DEF Underway
    <2>2. (ContainersOf(Service(r)) \ {NewContainer(r)})' = ContainersOf(s) \ {NewContainer(r)}
      BY <1>1, <1>3 DEF ContainersOf
    <2> QED
      BY <1>6, <2>1, <2>2 DEF Covers, Covering
  <1> QED
    BY <1>2, <1>5, <1>7, <1>8, <1>9 DEF Underway, Preparing, CreatingLabels

LEMMA NobodyElse ==
    ASSUME UNCHANGED engineVars, NEW r
    PROVE  Identifies(r)
  BY DEF Identifies, Existing, engineVars

\* A handler that answers has nothing underway.
LEMMA AnswerRepairs ==
    ASSUME TypeOK, NEW r \in Requests, NEW code,
           Answer(r, code) \/ \E arrived : Finish(r, code, arrived)
    PROVE  Underway(r)'
  <1>1. pc'[r] = "done"
    BY DEF Answer, Finish, Goto, TypeOK
  <1> QED
    BY <1>1 DEF Underway, CreatingLabels, Preparing

\* A handler that goes on where there is nothing to remember.
LEMMA GoesOnRepairs ==
    ASSUME TypeOK, NEW r \in Requests, NEW label, NEW q, Goto(r, label, q),
           label \notin Remembering \/ (label = "pull" /\ q.job \notin {"scale", "wake"})
    PROVE  Underway(r)'
  <1>1. pc'[r] = label /\ req'[r] = q
    BY DEF Goto, TypeOK
  <1> QED
    BY <1>1 DEF Underway, Scaling, Remembering, CreatingLabels, Preparing

--------------------------------------------------------------------------------
(* Planning and removing *)

\* The plan of a scale spares each index it does not create again.
LEMMA PlanCovers ==
    ASSUME Inv, NEW s, NEW n \in Nat, NEW plan, plan = ScalePlan(Listing(s), n)
    PROVE  Covering(SparedBy(s, plan.stale \cup plan.active), n, plan.missing)
  <1> DEFINE L == Listing(s)
             victims == plan.stale \cup plan.active
             C == SparedBy(s, victims)
  <1>1. Listed(L, 0)
    <2>1. \A c \in ContainersOf(s) : containers[c].replica \in Nat
      BY MaxReplicasAssumption
      DEF Inv, TypeOK, EngineTypeOK, ContainersOf, Existing, Container, Replicas
    <2> QED
      BY <2>1 DEF Listed, Listing, Summary
  <1>2. /\ \A v \in Left(L, n) : ~IsStale(v.state) /\ v.replica < n
        /\ \A i \in 0 .. n - 1 :
              IF i \in ScalePlan(L, n).missing
              THEN \A v \in Left(L, n) : v.replica # i
              ELSE \E v \in Left(L, n) : v.replica = i
    <2>1. 0 \in Nat
      OBVIOUS
    <2>2. /\ \A v \in Left(L, n) : ~IsStale(v.state) /\ v.replica < n
          /\ \A i \in 0 .. n - 1 :
                IF i \in ScalePlan(L, n).missing
                THEN \A v \in Left(L, n) : v.replica # i
                ELSE \E v \in Left(L, n) : IsKeeper(v, Group(L, i))
      <3> HIDE DEF L
      <3> QED
        BY <1>1, <2>1, PlanReachesTargetAlways
    <2>3. \A i, v : IsKeeper(v, Group(L, i)) => v.replica = i
      BY DEF IsKeeper, Group
    <2> QED
      BY <2>2, <2>3
  <1>3. victims \subseteq L /\ Left(L, n) = L \ victims
    BY DEF Left, ScalePlan, Live
  <1>4. \A c \in ContainersOf(s) : c \in C <=> Summary(c) \in Left(L, n)
    <2> SUFFICES ASSUME NEW c \in ContainersOf(s)
                 PROVE  c \in C <=> Summary(c) \in Left(L, n)
      OBVIOUS
    <2>1. \A v \in L : v.id = c <=> v = Summary(c)
      BY DEF Listing, Summary
    <2>2. Summary(c) \in L
      BY DEF Listing
    <2>3. c \in C <=> \A v \in victims : v.id # c
      BY DEF SparedBy
    <2> HIDE DEF L, C, victims
    <2> QED
      BY <1>3, <2>1, <2>2, <2>3
  <1>5. \A v \in Left(L, n) : \E c \in C : v = Summary(c)
    <2> SUFFICES ASSUME NEW v \in Left(L, n)
                 PROVE  \E c \in C : v = Summary(c)
      OBVIOUS
    <2>1. v \in L
      BY <1>3
    <2>2. PICK c \in ContainersOf(s) : v = Summary(c)
      BY <2>1 DEF Listing
    <2> HIDE DEF L, C, victims
    <2>3. Summary(c) \in Left(L, n)
      BY <2>2
    <2>4. c \in C
      BY <1>4, <2>2, <2>3
    <2> QED
      BY <2>2, <2>4
  <1>6. \A c \in C : Summary(c) \in Left(L, n)
    BY <1>4 DEF SparedBy
  <1>7. \A c : Summary(c).state = containers[c].state /\ Summary(c).replica = containers[c].replica
    BY DEF Summary
  <1>8. plan.missing \subseteq 0 .. n - 1 /\ plan.missing = ScalePlan(L, n).missing
    BY DEF ScalePlan
  <1>9. \A c \in C : containers[c].replica \in Nat
    BY MaxReplicasAssumption
    DEF SparedBy, Inv, TypeOK, EngineTypeOK, ContainersOf, Existing, Container, Replicas
  <1> HIDE DEF L, C, victims
  <1>10. \A c \in C : containers[c].replica \in (0 .. n - 1) \ plan.missing
    BY <1>2, <1>6, <1>7, <1>8, <1>9
  <1>11. \A i \in (0 .. n - 1) \ plan.missing : \E c \in C : containers[c].replica = i
    BY <1>2, <1>5, <1>7, <1>8
  <1>12. {containers[c].replica : c \in C} = (0 .. n - 1) \ plan.missing
    BY <1>10, <1>11
  <1>13. \A c \in C : ~IsStale(containers[c].state)
    BY <1>2, <1>6, <1>7
  <1>14. Covering(C, n, plan.missing)
    BY <1>8, <1>12, <1>13 DEF Covering
  <1> QED
    BY <1>14 DEF C, victims

LEMMA ListRepairs ==
    ASSUME Inv, NEW r \in Requests, List(r)
    PROVE  Repairs(r)
  <1>1. pc[r] = "list" /\ UNCHANGED engineVars /\ TypeOK
    BY DEF List, Inv
  <1>2. Identifies(r)
    BY <1>1, NobodyElse
  <1>3. CASE Answer(r, 500) \/ (req[r].job = "update" /\ Goto(r, "pull", req[r]))
    BY <1>1, <1>2, <1>3, AnswerRepairs, GoesOnRepairs DEF Repairs
  <1> DEFINE listed == Listing(Service(r))
             plan   == ScalePlan(listed, Target(r))
  <1>4. CASE RemovesAll(r) /\ Goto(r, "reap", [req[r] EXCEPT !.victims = listed])
    <2>1. pc'[r] = "reap" /\ req'[r].job = req[r].job
      BY <1>1, <1>4 DEF Goto, TypeOK, Request
    <2> QED
      BY <1>2, <1>4, <2>1 DEF Repairs, Underway, RemovesAll, Scaling, CreatingLabels
  <1>5. CASE Goto(r, "reap", [req[r] EXCEPT !.victims = plan.stale \cup plan.active,
                                            !.missing = plan.missing])
    <2> DEFINE C == SparedBy(Service(r), plan.stale \cup plan.active)
    <2>1. /\ pc'[r] = "reap" /\ req'[r].job = req[r].job /\ req'[r].call = req[r].call
          /\ req'[r].row = req[r].row
          /\ req'[r].victims = plan.stale \cup plan.active /\ req'[r].missing = plan.missing
      BY <1>1, <1>5 DEF Goto, TypeOK, Request
    <2>2. Target(r) \in Nat
      BY <1>1, TargetBound, MaxReplicasAssumption
    <2>3. Covering(C, Target(r), plan.missing)
      BY <2>2, PlanCovers
    <2> HIDE DEF plan
    <2>4. Target(r)' = Target(r) /\ Service(r)' = Service(r)
      BY <2>1 DEF Target, Service
    <2>5. containers' = containers
      BY <1>1 DEF engineVars
    <2>6. Spared(r)' = C
      BY <2>1, <2>4, <2>5 DEF Spared, SparedBy, ContainersOf, Existing
    <2> HIDE DEF C
    <2>7. Covers(r, Spared(r))'
      BY <2>1, <2>3, <2>4, <2>5, <2>6 DEF Covers, Covering
    <2> QED
      BY <1>2, <2>1, <2>7 DEF Repairs, Underway, CreatingLabels, Preparing
  <1> QED
    BY <1>3, <1>4, <1>5 DEF List

\* Containers the handler will not remove stay as they are while it stops and removes others.
LEMMA ReapRepairs ==
    ASSUME Inv, NEW r \in Requests, Underway(r), pc[r] \in {"reap", "remove"},
           NEW label \in {"reap", "remove"}, NEW q, Goto(r, label, q), Keeps(r, q),
           q.missing = req[r].missing,
           Spared(r)' = Spared(r), \A c \in Spared(r) : containers'[c] = containers[c]
    PROVE  Underway(r)'
  <1>1. pc'[r] = label /\ req'[r] = q
    BY DEF Goto, Inv, TypeOK
  <1>2. Target(r)' = Target(r) /\ Scaling(r)' = Scaling(r)
    BY <1>1 DEF Target, Scaling, Keeps
  <1>3. {containers'[c].replica : c \in Spared(r)} = {containers[c].replica : c \in Spared(r)}
    OBVIOUS
  <1>4. Scaling(r) => Covers(r, Spared(r))'
    BY <1>1, <1>2, <1>3 DEF Underway, Covers, Covering
  <1> QED
    BY <1>1, <1>2, <1>4 DEF Underway, CreatingLabels, Preparing

LEMMA StopVictimRepairs ==
    ASSUME Inv, NEW r \in Requests, Underway(r), StopVictim(r)
    PROVE  Repairs(r)
  <1>1. pc[r] = "reap" /\ TypeOK /\ req[r] \in Request
    BY RequestFacts DEF StopVictim, Inv
  <1>2. PICK v \in req[r].victims :
          \/ /\ ContainerStop(v.id) \/ UNCHANGED engineVars
             /\ Goto(r, "remove", [req[r] EXCEPT !.cur = v.id])
          \/ Answer(r, 500) /\ UNCHANGED engineVars
    BY DEF StopVictim, NextVictims
  <1>3. CASE Answer(r, 500) /\ UNCHANGED engineVars
    BY <1>1, <1>3, AnswerRepairs, NobodyElse DEF Repairs
  <1>4. CASE /\ ContainerStop(v.id) \/ UNCHANGED engineVars
             /\ Goto(r, "remove", [req[r] EXCEPT !.cur = v.id])
    <2> DEFINE q == [req[r] EXCEPT !.cur = v.id]
    <2>1. Keeps(r, q) /\ q.victims = req[r].victims /\ q.missing = req[r].missing
      BY <1>1 DEF Keeps, Request
    <2>2. Goto(r, "remove", q)
      BY <1>4
    <2> HIDE DEF q
    <2>3. Existing' = Existing /\ \A c \in Existing :
             /\ containers'[c].replica = containers[c].replica
             /\ containers'[c].image = containers[c].image
             /\ containers'[c].service = containers[c].service
             /\ c # v.id => containers'[c] = containers[c]
      BY <1>1, <1>4 DEF ContainerStop, SetState, Existing, engineVars, TypeOK, EngineTypeOK, Container
    <2>4. req'[r] = q /\ Service(r)' = Service(r)
      BY <1>1, <2>1, <2>2 DEF Goto, TypeOK, Service, Keeps
    <2>5. Spared(r)' = Spared(r)
      BY <2>1, <2>3, <2>4 DEF Spared, SparedBy, ContainersOf
    <2>6. \A c \in Spared(r) : containers'[c] = containers[c]
      BY <2>3 DEF Spared, SparedBy, ContainersOf
    <2>7. Underway(r)'
      BY <1>1, <2>1, <2>2, <2>5, <2>6, ReapRepairs
    <2> QED
      BY <2>3, <2>7 DEF Repairs, Identifies
  <1> QED
    BY <1>2, <1>3, <1>4

LEMMA RemoveVictimRepairs ==
    ASSUME Inv, NEW r \in Requests, Underway(r), RemoveVictim(r)
    PROVE  Repairs(r)
  <1>1. pc[r] \in {"reap", "remove"} /\ TypeOK /\ req[r] \in Request
    BY RequestFacts DEF RemoveVictim, Inv
  <1>2. PICK v \in req[r].victims :
          \/ /\ ContainerRemove(v.id)
             /\ Goto(r, "reap", Gone(r, v))
          \/ /\ UNCHANGED engineVars /\ RemovesAll(r)
             /\ Goto(r, "reap", Gone(r, v))
          \/ Answer(r, 500) /\ UNCHANGED engineVars
    BY DEF RemoveVictim
  <1>3. CASE Answer(r, 500) /\ UNCHANGED engineVars
    BY <1>1, <1>3, AnswerRepairs, NobodyElse DEF Repairs
  <1> DEFINE q == Gone(r, v)
  <1>4. /\ Keeps(r, q) /\ q.victims = req[r].victims \ {v}
        /\ q.missing = req[r].missing /\ q.job = req[r].job
    BY <1>1 DEF Keeps, Request, Gone
  <1>5. CASE UNCHANGED engineVars /\ RemovesAll(r) /\ Goto(r, "reap", q)
    <2> HIDE DEF q
    <2>1. pc'[r] = "reap" /\ req'[r] = q
      BY <1>1, <1>5 DEF Goto, TypeOK
    <2>2. Underway(r)'
      BY <1>4, <1>5, <2>1 DEF Underway, RemovesAll, Scaling, CreatingLabels
    <2> QED
      BY <1>5, <2>2, NobodyElse DEF Repairs
  <1>6. CASE ContainerRemove(v.id) /\ Goto(r, "reap", q)
    <2> HIDE DEF q
    <2>1. Existing' = Existing \ {v.id} /\ \A c \in Existing' : containers'[c] = containers[c]
      BY <1>6 DEF ContainerRemove, Existing
    <2>2. req'[r] = q /\ Service(r)' = Service(r)
      BY <1>1, <1>4, <1>6 DEF Goto, TypeOK, Service, Keeps
    <2>3. Spared(r)' = Spared(r)
      BY <1>4, <2>1, <2>2 DEF Spared, SparedBy, ContainersOf
    <2>4. \A c \in Spared(r) : containers'[c] = containers[c]
      BY <2>1 DEF Spared, SparedBy, ContainersOf
    <2>5. Underway(r)'
      BY <1>1, <1>4, <1>6, <2>3, <2>4, ReapRepairs
    <2> QED
      BY <2>1, <2>5 DEF Repairs, Identifies
  <1> QED
    BY <1>2, <1>3, <1>5, <1>6

LEMMA ReapedRepairs ==
    ASSUME Inv, NEW r \in Requests, Underway(r), Reaped(r)
    PROVE  Repairs(r)
  <1>1. /\ pc[r] = "reap" /\ req[r].victims = {} /\ UNCHANGED engineVars /\ TypeOK
        /\ req[r].job \in {"update", "delete", "rollback", "scale", "wake"}
    BY RequestFacts DEF Reaped, Knows, Inv
  <1>2. Identifies(r)
    BY <1>1, NobodyElse
  <1>3. CASE Scaling(r)
    <2>1. Goto(r, "create", req[r])
      BY <1>1, <1>3 DEF Reaped, Scaling
    <2>2. pc'[r] = "create" /\ req'[r] = req[r]
      BY <1>1, <2>1 DEF Goto, TypeOK
    <2>3. Spared(r) = ContainersOf(Service(r))
      BY <1>1 DEF Spared, SparedBy
    <2>4. Covers(r, ContainersOf(Service(r)))
      BY <1>1, <1>3, <2>3 DEF Underway
    <2>5. Covers(r, ContainersOf(Service(r)))'
      BY <1>1, <2>2, <2>4 DEF Covers, Covering, Target, ContainersOf, Existing, Service, engineVars
    <2> QED
      BY <1>2, <1>3, <2>2, <2>5 DEF Repairs, Underway, Scaling, Preparing
  <1>4. CASE ~Scaling(r)
    <2>1. Goto(r, "pull", req[r]) \/ Goto(r, "deleterow", req[r]) \/ Answer(r, 500)
      BY <1>1, <1>4 DEF Reaped, Scaling
    <2> QED
      BY <1>1, <1>2, <1>4, <2>1, AnswerRepairs, GoesOnRepairs
      DEF Repairs, Scaling, Remembering, CreatingLabels
  <1> QED
    BY <1>3, <1>4

--------------------------------------------------------------------------------
(* Creating *)

LEMMA PullImageRepairs ==
    ASSUME Inv, NEW r \in Requests, Underway(r), PullImage(r)
    PROVE  Repairs(r)
  <1>1. pc[r] = "pull" /\ UNCHANGED engineVars /\ TypeOK /\ req[r] \in Request
    BY RequestFacts DEF PullImage, Inv
  <1>2. ~Scaling(r) /\ Identifies(r)
    BY <1>1, NobodyElse DEF Underway
  <1>3. CASE Goto(r, "create", [req[r] EXCEPT !.missing = 0 .. DeployReplicas(r) - 1])
    <2>1. /\ pc'[r] = "create" /\ req'[r].job = req[r].job /\ req'[r].row = req[r].row
          /\ req'[r].missing = 0 .. DeployReplicas(r) - 1
      BY <1>1, <1>3 DEF Goto, TypeOK, Request
    <2>2. req[r].job = "update" => DeployReplicas(r) = req[r].row.replicas
      BY DEF DeployReplicas
    <2> QED
      BY <1>2, <2>1, <2>2 DEF Repairs, Underway, Scaling
  <1>4. CASE Answer(r, 500)
    BY <1>1, <1>2, <1>4, AnswerRepairs DEF Repairs
  <1> QED
    BY <1>3, <1>4 DEF PullImage

\* It goes on to another call of createContainer, and no container changes.
LEMMA PreparingGoesOn ==
    ASSUME Inv, NEW r \in Requests, Underway(r), pc[r] \in Preparing,
           NEW label \in Preparing, Goto(r, label, req[r]) \/ Answer(r, 500),
           UNCHANGED containers
    PROVE  Repairs(r)
  <1>1. TypeOK
    BY DEF Inv
  <1>2. Identifies(r)
    BY DEF Identifies, Existing
  <1>3. CASE Answer(r, 500)
    BY <1>1, <1>2, <1>3, AnswerRepairs DEF Repairs
  <1>4. CASE Goto(r, label, req[r])
    <2>1. pc'[r] = label /\ req'[r] = req[r]
      BY <1>1, <1>4 DEF Goto, TypeOK
    <2>2. PICK s : s = Service(r)
      OBVIOUS
    <2>3. ContainersOf(s)' = ContainersOf(s)
      BY DEF ContainersOf, Existing
    <2>4. Underway(r)'
      BY <2>1, <2>2, <2>3, UnderwayStands
    <2> QED
      BY <1>2, <2>4 DEF Repairs
  <1> QED
    BY <1>3, <1>4

LEMMA PreparingRepairs ==
    ASSUME Inv, NEW r \in Requests, Underway(r),
           ListNetworks(r) \/ CreateNetwork(r) \/ ConnectGateway(r)
    PROVE  Repairs(r)
  <1>1. CASE ListNetworks(r)
    BY <1>1, PreparingGoesOn DEF ListNetworks, Preparing, engineVars
  <1>2. CASE CreateNetwork(r)
    BY <1>2, PreparingGoesOn DEF CreateNetwork, NetworkCreate, Preparing, engineVars
  <1>3. CASE ConnectGateway(r)
    BY <1>3, PreparingGoesOn DEF ConnectGateway, NetworkConnect, Preparing, engineVars
  <1> QED
    BY <1>1, <1>2, <1>3

\* A scale finds nothing under the name of an index that is missing.
LEMMA NameIsFree ==
    ASSUME Inv, NEW r \in Requests, Covers(r, ContainersOf(Service(r))), req[r].missing # {}
    PROVE  Indexed(Service(r), NextReplica(r)) = {}
  <1>1. NextReplica(r) \in req[r].missing
    BY NextReplicaIsMissing
  <1> QED
    BY <1>1 DEF Covers, Covering, Indexed

LEMMA InspectNameRepairs ==
    ASSUME Inv, OwnLabelsOnly, Identified, NEW r \in Requests, Underway(r), InspectName(r)
    PROVE  Repairs(r)
  <1>1. /\ pc[r] = "inspect" /\ UNCHANGED engineVars /\ TypeOK /\ req[r] \in Request
        /\ req[r].missing # {}
    BY RequestFacts DEF InspectName, Inv, Knows
  <1>2. CASE Goto(r, "ccreate", req[r]) \/ Answer(r, 500)
    BY <1>1, <1>2, PreparingGoesOn DEF Preparing, engineVars
  <1>3. CASE \E c \in Indexed(Service(r), NextReplica(r)) :
                Goto(r, "rmstale", [req[r] EXCEPT !.cur = c])
    <2>1. PICK c \in Indexed(Service(r), NextReplica(r)) :
             Goto(r, "rmstale", [req[r] EXCEPT !.cur = c])
      BY <1>3
    <2>2. /\ pc'[r] = "rmstale" /\ req'[r].cur = c /\ req'[r].job = req[r].job
          /\ req'[r].row = req[r].row /\ req'[r].missing = req[r].missing
          /\ req'[r].call = req[r].call
      BY <1>1, <2>1 DEF Goto, TypeOK, Request
    <2>3. ~Scaling(r)
      BY <1>1, <2>1, NameIsFree DEF Underway, Preparing
    <2>4. c[2] = NextReplica(r)
      BY <2>1 DEF Identified, Indexed, ContainersOf
    <2>5. NextReplica(r)' = NextReplica(r)
      BY <2>2 DEF NextReplica
    <2>6. \A i : Remade(r, i)' <=> Remade(r, i)
      BY <1>1, <2>2 DEF Remade, Indexed, ContainersOf, Existing, Service, engineVars
    <2>7. Underway(r)'
      BY <1>1, <2>2, <2>3, <2>4, <2>5, <2>6 DEF Underway, Scaling, CreatingLabels
    <2> QED
      BY <1>1, <2>7, NobodyElse DEF Repairs
  <1>4. Named(Service(r), NextReplica(r)) = Indexed(Service(r), NextReplica(r))
    BY OwnersByLabel DEF Indexed
  <1> QED
    BY <1>2, <1>3, <1>4 DEF InspectName

LEMMA RemoveStaleRepairs ==
    ASSUME Inv, Identified, NEW r \in Requests, Underway(r), RemoveStale(r)
    PROVE  Repairs(r)
  <1>1. /\ pc[r] = "rmstale" /\ TypeOK /\ req[r] \in Request /\ ~Scaling(r)
        /\ req[r].missing # {}
    BY RequestFacts DEF RemoveStale, Inv, Underway, Knows
  <1>2. CASE Answer(r, 500) /\ UNCHANGED engineVars
    BY <1>1, <1>2, AnswerRepairs, NobodyElse DEF Repairs
  <1>3. CASE /\ ContainerRemove(req[r].cur)
             /\ Goto(r, "ccreate", [req[r] EXCEPT !.cur = NoContainer])
    <2>1. /\ pc'[r] = "ccreate" /\ req'[r].job = req[r].job /\ req'[r].row = req[r].row
          /\ req'[r].missing = req[r].missing /\ req'[r].call = req[r].call
      BY <1>1, <1>3 DEF Goto, TypeOK, Request
    <2>2. /\ Existing' = Existing \ {req[r].cur}
          /\ \A c \in Existing' : containers'[c] = containers[c]
      BY <1>3 DEF ContainerRemove, Existing
    <2>3. NextReplica(r) \in req[r].missing
      BY <1>1, NextReplicaIsMissing
    <2>4. ASSUME req[r].job = "update", NEW i \in 0 .. req[r].row.replicas - 1,
                 i \notin req[r].missing
          PROVE  Remade(r, i)'
      <3>1. PICK c \in Indexed(Service(r), i) : c[1] = r
        BY <1>1, <2>4 DEF Underway, CreatingLabels, Remade
      <3>2. c \in Existing /\ containers[c].replica = i /\ containers[c].service = Service(r)
        BY DEF Indexed, ContainersOf
      <3>3. c[2] = i
        BY <3>2 DEF Identified
      <3>4. req[r].cur[2] = NextReplica(r)
        BY <1>1, <2>4 DEF Underway
      <3>5. c # req[r].cur
        BY <2>3, <2>4, <3>3, <3>4
      <3>6. c \in Existing' /\ containers'[c] = containers[c]
        BY <2>2, <3>2, <3>5
      <3>7. Service(r)' = Service(r)
        BY <2>1 DEF Service
      <3>8. c \in Indexed(Service(r), i)'
        BY <3>2, <3>6, <3>7 DEF Indexed, ContainersOf
      <3> QED
        BY <3>1, <3>8 DEF Remade
    <2>5. Underway(r)'
      BY <1>1, <2>1, <2>4 DEF Underway, Scaling
    <2> QED
      BY <2>2, <2>5 DEF Repairs, Identifies
  <1> QED
    BY <1>2, <1>3 DEF RemoveStale

\* The id of the container to be created next names no container of another service,
\* and none with another index.
LEMMA NewContainerIs ==
    ASSUME Inv, OwnLabelsOnly, Identified, NEW r \in Requests, pc[r] \in {"ccreate", "cstart"},
           NewContainer(r) \in Existing
    PROVE  NewContainer(r) \in Indexed(Service(r), NextReplica(r))
  <1>1. CreatedFor(NewContainer(r), Service(r))
    BY NewContainerIsOwn
  <1>2. CreatedFor(NewContainer(r), containers[NewContainer(r)].service)
    BY OwnersByLabel
  <1>3. containers[NewContainer(r)].service = Service(r)
    BY <1>1, <1>2, OneOwner
  <1>4. containers[NewContainer(r)].replica = NextReplica(r)
    BY NewContainerIsOwn DEF Identified
  <1> QED
    BY <1>3, <1>4 DEF Indexed, ContainersOf

LEMMA CreateContainerRepairs ==
    ASSUME Inv, OwnLabelsOnly, Serving, Identified, NEW r \in Requests, Underway(r), CreateContainer(r)
    PROVE  Repairs(r)
  <1>1. pc[r] = "ccreate" /\ TypeOK /\ req[r] \in Request /\ Serves(pc[r], req[r])
    BY RequestFacts DEF CreateContainer, Inv, Serving
  <1>2. CASE Answer(r, 500) /\ UNCHANGED engineVars
    BY <1>1, <1>2, AnswerRepairs, NobodyElse DEF Repairs
  <1>3. CASE /\ ContainerCreate(NewContainer(r), DeploymentOf(r), NextReplica(r))
             /\ Goto(r, "cstart", req[r])
    <2>1. pc'[r] = "cstart" /\ req'[r] = req[r]
      BY <1>1, <1>3 DEF Goto, TypeOK
    <2> DEFINE new == NewContainer(r)
               dep == DeploymentOf(r)
    <2>2. dep.service = Service(r)
      BY DEF DeploymentOf
    <2>3. new \notin Existing
      <3>1. Indexed(Service(r), NextReplica(r)) = {}
        BY <1>3, <2>2, OwnersByLabel DEF ContainerCreate, Indexed
      <3> QED
        BY <1>1, <3>1, NewContainerIs
    <2>4. /\ Existing' = Existing \cup {new}
          /\ \A c \in Existing : containers'[c] = containers[c]
          /\ containers'[new].replica = NextReplica(r) /\ containers'[new].image = dep.image
          /\ containers'[new].service = Service(r)
      <3>1. /\ dep.labels = OwnLabels(Service(r))
            /\ new[2] \in Replicas /\ new[2] = NextReplica(r)
        BY <1>1, NewContainerIsOwn, DeploymentIsOwn DEF CreatingLabels
      <3>2. dep.labels[NextReplica(r)] = <<Service(r), NextReplica(r)>>
        BY <3>1 DEF OwnLabels
      <3> DEFINE box == Made(dep, NextReplica(r))
      <3>3. box.service = Service(r) /\ box.replica = NextReplica(r) /\ box.image = dep.image
        BY <3>2 DEF Made
      <3>4. containers' = [c \in Existing \cup {new} |-> IF c = new THEN box ELSE containers[c]]
        BY <1>3 DEF ContainerCreate
      <3> HIDE DEF box, new, dep
      <3> QED
        BY <2>3, <3>3, <3>4 DEF Existing
    <2>5. new[1] = r /\ new[2] = NextReplica(r)
      BY DEF NewContainer
    <2>6. Op(r) \in {"update", "build"} => dep.image = req[r].call.image
      BY <1>1 DEF DeploymentOf, Serves, Op
    <2> HIDE DEF new, dep
    <2>7. Identifies(r)
      BY <2>4, <2>5, <2>6 DEF Identifies
    <2>8. Service(r)' = Service(r) /\ Target(r)' = Target(r) /\ Scaling(r)' = Scaling(r)
      BY <2>1 DEF Service, Target, Scaling
    <2>9. \A i : Remade(r, i) => Remade(r, i)'
      BY <2>4, <2>8 DEF Remade, Indexed, ContainersOf
    <2>10. NewContainer(r)' = new
      BY <2>1 DEF new, NewContainer, NextReplica
    <2>11. (ContainersOf(Service(r)) \ {NewContainer(r)})' = ContainersOf(Service(r))
      BY <2>3, <2>4, <2>8, <2>10 DEF ContainersOf
    <2>12. Scaling(r) => Covers(r, ContainersOf(Service(r)) \ {NewContainer(r)})'
      <3> HAVE Scaling(r)
      <3>1. Covers(r, ContainersOf(Service(r)))
        BY <1>1 DEF Underway, Preparing
      <3>2. \A c \in ContainersOf(Service(r)) : containers'[c] = containers[c]
        BY <2>4 DEF ContainersOf
      <3> QED
        BY <2>1, <2>8, <2>11, <3>1, <3>2 DEF Covers, Covering
    <2>13. Underway(r)'
      BY <1>1, <2>1, <2>8, <2>9, <2>12 DEF Underway, CreatingLabels, Preparing
    <2> QED
      BY <2>7, <2>13 DEF Repairs
  <1> QED
    BY <1>2, <1>3 DEF CreateContainer

LEMMA StartContainerRepairs ==
    ASSUME Inv, OwnLabelsOnly, Identified, NEW r \in Requests, Underway(r), StartContainer(r)
    PROVE  Repairs(r)
  <1>1. /\ pc[r] = "cstart" /\ TypeOK /\ req[r] \in Request /\ req[r].missing # {}
    BY RequestFacts DEF StartContainer, Inv, Knows
  <1>2. CASE Answer(r, 500) /\ UNCHANGED engineVars
    BY <1>1, <1>2, AnswerRepairs, NobodyElse DEF Repairs
  <1>3. CASE /\ ContainerStart(NewContainer(r))
             /\ Goto(r, "create", [req[r] EXCEPT !.missing = @ \ {NextReplica(r)}])
    <2> DEFINE new == NewContainer(r)
    <2>1. /\ pc'[r] = "create" /\ req'[r].job = req[r].job /\ req'[r].row = req[r].row
          /\ req'[r].missing = req[r].missing \ {NextReplica(r)} /\ req'[r].call = req[r].call
      BY <1>1, <1>3 DEF Goto, TypeOK, Request
    <2>2. new \in Indexed(Service(r), NextReplica(r))
      BY <1>1, <1>3, NewContainerIs DEF ContainerStart, Startable
    <2>3. /\ Existing' = Existing /\ new \in Existing
          /\ \A c \in Existing : /\ containers'[c].service = containers[c].service
                                 /\ containers'[c].replica = containers[c].replica
                                 /\ containers'[c].image = containers[c].image
                                 /\ c # new => containers'[c] = containers[c]
          /\ containers'[new].state = "running"
      BY <1>1, <1>3
      DEF ContainerStart, Startable, SetState, Existing, TypeOK, EngineTypeOK, Container
    <2>4. NextReplica(r) \in req[r].missing /\ new[1] = r
      BY <1>1, NextReplicaIsMissing DEF NewContainer
    <2> HIDE DEF new
    <2>5. Identifies(r)
      BY <2>3 DEF Identifies
    <2>6. Service(r)' = Service(r) /\ Target(r)' = Target(r) /\ Scaling(r)' = Scaling(r)
      BY <2>1 DEF Service, Target, Scaling
    <2>7. \A i : Remade(r, i) => Remade(r, i)'
      BY <2>3, <2>6 DEF Remade, Indexed, ContainersOf
    <2>8. \A i : i = NextReplica(r) => Remade(r, i)'
      BY <2>2, <2>3, <2>4, <2>6 DEF Remade, Indexed, ContainersOf
    <2>9. ContainersOf(Service(r))' = ContainersOf(Service(r))
      BY <2>3, <2>6 DEF ContainersOf
    <2>10. Scaling(r) => Covers(r, ContainersOf(Service(r)))'
      <3> DEFINE C == ContainersOf(Service(r))
      <3> HAVE Scaling(r)
      <3>1. Covers(r, C \ {new})
        BY <1>1 DEF Underway, new
      <3>2. new \in C /\ containers[new].replica = NextReplica(r)
        BY <2>2 DEF Indexed
      <3>3. \A c \in C : /\ containers'[c].replica = containers[c].replica
                         /\ c # new => containers'[c].state = containers[c].state
        BY <2>3 DEF ContainersOf
      <3> HIDE DEF C
      <3>4. {containers'[c].replica : c \in C} =
               {containers[c].replica : c \in C \ {new}} \cup {NextReplica(r)}
        BY <3>2, <3>3
      <3>5. {containers'[c].replica : c \in C} =
               (0 .. Target(r) - 1) \ (req[r].missing \ {NextReplica(r)})
        BY <2>4, <3>1, <3>4 DEF Covers, Covering
      <3>6. \A c \in C : ~IsStale(containers'[c].state)
        BY <2>3, <3>1, <3>3 DEF Covers, Covering, IsStale
      <3> QED
        BY <2>1, <2>6, <2>9, <3>1, <3>5, <3>6 DEF Covers, Covering, C
    <2>11. Underway(r)'
      BY <1>1, <2>1, <2>6, <2>7, <2>8, <2>10 DEF Underway, CreatingLabels, Preparing
    <2> QED
      BY <2>5, <2>11 DEF Repairs
  <1> QED
    BY <1>2, <1>3 DEF StartContainer

LEMMA CreatedRepairs ==
    ASSUME Inv, NEW r \in Requests, Underway(r), Created(r)
    PROVE  Repairs(r)
  <1>1. /\ pc[r] = "create" /\ TypeOK /\ req[r].missing = {} /\ UNCHANGED engineVars
        /\ req[r].job \in {"deploy", "update", "scale", "wake"}
    BY RequestFacts DEF Created, Inv, Knows
  <1>2. PICK label \in {"insert", "save", "setreplicas"} :
          /\ Goto(r, label, req[r])
          /\ req[r].job = "update" <=> label = "save"
          /\ Scaling(r) <=> label = "setreplicas"
    BY <1>1 DEF Created, Scaling
  <1>3. pc'[r] = label /\ req'[r] = req[r]
    BY <1>1, <1>2 DEF Goto, TypeOK
  <1>4. containers' = containers
    BY <1>1 DEF engineVars
  <1>5. \A i : Remade(r, i) => Remade(r, i)'
    BY <1>3, <1>4 DEF Remade, Indexed, ContainersOf, Existing, Service
  <1>6. Covers(r, ContainersOf(Service(r))) => Covers(r, ContainersOf(Service(r)))'
    BY <1>3, <1>4 DEF Covers, Covering, ContainersOf, Existing, Service, Target
  <1>7. Underway(r)'
    BY <1>1, <1>2, <1>3, <1>5, <1>6 DEF Underway, Scaling, CreatingLabels, Preparing
  <1> QED
    BY <1>1, <1>7, NobodyElse DEF Repairs


\* Elsewhere a handler changes no container, and there is nothing to remember.
LEMMA MovesOn ==
    ASSUME TypeOK, NEW r \in Requests, UNCHANGED containers,
           \/ \E code : Answer(r, code) \/ \E arrived : Finish(r, code, arrived)
           \/ \E label, q : /\ Goto(r, label, q)
                            /\ \/ label \notin Remembering
                               \/ label = "pull" /\ q.job \notin {"scale", "wake"}
    PROVE  Repairs(r)
  <1>1. Identifies(r)
    BY DEF Identifies, Existing
  <1>2. CASE \E code : Answer(r, code) \/ \E arrived : Finish(r, code, arrived)
    BY <1>1, <1>2, AnswerRepairs DEF Repairs
  <1>3. CASE \E label, q : /\ Goto(r, label, q)
                           /\ \/ label \notin Remembering
                              \/ label = "pull" /\ q.job \notin {"scale", "wake"}
    BY <1>1, <1>3, GoesOnRepairs DEF Repairs
  <1> QED
    BY <1>2, <1>3

LEMMA Forgets ==
    /\ \A label \in {"list", "probe", "wait", "accept", "route", "forward", "netinspect",
                     "disconnect", "netreinspect", "netremove"} : label \notin Remembering
    /\ \A label \in {"idle", "lookup", "done"} : label \notin Remembering
  BY DEF Remembering, CreatingLabels

LEMMA LookupRepairs ==
    ASSUME Inv, NEW r \in Requests, Lookup(r)
    PROVE  Repairs(r)
  <1>1. TypeOK /\ UNCHANGED containers /\ req[r] \in Request
    BY RequestFacts DEF Lookup, engineVars, Inv
  <1>2. \E row : \/ HandleDeployFunction(r, row) \/ HandleUpdateFunction(r, row)
                 \/ DeployBuiltImage(r, row) \/ HandleDeleteFunction(r, row)
                 \/ HandleScaleFunction(r, row) \/ HandleInvokeFunction(r, row)
    BY DEF Lookup
  <1>3. \/ \E code : Answer(r, code)
        \/ \E row : \/ Begin(r, "pull", "deploy", row)
                    \/ \E label \in {"list", "probe"} : \E job : Begin(r, label, job, row)
    BY <1>2 DEF HandleDeployFunction, HandleUpdateFunction, DeployBuiltImage,
                HandleDeleteFunction, HandleScaleFunction, HandleInvokeFunction
  <1>4. CASE \E code : Answer(r, code)
    BY <1>1, <1>4, MovesOn
  <1>5. ASSUME NEW row, Begin(r, "pull", "deploy", row)
        PROVE  Repairs(r)
    <2> DEFINE q == [req[r] EXCEPT !.job = "deploy", !.row = row]
    <2>1. q.job = "deploy"
      BY <1>1 DEF Request
    <2>2. Goto(r, "pull", q)
      BY <1>5 DEF Begin
    <2> HIDE DEF q
    <2> QED
      BY <1>1, <2>1, <2>2, MovesOn
  <1>6. ASSUME NEW row, NEW label \in {"list", "probe"}, NEW job, Begin(r, label, job, row)
        PROVE  Repairs(r)
    BY <1>1, <1>6, Forgets, MovesOn DEF Begin
  <1> QED
    BY <1>3, <1>4, <1>5, <1>6

LEMMA StoreRepairs ==
    ASSUME Inv, NEW r \in Requests, Store(r)
    PROVE  Repairs(r)
  <1>1. TypeOK /\ UNCHANGED containers
    BY DEF Store, InsertRow, SaveRow, SetReplicas, DeleteRow, engineVars, Inv
  <1>2. \/ \E code : Answer(r, code)
        \/ \E label \in {"list", "wait", "netinspect"} : \E q : Goto(r, label, q)
    BY DEF Store, InsertRow, SaveRow, SetReplicas, DeleteRow, Begin
  <1> QED
    BY <1>1, <1>2, Forgets, MovesOn

LEMMA CleanupRepairs ==
    ASSUME Inv, NEW r \in Requests, Cleanup(r)
    PROVE  Repairs(r)
  <1>1. TypeOK /\ UNCHANGED containers
    BY DEF Cleanup, InspectNetwork, DisconnectGateway, ReinspectNetwork, RemoveNetwork,
           NetworkDisconnect, NetworkRemove, engineVars, Inv
  <1>2. \/ \E code : Answer(r, code)
        \/ \E label \in {"disconnect", "netreinspect", "netremove"} : \E q : Goto(r, label, q)
    BY DEF Cleanup, InspectNetwork, DisconnectGateway, ReinspectNetwork, RemoveNetwork
  <1> QED
    BY <1>1, <1>2, Forgets, MovesOn

LEMMA InvokeRepairs ==
    ASSUME Inv, NEW r \in Requests, Invoke(r)
    PROVE  Repairs(r)
  <1>1. TypeOK /\ UNCHANGED containers
    BY DEF Invoke, Probe, Poll, WaitTimeout, Accept, Route, Forward, engineVars, Inv
  <1>2. ASSUME ~Forward(r)
        PROVE  \/ \E code : Answer(r, code)
               \/ \E label \in {"list", "accept", "route", "forward"} : \E q : Goto(r, label, q)
    <2>1. CASE Route(r)
      BY <2>1 DEF Route
    <2>2. CASE Probe(r) \/ Poll(r) \/ WaitTimeout(r) \/ Accept(r)
      BY <2>2 DEF Probe, Poll, WaitTimeout, Accept, Begin, Ready
    <2> QED
      BY <1>2, <2>1, <2>2 DEF Invoke
  <1>3. ASSUME Forward(r)
        PROVE  \E code, arrived : Finish(r, code, arrived)
    BY <1>3 DEF Forward
  <1> QED
    BY <1>1, <1>2, <1>3, Forgets, MovesOn

LEMMA HandleRepairs ==
    ASSUME Inv, OwnLabelsOnly, Serving, Identified, NEW r \in Requests, Underway(r), Handle(r)
    PROVE  Repairs(r)
  <1>1. CASE Remove(r)
    BY <1>1, ListRepairs, StopVictimRepairs, RemoveVictimRepairs, ReapedRepairs DEF Remove
  <1>2. CASE Create(r)
    BY <1>2, PullImageRepairs, PreparingRepairs, InspectNameRepairs, RemoveStaleRepairs,
       CreateContainerRepairs, StartContainerRepairs, CreatedRepairs DEF Create
  <1> QED
    BY <1>1, <1>2, LookupRepairs, StoreRepairs, CleanupRepairs, InvokeRepairs DEF Handle

--------------------------------------------------------------------------------
(* The invariant *)

LEMMA HandlePreservesRepair ==
    ASSUME Inv, OwnLabelsOnly, Serving, RepairInv, NoOverlap, NEW r \in Requests, Handle(r)
    PROVE  RepairInv'
  <1>1. Repairs(r) /\ HandlerStep(r) /\ r \in InFlight
    BY HandleRepairs, HandleSteps, HandlesInFlight DEF RepairInv
  <1>2. PICK label, q : Goto(r, label, q) /\ q.call = req[r].call
    BY <1>1 DEF HandlerStep, Advances
  <1>3. /\ \A t \in Requests : req'[t].call = req[t].call
        /\ \A t \in Requests : t # r => pc'[t] = pc[t] /\ req'[t] = req[t]
    BY <1>2 DEF Goto, Inv, TypeOK
  <1>4. Identified'
    BY <1>1, <1>3 DEF Repairs, Identifies, RepairInv, Identified, Op
  <1>5. ASSUME NEW t \in Requests, t # r
        PROVE  Underway(t)'
    <2>1. CASE t \notin InFlight
      <3>1. pc'[t] \in {"idle", "done"}
        BY <1>3, <1>5, <2>1 DEF InFlight
      <3> QED
        BY <3>1 DEF Underway, CreatingLabels, Preparing
    <2>2. CASE t \in InFlight
      <3>1. PICK s : s = Service(t)
        OBVIOUS
      <3>2. PICK o : o = Service(r)
        OBVIOUS
      <3>3. s # o /\ s \in Services /\ o \in Services
        BY <1>1, <1>5, <2>2, <3>1, <3>2, RequestFacts DEF NoOverlap, InFlight
      <3>4. EngineStep(o) /\ StoreStep(o)
        BY <1>1, <3>2 DEF HandlerStep
      <3>5. /\ ContainersOf(s)' = ContainersOf(s)
            /\ \A c \in ContainersOf(s) : containers'[c] = containers[c]
        BY <3>3, <3>4, OthersUntouched
      <3> QED
        BY <1>3, <1>5, <3>1, <3>5, UnderwayStands DEF RepairInv
    <2> QED
      BY <2>1, <2>2
  <1> QED
    BY <1>1, <1>4, <1>5 DEF RepairInv, Repairs

\* Nothing the environment does takes a container away, makes one stale or moves a handler
\* on; at most it lets requests arrive or go away.
LEMMA WorldPreservesRepair ==
    ASSUME Inv, OwnLabelsOnly, RepairInv, Existing' = Existing,
           \A c \in Existing : /\ containers'[c].service = containers[c].service
                               /\ containers'[c].replica = containers[c].replica
                               /\ containers'[c].image = containers[c].image
                               /\ IsStale(containers'[c].state) => IsStale(containers[c].state),
           \A t \in Requests :
              \/ pc'[t] \in {"idle", "lookup", "done"} /\ (pc[t] = "idle" \/ req'[t].call = req[t].call)
              \/ /\ pc'[t] = pc[t]
                 /\ req'[t].call = req[t].call /\ req'[t].job = req[t].job
                 /\ req'[t].row = req[t].row /\ req'[t].victims = req[t].victims
                 /\ req'[t].missing = req[t].missing /\ req'[t].cur = req[t].cur
    PROVE  RepairInv'
  <1>1. \A s : ContainersOf(s)' = ContainersOf(s)
    BY DEF ContainersOf
  <1>2. Identified'
    <2> SUFFICES ASSUME NEW c \in Existing
                 PROVE  /\ containers'[c].replica = c[2]
                        /\ c[1] \in Requests /\ Op(c[1])' \in {"update", "build"} =>
                              containers'[c].image = req'[c[1]].call.image
      BY DEF Identified
    <2>1. c[1] \in Requests => pc[c[1]] # "idle"
      BY OwnersByLabel, LifecycleAssumption DEF Inv, CreatedFor, Knows
    <2>2. c[1] \in Requests => req'[c[1]].call = req[c[1]].call
      BY <2>1
    <2> QED
      BY <2>2 DEF RepairInv, Identified, Op
  <1>3. ASSUME NEW t \in Requests
        PROVE  Underway(t)'
    <2>1. CASE pc'[t] \in {"idle", "lookup", "done"}
      BY <2>1 DEF Underway, CreatingLabels, Preparing
    <2>2. CASE /\ pc'[t] = pc[t]
               /\ req'[t].call = req[t].call /\ req'[t].job = req[t].job
               /\ req'[t].row = req[t].row /\ req'[t].victims = req[t].victims
               /\ req'[t].missing = req[t].missing /\ req'[t].cur = req[t].cur
      <3>1. PICK s : s = Service(t)
        OBVIOUS
      <3>2. \A c \in ContainersOf(s) : c \in Existing
        BY DEF ContainersOf
      <3> QED
        BY <1>1, <2>2, <3>1, <3>2, UnderwayStands DEF RepairInv
    <2> QED
      BY <2>1, <2>2
  <1> QED
    BY <1>2, <1>3 DEF RepairInv

LEMMA ArrivePreservesRepair ==
    ASSUME Inv, OwnLabelsOnly, RepairInv, NEW r \in Requests, Arrive(r)
    PROVE  RepairInv'
  <1>1. pc[r] = "idle" /\ containers' = containers
    BY DEF Arrive, engineVars
  <1>2. PICK q : Goto(r, "lookup", q)
    BY DEF Arrive
  <1>3. pc'[r] = "lookup" /\ \A t \in Requests : t # r => pc'[t] = pc[t] /\ req'[t] = req[t]
    BY <1>2 DEF Goto, Inv, TypeOK
  <1>4. Existing' = Existing
    BY <1>1 DEF Existing
  <1> QED
    BY <1>1, <1>3, <1>4, WorldPreservesRepair

LEMMA HangUpPreservesRepair ==
    ASSUME Inv, OwnLabelsOnly, RepairInv, NEW r \in Requests, HangUp(r)
    PROVE  RepairInv'
  <1> DEFINE q == [req[r] EXCEPT !.cancelled = TRUE]
  <1>1. Goto(r, pc[r], q) /\ containers' = containers /\ req[r] \in Request
    BY RequestFacts DEF HangUp, engineVars
  <1>2. /\ q.call = req[r].call /\ q.job = req[r].job /\ q.row = req[r].row
        /\ q.victims = req[r].victims /\ q.missing = req[r].missing /\ q.cur = req[r].cur
    BY <1>1 DEF Request
  <1> HIDE DEF q
  <1>3. /\ pc'[r] = pc[r] /\ req'[r] = q
        /\ \A t \in Requests : t # r => pc'[t] = pc[t] /\ req'[t] = req[t]
    BY <1>1 DEF Goto, Inv, TypeOK
  <1>4. Existing' = Existing
    BY <1>1 DEF Existing
  <1> QED
    BY <1>1, <1>2, <1>3, <1>4, WorldPreservesRepair

LEMMA ExitRestartPreservesRepair ==
    ASSUME Inv, OwnLabelsOnly, RepairInv, NEW c \in ContainerIds, Exit(c) \/ Restart(c)
    PROVE  RepairInv'
  <1>1. UNCHANGED <<pc, req>> /\ c \in Existing
    BY DEF Exit, Restart, ContainerExits, ContainerRestarts, Startable
  <1>2. SetState(c, "restarting") \/ SetState(c, "running")
    BY DEF Exit, Restart, ContainerExits, ContainerRestarts
  <1>3. /\ Existing' = Existing
        /\ \A d \in Existing : /\ containers'[d].service = containers[d].service
                               /\ containers'[d].replica = containers[d].replica
                               /\ containers'[d].image = containers[d].image
                               /\ \/ containers'[d].state = containers[d].state
                                  \/ containers'[d].state \in {"restarting", "running"}
    BY <1>1, <1>2 DEF SetState, Existing, Inv, TypeOK, EngineTypeOK, Container
  <1> QED
    BY <1>1, <1>3, WorldPreservesRepair DEF IsStale

LEMMA CrashPreservesRepair ==
    ASSUME Inv, OwnLabelsOnly, RepairInv, CrashAndRestart
    PROVE  RepairInv'
  <1>1. containers' = containers
    BY DEF CrashAndRestart
  <1>2. ASSUME NEW t \in Requests
        PROVE  pc'[t] \in {"idle", "done"} /\ req'[t].call = req[t].call
    BY DEF CrashAndRestart, InFlight, Inv, TypeOK, Blank
  <1>3. Existing' = Existing
    BY <1>1 DEF Existing
  <1> QED
    BY <1>1, <1>2, <1>3, WorldPreservesRepair

LEMMA StutterPreservesRepair ==
    ASSUME Inv, OwnLabelsOnly, RepairInv, UNCHANGED vars
    PROVE  RepairInv'
  <1>1. UNCHANGED <<containers, pc, req>> /\ Existing' = Existing
    BY DEF vars, Existing
  <1> QED
    BY <1>1, WorldPreservesRepair

LEMMA NextRepairInv ==
    ASSUME Inv, OwnLabelsOnly, Serving, RepairInv, NoOverlap, [Next]_vars
    PROVE  RepairInv'
  BY HandlePreservesRepair, ArrivePreservesRepair, HangUpPreservesRepair,
     ExitRestartPreservesRepair, CrashPreservesRepair, StutterPreservesRepair
  DEF Next, Disturb, Quiesced

LEMMA InitRepairInv ==
    ASSUME OwnLabelsOnly, Init
    PROVE  RepairInv
  <1>1. \A t \in Requests : pc[t] = "idle"
    BY DEF Init
  <1>2. \A t \in Requests : Underway(t)
    BY <1>1, Forgets, NothingUnderway
  <1>3. Identified
    <2>1. PICK R \in InitialRows : Deployed(R)
      BY DEF Init
    <2>2. \A c \in Existing : c[1] \in Services /\ containers[c].replica = c[2]
      BY <2>1, DeployedContainers
    <2> QED
      BY <2>2, LifecycleAssumption DEF Identified
  <1> QED
    BY <1>2, <1>3 DEF RepairInv

LEMMA RepairInvariance ==
    ASSUME OwnLabelsOnly
    PROVE  Spec /\ []NoOverlap => [](Inv /\ Serving /\ RepairInv)
  <1>1. Init => Inv /\ Serving /\ RepairInv
    BY InitInv, InitSimulates, InitRepairInv
  <1>2. Inv /\ Serving /\ RepairInv /\ NoOverlap /\ [Next]_vars => (Inv /\ Serving /\ RepairInv)'
    BY NextInv, NextSimulates, NextRepairInv
  <1> QED
    BY <1>1, <1>2, PTL DEF Spec

--------------------------------------------------------------------------------
(* What an accepted scale or update leaves *)

\* The step that answers a scale, update or build with 202 is a statement of the store.
LEMMA AcceptedByTheStore ==
    ASSUME Inv, Serving, [Next]_vars, NEW r \in Requests,
           NEW op \in {"scale", "update", "build"}, Completes(r, op, 202)
    PROVE  \/ /\ op = "scale" /\ pc[r] = "setreplicas" /\ req[r].job = "scale"
              /\ UpdateReplicas(Service(r), Target(r))
           \/ /\ op # "scale" /\ pc[r] = "save" /\ req[r].job = "update"
              /\ \E limited :
                    UpdateFunction(Service(r), [image |-> req[r].call.image, limited |-> limited,
                                                network |-> NetworkFor(r),
                                                labels |-> req[r].call.labels,
                                                replicas |-> req[r].row.replicas])
           \/ op = "build" /\ ~Stored(Service(r))
  <1>1. /\ TypeOK /\ Knows(pc[r], req[r]) /\ Serves(pc[r], req[r])
        /\ pc[r] # "done" /\ pc'[r] = "done" /\ Op(r) = op /\ req'[r].answer = 202
    BY RequestFacts DEF Inv, Serving, Completes, Op
  <1>2. req[r].job \notin {"delete", "invoke", "wake"}
    BY <1>1 DEF Serves, Op
  <1>3. req[r].answer = NoAnswer
    BY <1>1, <1>2 DEF Serves, Knows
  <1>4. ASSUME NEW code, Answer(r, code)
        PROVE  code = 202
    BY <1>1, <1>3, <1>4 DEF Answer, Finish, Goto, Blank, TypeOK
  <1>5. ASSUME NEW label, NEW q, Goto(r, label, q)
        PROVE  label = "done"
    BY <1>1, <1>5 DEF Goto, TypeOK
  <1>6. ~\E t \in Requests : Arrive(t) \/ HangUp(t)
    <2>1. ASSUME NEW t \in Requests, NEW label, NEW q, Goto(t, label, q),
                 label = "lookup" \/ label = pc[t]
          PROVE  FALSE
      BY <1>1, <2>1 DEF Goto, TypeOK
    <2> QED
      BY <2>1 DEF Arrive, HangUp
  <1>7. ~CrashAndRestart
    BY <1>1, <1>3 DEF CrashAndRestart, Blank, TypeOK, NoAnswer, InFlight
  <1>8. ~UNCHANGED vars /\ ~\E c : Exit(c) \/ Restart(c)
    BY <1>1 DEF vars, Exit, Restart
  <1>9. PICK t \in Requests : Handle(t)
    BY <1>6, <1>7, <1>8 DEF Next, Disturb, Quiesced
  <1>10. Handle(r)
    <2>1. HandlerStep(t)
      BY <1>9, HandleSteps
    <2> QED
      BY <1>1, <1>9, <2>1 DEF HandlerStep, Advances, Goto, TypeOK
  <1>11. ~Remove(r) /\ ~Create(r)
    <2> SUFFICES ASSUME Remove(r) \/ Create(r)
                 PROVE  FALSE
      OBVIOUS
    <2>1. Works(r) \/ Answer(r, 500)
      BY RemoveWorks, CreateWorks
    <2> QED
      BY <1>4, <1>5, <2>1 DEF Works, Working
  <1>12. ~Lookup(r)
    BY <1>4, <1>5 DEF Lookup, HandleDeployFunction, HandleUpdateFunction, DeployBuiltImage,
                      HandleDeleteFunction, HandleScaleFunction, HandleInvokeFunction, Begin
  <1>13. ~Cleanup(r) /\ ~Invoke(r)
    BY <1>1, <1>2 DEF Cleanup, InspectNetwork, DisconnectGateway, ReinspectNetwork,
                      RemoveNetwork, Invoke, Probe, Poll, WaitTimeout, Accept, Route, Forward,
                      Knows
  <1>14. Store(r)
    BY <1>10, <1>11, <1>12, <1>13 DEF Handle
  <1>15. CASE InsertRow(r)
    <2>1. op = "build"
      BY <1>1, <1>15 DEF InsertRow, Knows, Serves, Op
    <2> QED
      BY <1>5, <1>15, <2>1 DEF InsertRow, Begin, CreateFunction
  <1>16. CASE SaveRow(r)
    <2>1. pc[r] = "save" /\ req[r].job = "update"
      BY <1>1, <1>16 DEF SaveRow, Knows
    <2>2. op # "scale"
      BY <1>1, <2>1 DEF Serves, Op
    <2>3. ~Answer(r, 500)
      BY <1>4
    <2>4. UpdateFunction(Service(r), [image |-> req[r].call.image,
                                      limited |-> req[r].call.limited \/ req[r].row.limited,
                                      network |-> NetworkFor(r), labels |-> req[r].call.labels,
                                      replicas |-> req[r].row.replicas])
      BY <1>16, <2>3 DEF SaveRow
    <2> QED
      BY <2>1, <2>2, <2>4
  <1>17. CASE SetReplicas(r)
    <2>1. pc[r] = "setreplicas" /\ req[r].job = "scale"
      BY <1>1, <1>2, <1>17 DEF SetReplicas, Knows
    <2>2. op = "scale"
      BY <1>1, <2>1 DEF Serves, Op
    <2> QED
      BY <1>4, <1>17, <2>1, <2>2 DEF SetReplicas
  <1>18. ~DeleteRow(r)
    BY <1>1, <1>2 DEF DeleteRow, Knows
  <1> QED
    BY <1>14, <1>15, <1>16, <1>17, <1>18 DEF Store

\* Whatever faults, crashes and earlier calls left of a function, a scale that is answered
\* 202 leaves exactly the replicas asked for, none of them stale, and the count stored: as
\* long as no two calls of one function overlap and no client's labels list a container as
\* another's (HandleScaleFunction, ScaleFunction).
THEOREM ScalesConverge ==
    ASSUME OwnLabelsOnly
    PROVE  Spec /\ []NoOverlap => ScaleConverges
  <1> DEFINE Step == \A r \in Requests : Completes(r, "scale", 202) =>
                LET s == Service(r) n == req[r].call.target
                IN  /\ ReplicasOf(s) = 0 .. n - 1
                    /\ \A c \in ContainersOf(s) : ~IsStale(containers[c].state)
                    /\ rows'[s].replicas = n
  <1>1. Inv /\ Serving /\ RepairInv /\ [Next]_vars => Step
    <2> SUFFICES ASSUME Inv, Serving, RepairInv, [Next]_vars, NEW r \in Requests,
                        Completes(r, "scale", 202), NEW s, s = Service(r),
                        NEW n, n = req[r].call.target
                 PROVE  /\ ReplicasOf(s) = 0 .. n - 1
                        /\ \A c \in ContainersOf(s) : ~IsStale(containers[c].state)
                        /\ rows'[s].replicas = n
      OBVIOUS
    <2>1. /\ pc[r] = "setreplicas" /\ req[r].job = "scale"
          /\ UpdateReplicas(s, Target(r))
      BY AcceptedByTheStore
    <2>2. Target(r) = n
      BY <2>1 DEF Target
    <2>3. Covers(r, ContainersOf(s)) /\ req[r].missing = {}
      BY <2>1 DEF RepairInv, Underway, Scaling
    <2>4. ReplicasOf(s) = 0 .. n - 1 /\ \A c \in ContainersOf(s) : ~IsStale(containers[c].state)
      BY <2>2, <2>3 DEF Covers, Covering, ReplicasOf
    <2>5. rows'[s].replicas = n
      BY <2>1, <2>2 DEF UpdateReplicas, Stored, Inv, TypeOK, StoreTypeOK, Row
    <2> QED
      BY <2>4, <2>5
  <1>2. Inv /\ Serving /\ RepairInv /\ [Next]_vars => [Step]_vars
    BY <1>1
  <1> QED
    BY <1>2, RepairInvariance, PTL DEF Spec, ScaleConverges

\* Whatever faults, crashes and earlier calls left of a function, an update or a build that
\* is answered 202 has recreated every replica of the row, from the new image, as long as no
\* two calls of one function overlap and no client's labels list a container as another's
\* (HandleUpdateFunction, UpdateFunction).
THEOREM UpdatesRecreate ==
    ASSUME OwnLabelsOnly
    PROVE  Spec /\ []NoOverlap => UpdateRecreates
  <1> DEFINE Step == \A r \in Requests :
                Completes(r, "update", 202) \/ (Completes(r, "build", 202) /\ Stored(Service(r))) =>
                \A i \in 0 .. rows'[Service(r)].replicas - 1 :
                   \E c \in Named(Service(r), i) :
                      c[1] = r /\ containers[c].image = rows'[Service(r)].image
  <1>1. Inv /\ Serving /\ RepairInv /\ [Next]_vars => Step
    <2> SUFFICES ASSUME Inv, Serving, RepairInv, [Next]_vars, NEW r \in Requests,
                        \/ Completes(r, "update", 202)
                        \/ Completes(r, "build", 202) /\ Stored(Service(r)),
                        NEW i \in 0 .. rows'[Service(r)].replicas - 1
                 PROVE  \E c \in Named(Service(r), i) :
                           c[1] = r /\ containers[c].image = rows'[Service(r)].image
      OBVIOUS
    <2>1. PICK limited :
             /\ pc[r] = "save" /\ req[r].job = "update"
             /\ UpdateFunction(Service(r), [image |-> req[r].call.image, limited |-> limited,
                                            network |-> NetworkFor(r),
                                            labels |-> req[r].call.labels,
                                            replicas |-> req[r].row.replicas])
      BY AcceptedByTheStore
    <2>2. /\ rows'[Service(r)].replicas = req[r].row.replicas
          /\ rows'[Service(r)].image = req[r].call.image
      BY <2>1 DEF UpdateFunction, Stored
    <2>3. Remade(r, i)
      BY <2>1, <2>2 DEF RepairInv, Underway
    <2>4. PICK c \in Indexed(Service(r), i) : c[1] = r
      BY <2>3 DEF Remade
    <2>5. Op(r) \in {"update", "build"}
      BY DEF Completes, Op
    <2>6. containers[c].image = req[r].call.image
      BY <2>4, <2>5 DEF RepairInv, Identified, Indexed, ContainersOf
    <2>7. c \in Named(Service(r), i)
      BY <2>4, OwnersByLabel DEF Indexed
    <2> QED
      BY <2>2, <2>4, <2>6, <2>7
  <1>2. Inv /\ Serving /\ RepairInv /\ [Next]_vars => [Step]_vars
    BY <1>1
  <1> QED
    BY <1>2, RepairInvariance, PTL DEF Spec, UpdateRecreates

AtMostOne == \A r, t \in InFlight : r = t

\* Calls made one at a time do not overlap.
THEOREM OneAtATime ==
    ASSUME MaxInFlight \in {0, 1}
    PROVE  Spec => []NoOverlap
  <1>1. Init => AtMostOne
    BY DEF Init, AtMostOne, InFlight
  <1>2. ASSUME Inv, AtMostOne, [Next]_vars
        PROVE  AtMostOne'
    <2>1. ASSUME NEW r \in Requests, Arrive(r)
          PROVE  AtMostOne'
      <3>1. ASSUME NEW t \in InFlight
            PROVE  FALSE
        <4>1. InFlight = {t}
          BY <1>2 DEF AtMostOne
        <4>2. Cardinality(InFlight) = 1
          BY <4>1, FS_Singleton
        <4> QED
          BY <2>1, <4>2 DEF Arrive
      <3>2. \A t \in Requests : t # r => pc'[t] = pc[t]
        BY <2>1 DEF Arrive, Goto, Inv, TypeOK
      <3> QED
        BY <3>1, <3>2 DEF AtMostOne, InFlight
    <2>2. ASSUME InFlight' \subseteq InFlight
          PROVE  AtMostOne'
      BY <1>2, <2>2 DEF AtMostOne
    <2>3. ASSUME NEW r \in Requests, Handle(r)
          PROVE  InFlight' \subseteq InFlight
      <3>1. HandlerStep(r) /\ r \in InFlight
        BY <2>3, <1>2, HandleSteps, HandlesInFlight
      <3> QED
        BY <1>2, <3>1 DEF HandlerStep, Advances, Goto, InFlight, Inv, TypeOK
    <2>4. ASSUME Disturb \/ CrashAndRestart \/ Quiesced \/ UNCHANGED vars
          PROVE  InFlight' \subseteq InFlight
      BY <1>2, <2>4 DEF Disturb, HangUp, Goto, Exit, Restart, CrashAndRestart, Quiesced, vars,
                        InFlight, Inv, TypeOK
    <2> QED
      BY <1>2, <2>1, <2>2, <2>3, <2>4 DEF Next
  <1>3. AtMostOne => NoOverlap
    BY DEF AtMostOne, NoOverlap
  <1>4. Inv /\ AtMostOne /\ [Next]_vars => AtMostOne'
    BY <1>2
  <1> QED
    BY <1>1, <1>3, <1>4, Invariance, PTL DEF Spec

=================================================================================
