---------------------------- MODULE BuildTrackerProofs ----------------------------
(***************************************************************************)
(* Theorems about BuildTracker, for any builds, clients, limit, retention  *)
(* time and buffer.                                                        *)
(*                                                                         *)
(* The invariant says how the history, a list, accounts for the builds:    *)
(* no two entries are of one build, each has its build's status and times, *)
(* no entry stands further back than the number of builds added after it,  *)
(* and a build missing from the last Limit may have expired.  Pruning is a *)
(* loop over the list; what it keeps is shown by induction over the        *)
(* elements it has passed.  The invariant of a client says of every entry  *)
(* whose latest change its channel had room for that the last message      *)
(* about it in the channel, or else what the client was told last, is the  *)
(* entry as it stands.                                                     *)
(***************************************************************************)
EXTENDS BuildTracker, SequenceTheorems, WellFoundedInduction, TLAPS

--------------------------------------------------------------------------------
(* Induction over the numbers up to n, for a set of them instead of a predicate *)

LEMMA Induction ==
    ASSUME NEW n \in Nat, NEW Set, 0 \in Set, \A k \in 0 .. n - 1 : k \in Set => k + 1 \in Set
    PROVE  \A k \in 0 .. n : k \in Set
  <1> DEFINE T == {k \in 0 .. n : k \notin Set}
  <1> SUFFICES ASSUME T # {}
               PROVE  FALSE
    OBVIOUS
  <1>1. T \subseteq Nat
    OBVIOUS
  <1> HIDE DEF T
  <1>2. PICK m \in T : \A k \in T : ~(<<k, m>> \in OpToRel(<, Nat))
    BY <1>1, WFMin, NatLessThanWellFounded, Zenon
  <1>3. m \in Nat /\ \A k \in T : k \in Nat
    BY <1>1
  <1>4. \A k \in T : ~(k < m)
    BY <1>2, <1>3, Zenon DEF OpToRel
  <1>5. m \in 0 .. n /\ m \notin Set
    BY DEF T
  <1>6. m # 0 /\ m - 1 \in 0 .. n - 1
    BY <1>5
  <1>7. m - 1 \notin Set
    BY <1>5, <1>6
  <1>8. m - 1 \in T
    BY <1>5, <1>6, <1>7 DEF T
  <1> QED
    BY <1>3, <1>4, <1>8

--------------------------------------------------------------------------------
(* Pruning *)

\* f is the loop's local list after each of its first n turns.
Steps(f, list, n) ==
    f = [k \in 0 .. n |->
           IF k = 0 THEN <<>>
           ELSE IF Fresh(list[k]) THEN Append(f[k - 1], list[k]) ELSE f[k - 1]]

LEMMA StepsExist ==
    ASSUME NEW list, NEW n \in Nat
    PROVE  \E f : Steps(f, list, n)
  <1> DEFINE S == {m \in Nat : \E f : Steps(f, list, m)}
  <1>1. 0 \in S
    <2>1. Steps([k \in 0 .. 0 |-> <<>>], list, 0)
      BY DEF Steps
    <2> QED
      BY <2>1
  <1>2. ASSUME NEW m \in 0 .. n - 1, m \in S
        PROVE  m + 1 \in S
    <2>1. PICK f : Steps(f, list, m)
      BY <1>2
    <2>2. PICK last : last = IF Fresh(list[m + 1]) THEN Append(f[m], list[m + 1]) ELSE f[m]
      OBVIOUS
    <2>3. PICK g : g = [k \in 0 .. m + 1 |-> IF k = m + 1 THEN last ELSE f[k]]
      OBVIOUS
    <2>4. \A k \in 0 .. m : g[k] = f[k]
      BY <2>3
    <2>5. \A k \in 0 .. m + 1 :
             g[k] = IF k = 0 THEN <<>>
                    ELSE IF Fresh(list[k]) THEN Append(g[k - 1], list[k]) ELSE g[k - 1]
      <3> TAKE k \in 0 .. m + 1
      <3>1. CASE k = m + 1
        BY <2>2, <2>3, <2>4, <3>1
      <3>2. CASE k \in 0 .. m
        <4>1. k - 1 \in 0 .. m \/ k = 0
          BY <3>2
        <4>2. f[k] = IF k = 0 THEN <<>>
                     ELSE IF Fresh(list[k]) THEN Append(f[k - 1], list[k]) ELSE f[k - 1]
          BY <2>1, <3>2 DEF Steps
        <4> QED
          BY <2>4, <3>2, <4>1, <4>2
      <3> QED
        BY <3>1, <3>2
    <2>6. Steps(g, list, m + 1)
      BY <2>3, <2>5 DEF Steps
    <2> QED
      BY <2>6
  <1> HIDE DEF S
  <1>3. n \in S
    BY <1>1, <1>2, Induction
  <1> QED
    BY <1>3 DEF S

LEMMA PruneSteps ==
    ASSUME NEW list, Len(list) \in Nat
    PROVE  \E f : Steps(f, list, Len(list)) /\ Prune(list) = f[Len(list)]
  <1> DEFINE F == CHOOSE f : Steps(f, list, Len(list))
  <1>1. Steps(F, list, Len(list))
    BY StepsExist
  <1>2. Prune(list) = F[Len(list)]
    BY DEF Prune, Steps
  <1> QED
    BY <1>1, <1>2

Unique(list) == \A i, j \in 1 .. Len(list) : list[i].id = list[j].id => i = j

\* What the loop has kept of the first m entries: the fresh ones, none behind where it was.
Taken(s, list, m)  == \A k \in 1 .. Len(s) :
                         \E j \in 1 .. m : k <= j /\ s[k] = list[j] /\ Fresh(list[j])
Spared(s, list, m) == \A j \in 1 .. m : Fresh(list[j]) => \E k \in 1 .. Len(s) : s[k] = list[j]
Kept(s, list, m)   == /\ Len(s) <= m /\ Taken(s, list, m) /\ Spared(s, list, m)
                      /\ Unique(list) => Unique(s)

LEMMA LoopKeeps ==
    ASSUME NEW S, NEW list \in Seq(S), NEW m \in 0 .. Len(list) - 1,
           NEW s \in Seq(S), Kept(s, list, m)
    PROVE  /\ Fresh(list[m + 1]) => /\ Append(s, list[m + 1]) \in Seq(S)
                                    /\ Kept(Append(s, list[m + 1]), list, m + 1)
           /\ ~Fresh(list[m + 1]) => Kept(s, list, m + 1)
  <1>1. /\ m \in Nat /\ m + 1 \in 1 .. Len(list) /\ list[m + 1] \in S
        /\ Len(s) \in Nat /\ Len(s) <= m
    BY DEF Kept
  <1>2. ASSUME ~Fresh(list[m + 1])
        PROVE  Kept(s, list, m + 1)
    <2>1. Taken(s, list, m + 1)
      BY <1>1 DEF Kept, Taken
    <2>2. Spared(s, list, m + 1)
      BY <1>1, <1>2 DEF Kept, Spared
    <2> QED
      BY <1>1, <2>1, <2>2 DEF Kept
  <1>3. ASSUME Fresh(list[m + 1])
        PROVE  /\ Append(s, list[m + 1]) \in Seq(S)
               /\ Kept(Append(s, list[m + 1]), list, m + 1)
    <2>1. PICK t : t = Append(s, list[m + 1])
      OBVIOUS
    <2>2. /\ t \in Seq(S) /\ Len(t) = Len(s) + 1 /\ t[Len(s) + 1] = list[m + 1]
          /\ \A k \in 1 .. Len(s) : t[k] = s[k]
      BY <1>1, <2>1
    <2>3. Taken(t, list, m + 1)
      <3> SUFFICES ASSUME NEW k \in 1 .. Len(t)
                   PROVE  \E j \in 1 .. m + 1 : k <= j /\ t[k] = list[j] /\ Fresh(list[j])
        BY DEF Taken
      <3>1. CASE k = Len(s) + 1
        BY <1>1, <1>3, <2>2, <3>1
      <3>2. CASE k \in 1 .. Len(s)
        <4>1. PICK j \in 1 .. m : k <= j /\ s[k] = list[j] /\ Fresh(list[j])
          BY <3>2 DEF Kept, Taken
        <4> QED
          BY <1>1, <2>2, <3>2, <4>1
      <3> QED
        BY <1>1, <2>2, <3>1, <3>2
    <2>4. Spared(t, list, m + 1)
      <3> SUFFICES ASSUME NEW j \in 1 .. m + 1, Fresh(list[j])
                   PROVE  \E k \in 1 .. Len(t) : t[k] = list[j]
        BY DEF Spared
      <3>1. CASE j = m + 1
        BY <1>1, <2>2, <3>1
      <3>2. CASE j \in 1 .. m
        <4>1. PICK k \in 1 .. Len(s) : s[k] = list[j]
          BY <3>2 DEF Kept, Spared
        <4> QED
          BY <1>1, <2>2, <4>1
      <3> QED
        BY <1>1, <3>1, <3>2
    <2>5. Unique(list) => Unique(t)
      <3> SUFFICES ASSUME Unique(list)
                   PROVE  Unique(t)
        OBVIOUS
      <3>1. \A k \in 1 .. Len(s) : s[k].id # list[m + 1].id
        <4> TAKE k \in 1 .. Len(s)
        <4>1. PICK j \in 1 .. m : s[k] = list[j]
          BY DEF Kept, Taken
        <4>2. list[j].id # list[m + 1].id
          BY <1>1 DEF Unique
        <4> QED
          BY <4>1, <4>2
      <3>2. \A i, j \in 1 .. Len(s) : s[i].id = s[j].id => i = j
        BY DEF Unique, Kept
      <3> QED
        BY <1>1, <2>2, <3>1, <3>2 DEF Unique
    <2> QED
      BY <1>1, <2>1, <2>2, <2>3, <2>4, <2>5 DEF Kept
  <1> QED
    BY <1>2, <1>3

LEMMA PruneKeeps ==
    ASSUME NEW S, NEW list \in Seq(S)
    PROVE  Prune(list) \in Seq(S) /\ Kept(Prune(list), list, Len(list))
  <1>1. PICK n : n = Len(list)
    OBVIOUS
  <1>2. n \in Nat
    BY <1>1
  <1>3. PICK f : Steps(f, list, n) /\ Prune(list) = f[n]
    BY <1>1, <1>2, PruneSteps
  <1> DEFINE T == {m \in 0 .. n : f[m] \in Seq(S) /\ Kept(f[m], list, m)}
  <1>4. 0 \in T
    <2>1. PICK e : e = f[0]
      OBVIOUS
    <2>2. e = <<>>
      BY <1>2, <1>3, <2>1 DEF Steps
    <2>3. e \in Seq(S) /\ Kept(e, list, 0)
      BY <2>2, EmptySeq DEF Kept, Taken, Spared, Unique
    <2> HIDE <2>2
    <2> QED
      BY <1>2, <2>1, <2>3
  <1>5. ASSUME NEW m \in 0 .. n - 1, m \in T
        PROVE  m + 1 \in T
    <2>1. /\ f[m] \in Seq(S) /\ Kept(f[m], list, m) /\ m + 1 \in 0 .. n
          /\ m \in 0 .. Len(list) - 1
      BY <1>1, <1>2, <1>5
    <2>2. f[m + 1] = IF Fresh(list[m + 1]) THEN Append(f[m], list[m + 1]) ELSE f[m]
      <3>1. m + 1 # 0 /\ (m + 1) - 1 = m
        OBVIOUS
      <3>2. PICK k : k = m + 1
        OBVIOUS
      <3>3. f[k] = IF Fresh(list[k]) THEN Append(f[k - 1], list[k]) ELSE f[k - 1]
        BY <1>3, <2>1, <3>1, <3>2 DEF Steps
      <3> QED
        BY <3>1, <3>2, <3>3
    <2>3. f[m + 1] \in Seq(S) /\ Kept(f[m + 1], list, m + 1)
      BY <2>1, <2>2, LoopKeeps
    <2> QED
      BY <2>1, <2>3
  <1>6. n \in T
    <2>1. PICK Set : Set = T
      OBVIOUS
    <2>2. 0 \in Set /\ \A m \in 0 .. n - 1 : m \in Set => m + 1 \in Set
      <3> HIDE DEF T
      <3> QED
        BY <1>4, <1>5, <2>1
    <2> HIDE DEF T
    <2>3. \A m \in 0 .. n : m \in Set
      BY <1>2, <2>2, Induction
    <2> QED
      BY <1>2, <2>1, <2>3
  <1> QED
    BY <1>1, <1>3, <1>6

--------------------------------------------------------------------------------
(* What a list of entries says of the builds *)

\* An entry of this build may be gone at time t.
Expired(q, t) ==
    /\ Retention # 0
    /\ IF q.finished = Unset THEN q.started <= t - Retention
       ELSE q.finished <= t - Retention \/ q.late

Tells(list, states) ==
    \A k \in 1 .. Len(list) :
       LET q == states[list[k].id]
       IN  list[k].status = q.status /\ list[k].started = q.started /\ list[k].finished = q.finished

\* No entry is behind where the builds added after it put it.
Ranked(list, ids) ==
    \A k \in 1 .. Len(list) : \E i \in 1 .. Len(ids) : ids[i] = list[k].id /\ i <= Len(ids) - k + 1

Among(b, ids) == \E i \in 1 .. Len(ids) : ids[i] = b /\ i > Len(ids) - Limit
Lists(b, list) == \E k \in 1 .. Len(list) : list[k].id = b

HoldsRecent(list, states, ids, t) ==
    \A b \in Builds : Among(b, ids) /\ ~Lists(b, list) => Expired(states[b], t)

Account(list, states, ids, t) ==
    /\ Unique(list) /\ Tells(list, states) /\ Ranked(list, ids)
    /\ HoldsRecent(list, states, ids, t)

LEMMA EntryFacts ==
    ASSUME NEW e \in Entry
    PROVE  e.id \in Builds /\ e.started \in Int /\ e.finished \in Int
  BY BuildTrackerAssumption DEF Entry, Times, Unset

LEMMA StateFacts ==
    ASSUME NEW q \in BuildState
    PROVE  q.started \in Int /\ q.finished \in Int
  BY BuildTrackerAssumption DEF BuildState, Times, Unset

LEMMA PruneAccounts ==
    ASSUME NEW list \in Seq(Entry), NEW states \in [Builds -> BuildState], NEW ids,
           Len(ids) \in Nat, now \in Int, Account(list, states, ids, now)
    PROVE  Account(Prune(list), states, ids, now)
  <1>1. PICK kept : kept = Prune(list)
    OBVIOUS
  <1>2. kept \in Seq(Entry) /\ Kept(kept, list, Len(list))
    BY <1>1, PruneKeeps
  <1>3. \A k \in 1 .. Len(kept) :
           \E j \in 1 .. Len(list) : k <= j /\ kept[k] = list[j] /\ Fresh(list[j])
    BY <1>2 DEF Kept, Taken
  <1>4. Unique(kept)
    BY <1>2 DEF Kept, Account
  <1>5. Tells(kept, states)
    BY <1>3 DEF Tells, Account
  <1>6. Ranked(kept, ids)
    <2> SUFFICES ASSUME NEW k \in 1 .. Len(kept)
                 PROVE  \E i \in 1 .. Len(ids) : ids[i] = kept[k].id /\ i <= Len(ids) - k + 1
      BY DEF Ranked
    <2>1. PICK j \in 1 .. Len(list) : k <= j /\ kept[k] = list[j]
      BY <1>3
    <2>2. PICK i \in 1 .. Len(ids) : ids[i] = list[j].id /\ i <= Len(ids) - j + 1
      BY DEF Account, Ranked
    <2> QED
      BY <2>1, <2>2
  <1>7. HoldsRecent(kept, states, ids, now)
    <2> SUFFICES ASSUME NEW b \in Builds, Among(b, ids), ~Lists(b, kept)
                 PROVE  Expired(states[b], now)
      BY DEF HoldsRecent
    <2>1. CASE ~Lists(b, list)
      BY <2>1 DEF Account, HoldsRecent
    <2>2. CASE Lists(b, list)
      <3>1. PICK j \in 1 .. Len(list) : list[j].id = b
        BY <2>2 DEF Lists
      <3>2. ~Fresh(list[j])
        BY <1>2, <3>1 DEF Kept, Spared, Lists
      <3>3. list[j].started = states[b].started /\ list[j].finished = states[b].finished
        BY <3>1 DEF Account, Tells
      <3>4. states[b].started \in Int /\ states[b].finished \in Int /\ Retention \in Int
        BY StateFacts, BuildTrackerAssumption
      <3> QED
        BY <3>2, <3>3, <3>4 DEF Fresh, Timestamp, Expired
    <2> QED
      BY <2>1, <2>2
  <1> QED
    BY <1>1, <1>4, <1>5, <1>6, <1>7 DEF Account

\* The entries that the limit drops are not among the last builds.
LEMMA TrimAccounts ==
    ASSUME NEW list \in Seq(Entry), NEW states, NEW ids, NEW t, Len(ids) \in Nat,
           \A i, j \in 1 .. Len(ids) : ids[i] = ids[j] => i = j,
           Account(list, states, ids, t)
    PROVE  Trim(list) \in Seq(Entry) /\ Len(Trim(list)) <= Limit /\ Account(Trim(list), states, ids, t)
  <1>1. PICK kept : kept = Trim(list)
    OBVIOUS
  <1>2. /\ kept \in Seq(Entry) /\ Len(kept) <= Limit /\ Len(kept) <= Len(list)
        /\ Len(kept) = Len(list) \/ Len(kept) = Limit
        /\ \A k \in 1 .. Len(kept) : kept[k] = list[k]
    BY <1>1, BuildTrackerAssumption DEF Trim
  <1>3. \A k \in 1 .. Len(kept) : k \in 1 .. Len(list)
    BY <1>2
  <1>4. Unique(kept) /\ Tells(kept, states) /\ Ranked(kept, ids)
    BY <1>2, <1>3 DEF Account, Unique, Tells, Ranked
  <1>5. HoldsRecent(kept, states, ids, t)
    <2> SUFFICES ASSUME NEW b \in Builds, Among(b, ids), Lists(b, list), ~Lists(b, kept)
                 PROVE  FALSE
      BY DEF HoldsRecent, Account
    <2>1. PICK k \in 1 .. Len(list) : list[k].id = b
      BY DEF Lists
    <2>2. k > Limit /\ Limit \in Nat
      BY <1>2, <2>1, BuildTrackerAssumption DEF Lists
    <2>3. PICK i \in 1 .. Len(ids) : ids[i] = b /\ i <= Len(ids) - k + 1
      BY <2>1 DEF Account, Ranked
    <2>4. PICK j \in 1 .. Len(ids) : ids[j] = b /\ j > Len(ids) - Limit
      BY DEF Among
    <2>5. i = j
      BY <2>3, <2>4
    <2> QED
      BY <2>2, <2>3, <2>4, <2>5
  <1> QED
    BY <1>1, <1>2, <1>4, <1>5 DEF Account

--------------------------------------------------------------------------------
(* The invariant *)

TrackerInv ==
    /\ entries \in Seq(Entry) /\ Len(entries) <= Limit
    /\ index = RebuildIndex(entries)
    /\ now \in Times
    /\ build \in [Builds -> BuildState]
    /\ added \in Seq(Builds)
    /\ \A i, j \in 1 .. Len(added) : added[i] = added[j] => i = j
    /\ \A b \in Builds : build[b].phase \in {"new", "parsed"} =>
          ~Lists(b, entries) /\ \A i \in 1 .. Len(added) : added[i] # b
    /\ \A b \in Builds : build[b].phase # "ended" =>
          build[b].status = "running" /\ build[b].finished = Unset
    /\ Account(entries, build, added, now)

\* What a client learns of e from its channel, or has learnt already, is how e is.
Knows(queue, told, e) ==
    \/ \E j \in 1 .. Len(queue) :
          queue[j] = e /\ \A i \in 1 .. Len(queue) : i > j => queue[i].id # e.id
    \/ (\A i \in 1 .. Len(queue) : queue[i].id # e.id) /\ told[e.id] = e

StreamInv ==
    /\ stream \in [Streams -> [open : BOOLEAN, queue : Seq(Entry)]]
    /\ seen \in [Streams -> [Builds -> Entry \cup {NoEntry}]]
    /\ sent \in [Streams -> SUBSET Builds]
    /\ \A s \in Streams : /\ Len(stream[s].queue) <= Buffer
                          /\ ~stream[s].open => stream[s].queue = <<>> /\ sent[s] = {}
                          /\ \A k \in 1 .. Len(entries) :
                                entries[k].id \in sent[s] =>
                                   Knows(stream[s].queue, seen[s], entries[k])

Inv == TrackerInv /\ StreamInv

--------------------------------------------------------------------------------
(* What the methods make of the history *)

LEMMA AddAccounts ==
    ASSUME NEW list \in Seq(Entry), NEW states, NEW ids \in Seq(Builds), NEW t,
           NEW b \in Builds, NEW e \in Entry, e.id = b, ~Lists(b, list),
           e.status = states[b].status, e.started = states[b].started,
           e.finished = states[b].finished,
           Account(list, states, ids, t)
    PROVE  /\ <<e>> \o list \in Seq(Entry)
           /\ Account(<<e>> \o list, states, Append(ids, b), t)
  <1>1. PICK new : new = <<e>> \o list
    OBVIOUS
  <1>2. /\ new \in Seq(Entry) /\ Len(new) = Len(list) + 1 /\ new[1] = e
        /\ \A k \in 2 .. Len(new) : new[k] = list[k - 1] /\ k - 1 \in 1 .. Len(list)
        /\ \A k \in 1 .. Len(list) : new[k + 1] = list[k] /\ k + 1 \in 1 .. Len(new)
    BY <1>1
  <1>3. PICK more : more = Append(ids, b)
    OBVIOUS
  <1>4. /\ more \in Seq(Builds) /\ Len(more) = Len(ids) + 1 /\ more[Len(more)] = b
        /\ \A i \in 1 .. Len(ids) : more[i] = ids[i]
    BY <1>3
  <1>5. /\ Len(list) \in Nat /\ Len(ids) \in Nat /\ Limit \in Nat /\ 1 \in 1 .. Len(new)
        /\ \A k \in 1 .. Len(list) : list[k].id # b
    BY <1>2, BuildTrackerAssumption DEF Lists
  <1>6. \A k \in 1 .. Len(new) : k = 1 \/ k \in 2 .. Len(new)
    BY <1>2
  <1>7. Unique(new)
    <2> SUFFICES ASSUME NEW i \in 1 .. Len(new), NEW j \in 1 .. Len(new), new[i].id = new[j].id
                 PROVE  i = j
      BY DEF Unique
    <2>1. CASE i = 1
      BY <1>2, <1>5, <1>6, <2>1
    <2>2. CASE j = 1
      BY <1>2, <1>5, <1>6, <2>2
    <2>3. CASE i \in 2 .. Len(new) /\ j \in 2 .. Len(new)
      <3>1. PICK x : x = i - 1
        OBVIOUS
      <3>2. PICK y : y = j - 1
        OBVIOUS
      <3>3. /\ x \in 1 .. Len(list) /\ y \in 1 .. Len(list)
            /\ new[i] = list[x] /\ new[j] = list[y]
        BY <1>2, <2>3, <3>1, <3>2
      <3>4. x = y
        BY <3>3 DEF Account, Unique
      <3> QED
        BY <3>1, <3>2, <3>4
    <2> QED
      BY <1>6, <2>1, <2>2, <2>3
  <1>8. Tells(new, states)
    <2>1. \A k \in 1 .. Len(new) : new[k] = e \/ \E j \in 1 .. Len(list) : new[k] = list[j]
      BY <1>2, <1>6
    <2> QED
      BY <2>1 DEF Account, Tells
  <1>9. Ranked(new, more)
    <2> SUFFICES ASSUME NEW k \in 1 .. Len(new)
                 PROVE  \E i \in 1 .. Len(more) : more[i] = new[k].id /\ i <= Len(more) - k + 1
      BY DEF Ranked
    <2>1. CASE k = 1
      BY <1>2, <1>4, <1>5, <2>1
    <2>2. CASE k \in 2 .. Len(new)
      <3>1. PICK i \in 1 .. Len(ids) : ids[i] = list[k - 1].id /\ i <= Len(ids) - (k - 1) + 1
        BY <1>2, <2>2 DEF Account, Ranked
      <3> QED
        BY <1>2, <1>4, <1>5, <2>2, <3>1
    <2> QED
      BY <1>6, <2>1, <2>2
  <1>10. HoldsRecent(new, states, more, t)
    <2> SUFFICES ASSUME NEW c \in Builds, Among(c, more), ~Lists(c, new)
                 PROVE  Expired(states[c], t)
      BY DEF HoldsRecent
    <2>1. c # b /\ ~Lists(c, list)
      BY <1>2, <1>5 DEF Lists
    <2>2. PICK i \in 1 .. Len(more) : more[i] = c /\ i > Len(more) - Limit
      BY DEF Among
    <2>3. i \in 1 .. Len(ids) /\ ids[i] = c /\ i > Len(ids) - Limit
      BY <1>4, <1>5, <2>1, <2>2
    <2>4. Among(c, ids)
      BY <2>3 DEF Among
    <2> QED
      BY <2>1, <2>4 DEF Account, HoldsRecent
  <1> QED
    BY <1>1, <1>2, <1>3, <1>7, <1>8, <1>9, <1>10 DEF Account

\* The state of build b changes, and its entry, if there is one, with it.
LEMMA UpdateAccounts ==
    ASSUME NEW list \in Seq(Entry), NEW new \in Seq(Entry), NEW ids, NEW t \in Times,
           NEW states \in [Builds -> BuildState], NEW states2 \in [Builds -> BuildState],
           NEW b \in Builds, Account(list, states, ids, t),
           Len(new) = Len(list),
           \A k \in 1 .. Len(list) :
              /\ new[k].id = list[k].id
              /\ IF list[k].id = b
                 THEN /\ new[k].status = states2[b].status
                      /\ new[k].started = states2[b].started
                      /\ new[k].finished = states2[b].finished
                 ELSE new[k] = list[k],
           \A c \in Builds : c # b => states2[c] = states[c],
           states2[b].started = states[b].started, states[b].finished = Unset,
           states2[b].finished = Unset \/ states2[b].late = (t - states[b].started >= Retention)
    PROVE  Account(new, states2, ids, t)
  <1>1. \A c \in Builds : Lists(c, new) <=> Lists(c, list)
    BY DEF Lists
  <1>2. \A k \in 1 .. Len(list) : list[k].id \in Builds
    BY EntryFacts
  <1>3. Unique(new)
    BY DEF Account, Unique
  <1>4. Tells(new, states2)
    BY <1>2 DEF Account, Tells
  <1>5. Ranked(new, ids)
    BY DEF Account, Ranked
  <1>6. HoldsRecent(new, states2, ids, t)
    <2> SUFFICES ASSUME NEW c \in Builds, Among(c, ids), ~Lists(c, new)
                 PROVE  Expired(states2[c], t)
      BY DEF HoldsRecent
    <2>1. Expired(states[c], t)
      BY <1>1 DEF Account, HoldsRecent
    <2>2. CASE c # b
      BY <2>1, <2>2
    <2>3. CASE c = b
      <3>1. Retention # 0 /\ states[b].started <= t - Retention
        BY <2>1, <2>3 DEF Expired
      <3>2. states[b].started \in Int /\ t \in Int /\ Retention \in Int
        BY StateFacts, BuildTrackerAssumption DEF Times
      <3>3. CASE states2[b].finished = Unset
        BY <2>3, <3>1, <3>3 DEF Expired
      <3>4. CASE states2[b].late = (t - states[b].started >= Retention)
        <4>1. t - states[b].started >= Retention
          BY <3>1, <3>2
        <4>2. states2[b].late
          BY <3>4, <4>1, Zenon
        <4>3. CASE states2[b].finished # Unset
          BY <2>3, <3>1, <4>2, <4>3, Zenon DEF Expired
        <4> QED
          BY <3>3, <4>3
      <3> QED
        BY <3>3, <3>4
    <2> QED
      BY <2>2, <2>3
  <1> QED
    BY <1>3, <1>4, <1>5, <1>6 DEF Account

\* The index has the id of every entry, and each at its place.
Finds(positions, list) ==
    /\ \A k \in 1 .. Len(list) : positions[list[k].id] = k
    /\ DOMAIN positions = {b \in Builds : Lists(b, list)}
    /\ \A b \in DOMAIN positions : positions[b] \in 1 .. Len(list) /\ list[positions[b]].id = b

LEMMA RebuildFinds ==
    ASSUME NEW list \in Seq(Entry), Unique(list)
    PROVE  Finds(RebuildIndex(list), list)
  <1>1. DOMAIN list = 1 .. Len(list)
    OBVIOUS
  <1>2. Ids(list) = {b \in Builds : Lists(b, list)}
    BY <1>1, EntryFacts DEF Ids, Lists
  <1>3. ASSUME NEW b \in Ids(list)
        PROVE  /\ RebuildIndex(list)[b] \in 1 .. Len(list)
               /\ list[RebuildIndex(list)[b]].id = b
    <2>1. \E k \in 1 .. Len(list) : list[k].id = b
      BY <1>1 DEF Ids
    <2>2. RebuildIndex(list)[b] = CHOOSE k \in 1 .. Len(list) : list[k].id = b
      BY <1>1 DEF RebuildIndex
    <2> QED
      BY <2>1, <2>2
  <1>4. \A k \in 1 .. Len(list) : list[k].id \in Ids(list)
    BY <1>1 DEF Ids
  <1>5. \A k \in 1 .. Len(list) : RebuildIndex(list)[list[k].id] = k
    BY <1>3, <1>4 DEF Unique
  <1>6. DOMAIN RebuildIndex(list) = Ids(list)
    BY DEF RebuildIndex
  <1> QED
    BY <1>2, <1>3, <1>5, <1>6 DEF Finds

LEMMA IndexFacts ==
    ASSUME TrackerInv
    PROVE  Finds(index, entries)
  <1>1. entries \in Seq(Entry) /\ index = RebuildIndex(entries) /\ Unique(entries)
    BY DEF TrackerInv, Account
  <1> QED
    BY <1>1, RebuildFinds

--------------------------------------------------------------------------------
(* The steps and the history *)

From(new, list) == \A k \in 1 .. Len(new) : \E j \in 1 .. Len(list) : new[k] = list[j]

LEMMA PruneFrom ==
    ASSUME NEW list \in Seq(Entry)
    PROVE  Prune(list) \in Seq(Entry) /\ Len(Prune(list)) <= Len(list) /\ From(Prune(list), list)
  BY PruneKeeps DEF Kept, Taken, From

LEMMA TrimFrom ==
    ASSUME NEW list \in Seq(Entry)
    PROVE  From(Trim(list), list)
  BY BuildTrackerAssumption DEF Trim, From

LEMMA FromLists ==
    ASSUME NEW new, NEW list, From(new, list), NEW b, Lists(b, new)
    PROVE  Lists(b, list)
  BY DEF From, Lists

\* An account is about status and times; a build's phase is not part of it.
LEMMA AccountStays ==
    ASSUME NEW list, NEW states, NEW states2, NEW ids, NEW t,
           \A k \in 1 .. Len(list) : list[k].id \in Builds,
           \A b \in Builds : /\ states2[b].status = states[b].status
                             /\ states2[b].started = states[b].started
                             /\ states2[b].finished = states[b].finished
                             /\ states2[b].late = states[b].late,
           Account(list, states, ids, t)
    PROVE  Account(list, states2, ids, t)
  <1>1. Tells(list, states2)
    BY DEF Account, Tells
  <1>2. HoldsRecent(list, states2, ids, t)
    BY DEF Account, HoldsRecent, Expired
  <1> QED
    BY <1>1, <1>2 DEF Account

LEMMA BuildChanges ==
    ASSUME TrackerInv, NEW b \in Builds, NEW q \in BuildState, build' = [build EXCEPT ![b] = q]
    PROVE  /\ build' \in [Builds -> BuildState] /\ build'[b] = q
           /\ \A c \in Builds : c # b => build'[c] = build[c]
  BY DEF TrackerInv

LEMMA StateChanges ==
    ASSUME NEW q \in BuildState
    PROVE  \A phase \in Phases :
              LET p == [q EXCEPT !.phase = phase]
              IN  /\ p \in BuildState /\ p.phase = phase /\ p.status = q.status
                  /\ p.started = q.started /\ p.finished = q.finished /\ p.late = q.late
  BY DEF BuildState, Phases

LEMMA ParseKeeps ==
    ASSUME TrackerInv, NEW b \in Builds, Parse(b)
    PROVE  TrackerInv'
  <1>1. build[b] \in BuildState /\ build[b].phase = "new" /\ now \in Times
    BY DEF TrackerInv, Parse
  <1>2. PICK q : q = [build[b] EXCEPT !.phase = "parsed", !.started = now]
    OBVIOUS
  <1>3. /\ q \in BuildState /\ q.phase = "parsed" /\ q.status = build[b].status
        /\ q.finished = build[b].finished
    BY <1>1, <1>2 DEF BuildState, Phases
  <1>4. build' = [build EXCEPT ![b] = q] /\ UNCHANGED <<entries, index, now, added>>
    BY <1>2 DEF Parse, trackerVars
  <1>5. /\ build' \in [Builds -> BuildState] /\ build'[b] = q
        /\ \A c \in Builds : c # b => build'[c] = build[c]
    BY <1>3, <1>4, BuildChanges
  <1>6. /\ ~Lists(b, entries) /\ \A i \in 1 .. Len(added) : added[i] # b
        /\ build[b].status = "running" /\ build[b].finished = Unset
    BY <1>1 DEF TrackerInv
  <1>7. Account(entries, build', added, now)
    <2>1. \A k \in 1 .. Len(entries) : entries[k].id \in Builds \ {b}
      BY <1>6, EntryFacts DEF Lists, TrackerInv
    <2>2. Tells(entries, build')
      BY <1>5, <2>1 DEF TrackerInv, Account, Tells
    <2>3. ~Among(b, added)
      BY <1>6 DEF Among
    <2>4. HoldsRecent(entries, build', added, now)
      BY <1>5, <2>3 DEF TrackerInv, Account, HoldsRecent
    <2> QED
      BY <2>2, <2>4 DEF TrackerInv, Account
  <1>8. PICK states : states = build'
    OBVIOUS
  <1>9. /\ states \in [Builds -> BuildState] /\ states[b] = q
        /\ \A c \in Builds : c # b => states[c] = build[c]
        /\ Account(entries, states, added, now)
    BY <1>5, <1>7, <1>8
  <1>10. /\ \A c \in Builds : states[c].phase \in {"new", "parsed"} =>
               ~Lists(c, entries) /\ \A i \in 1 .. Len(added) : added[i] # c
         /\ \A c \in Builds : states[c].phase # "ended" =>
               states[c].status = "running" /\ states[c].finished = Unset
    BY <1>3, <1>6, <1>9 DEF TrackerInv
  <1> QED
    BY <1>4, <1>8, <1>9, <1>10 DEF TrackerInv

LEMMA TrackKeeps ==
    ASSUME TrackerInv, NEW b \in Builds, Track(b)
    PROVE  /\ TrackerInv'
           /\ From(entries', <<NewEntry(b)>> \o entries) /\ NewEntry(b) \in Entry
           /\ ~Lists(b, entries)
  <1>1. /\ build[b] \in BuildState /\ build[b].phase = "parsed" /\ now \in Times
        /\ entries \in Seq(Entry) /\ added \in Seq(Builds)
        /\ ~Lists(b, entries) /\ \A i \in 1 .. Len(added) : added[i] # b
        /\ build[b].status = "running" /\ build[b].finished = Unset
        /\ build \in [Builds -> BuildState]
    BY DEF TrackerInv, Track
  <1>2. PICK e : e = NewEntry(b)
    OBVIOUS
  <1>3. /\ e \in Entry /\ e.id = b /\ e.status = build[b].status
        /\ e.started = build[b].started /\ e.finished = build[b].finished
    BY <1>1, <1>2 DEF NewEntry, Entry, BuildState, Statuses
  <1>4. PICK kept : kept = Prune(entries)
    OBVIOUS
  <1>5. /\ kept \in Seq(Entry) /\ From(kept, entries) /\ Account(kept, build, added, now)
        /\ ~Lists(b, kept)
    <2>1. now \in Int /\ Len(added) \in Nat
      BY <1>1, BuildTrackerAssumption DEF Times
    <2> QED
      BY <1>1, <1>4, <2>1, PruneFrom, PruneAccounts, FromLists DEF TrackerInv
  <1>6. PICK ids : ids = Append(added, b)
    OBVIOUS
  <1>7. PICK list : list = <<e>> \o kept
    OBVIOUS
  <1>8. list \in Seq(Entry) /\ Account(list, build, ids, now)
    BY <1>1, <1>3, <1>5, <1>6, <1>7, AddAccounts
  <1>9. /\ ids \in Seq(Builds) /\ Len(ids) \in Nat /\ Len(ids) = Len(added) + 1
        /\ ids[Len(ids)] = b /\ \A i \in 1 .. Len(added) : ids[i] = added[i]
    BY <1>1, <1>6
  <1>10. \A i, j \in 1 .. Len(ids) : ids[i] = ids[j] => i = j
    <2>1. \A i \in 1 .. Len(ids) : i = Len(ids) \/ i \in 1 .. Len(added)
      BY <1>1, <1>9
    <2> QED
      BY <1>1, <1>9, <2>1 DEF TrackerInv
  <1>11. PICK new : new = Trim(list)
    OBVIOUS
  <1>12. new \in Seq(Entry) /\ Len(new) <= Limit /\ Account(new, build, ids, now) /\ From(new, list)
    BY <1>8, <1>9, <1>10, <1>11, TrimAccounts, TrimFrom
  <1>13. PICK q : q = [build[b] EXCEPT !.phase = "preparing"]
    OBVIOUS
  <1>14. /\ q \in BuildState /\ q.phase = "preparing" /\ q.status = build[b].status
         /\ q.started = build[b].started /\ q.finished = build[b].finished
         /\ q.late = build[b].late
    BY <1>1, <1>13, StateChanges DEF Phases
  <1>15. PICK states : states = build'
    OBVIOUS
  <1>16. build' = [build EXCEPT ![b] = q]
    BY <1>13 DEF Track, Reach
  <1>17. /\ states \in [Builds -> BuildState] /\ states[b] = q
         /\ \A c \in Builds : c # b => states[c] = build[c]
    BY <1>14, <1>15, <1>16, BuildChanges
  <1>18. Account(new, states, ids, now)
    <2>1. \A k \in 1 .. Len(new) : new[k].id \in Builds
      BY <1>12, EntryFacts
    <2>2. \A c \in Builds : /\ states[c].status = build[c].status
                            /\ states[c].started = build[c].started
                            /\ states[c].finished = build[c].finished
                            /\ states[c].late = build[c].late
      BY <1>14, <1>17
    <2> QED
      BY <1>12, <2>1, <2>2, AccountStays
  <1>19. /\ entries' = new /\ index' = RebuildIndex(new) /\ added' = ids /\ now' = now
    BY <1>2, <1>4, <1>6, <1>7, <1>11 DEF Track, Add, Holds
  <1>20. \A c \in Builds : c # b /\ Lists(c, new) => Lists(c, entries)
    <2> SUFFICES ASSUME NEW c \in Builds, c # b, Lists(c, list)
                 PROVE  Lists(c, entries)
      BY <1>12, FromLists
    <2>1. \A k \in 1 .. Len(list) : list[k] = e \/ \E j \in 1 .. Len(kept) : list[k] = kept[j]
      BY <1>3, <1>5, <1>7
    <2>2. Lists(c, kept)
      BY <1>3, <2>1 DEF Lists
    <2> QED
      BY <1>5, <2>2, FromLists
  <1>21. /\ \A c \in Builds : states[c].phase \in {"new", "parsed"} =>
               ~Lists(c, new) /\ \A i \in 1 .. Len(ids) : ids[i] # c
         /\ \A c \in Builds : states[c].phase # "ended" =>
               states[c].status = "running" /\ states[c].finished = Unset
    <2>1. \A i \in 1 .. Len(ids) : ids[i] = b \/ \E j \in 1 .. Len(added) : ids[i] = added[j]
      BY <1>1, <1>9
    <2> QED
      BY <1>1, <1>14, <1>17, <1>20, <2>1 DEF TrackerInv
  <1>22. TrackerInv'
    BY <1>1, <1>9, <1>10, <1>12, <1>15, <1>17, <1>18, <1>19, <1>21 DEF TrackerInv
  <1>23. From(entries', <<e>> \o entries)
    <2>1. PICK all : all = <<e>> \o entries
      OBVIOUS
    <2>2. all[1] = e /\ \A j \in 1 .. Len(entries) : all[j + 1] = entries[j] /\ j + 1 \in 1 .. Len(all)
      BY <1>1, <1>3, <2>1
    <2>3. \A k \in 1 .. Len(list) : list[k] = e \/ \E j \in 1 .. Len(kept) : list[k] = kept[j]
      BY <1>3, <1>5, <1>7
    <2>4. 1 \in 1 .. Len(all)
      BY <1>1, <1>3, <2>1
    <2>5. From(new, all)
      BY <1>5, <1>12, <2>2, <2>3, <2>4 DEF From
    <2> QED
      BY <1>19, <2>1, <2>5
  <1> QED
    BY <1>1, <1>2, <1>3, <1>22, <1>23

\* Update finds the entry of b, if there is one, and it is b's.
LEMMA UpdateKeeps ==
    ASSUME TrackerInv, NEW b \in Builds, build[b].phase \in {"preparing", "building"},
           NEW q \in BuildState, q.started = build[b].started,
           q.finished = Unset \/ q.late = Late(b),
           q.phase \in {"building", "ended"},
           q.phase # "ended" => q.status = "running" /\ q.finished = Unset,
           Update(b, q.status, q.finished), build' = [build EXCEPT ![b] = q],
           UNCHANGED <<now, added>>
    PROVE  /\ TrackerInv'
           /\ b \notin DOMAIN index => entries' = entries /\ ~Lists(b, entries)
           /\ b \in DOMAIN index =>
                 LET e == Updated(b, q.status, q.finished)
                 IN  /\ e \in Entry /\ e.id = b
                     /\ \A k \in 1 .. Len(entries') :
                           \/ entries'[k] = e
                           \/ /\ entries'[k].id # b
                              /\ \E j \in 1 .. Len(entries) : entries'[k] = entries[j]
  <1>1. /\ now \in Times /\ entries \in Seq(Entry) /\ added \in Seq(Builds)
        /\ build \in [Builds -> BuildState] /\ build[b].finished = Unset
        /\ index = RebuildIndex(entries) /\ Len(entries) <= Limit
        /\ Account(entries, build, added, now) /\ Unique(entries)
        /\ Len(added) \in Nat /\ now \in Int
    BY BuildTrackerAssumption DEF TrackerInv, Account, Times
  <1>2. PICK states : states = build'
    OBVIOUS
  <1>3. /\ states \in [Builds -> BuildState] /\ states[b] = q
        /\ \A c \in Builds : c # b => states[c] = build[c]
    BY <1>2, BuildChanges
  <1>4. \A c \in Builds : states[c].phase # "ended" =>
           states[c].status = "running" /\ states[c].finished = Unset
    BY <1>3 DEF TrackerInv
  <1>5. CASE b \notin DOMAIN index
    <2>1. ~Lists(b, entries)
      BY <1>5, IndexFacts DEF Finds
    <2>2. UNCHANGED <<entries, index>>
      BY <1>5 DEF Update, trackerVars
    <2>3. \A k \in 1 .. Len(entries) : entries[k].id # b
      BY <2>1 DEF Lists
    <2>4. Account(entries, states, added, now)
      BY <1>1, <1>3, <2>3, UpdateAccounts DEF Late
    <2>5. \A c \in Builds : states[c].phase \in {"new", "parsed"} =>
             ~Lists(c, entries) /\ \A i \in 1 .. Len(added) : added[i] # c
      BY <1>3 DEF TrackerInv
    <2>6. TrackerInv'
      BY <1>2, <1>3, <1>4, <2>2, <2>4, <2>5 DEF TrackerInv
    <2> QED
      BY <1>5, <2>1, <2>2, <2>6
  <1>6. CASE b \in DOMAIN index
    <2>1. PICK n \in 1 .. Len(entries) : n = index[b] /\ entries[n].id = b
      BY <1>6, IndexFacts DEF Finds
    <2>2. PICK e : e = Updated(b, q.status, q.finished)
      OBVIOUS
    <2>3. entries[n] \in Entry
      BY <1>1
    <2>4. /\ e \in Entry /\ e.id = b /\ e.status = q.status /\ e.finished = q.finished
          /\ e.started = entries[n].started
      BY <2>1, <2>2, <2>3 DEF Updated, Entry, BuildState
    <2>5. PICK list : list = [entries EXCEPT ![n] = e]
      OBVIOUS
    <2>6. /\ list \in Seq(Entry) /\ Len(list) = Len(entries) /\ list[n] = e
          /\ \A k \in 1 .. Len(entries) : k # n => list[k] = entries[k]
      BY <1>1, <2>1, <2>4, <2>5
    <2>7. \A k \in 1 .. Len(entries) : entries[k].id = b => k = n
      BY <1>1, <2>1 DEF Unique
    <2>8. e.started = q.started
      BY <1>1, <2>1, <2>4 DEF Account, Tells
    <2>9. \A k \in 1 .. Len(entries) :
             /\ list[k].id = entries[k].id
             /\ IF entries[k].id = b
                THEN /\ list[k].status = states[b].status
                     /\ list[k].started = states[b].started
                     /\ list[k].finished = states[b].finished
                ELSE list[k] = entries[k]
      BY <1>3, <2>1, <2>4, <2>6, <2>7, <2>8
    <2>10. Account(list, states, added, now)
      BY <1>1, <1>3, <2>6, <2>9, UpdateAccounts DEF Late
    <2>11. PICK kept : kept = Prune(list)
      OBVIOUS
    <2>12. /\ kept \in Seq(Entry) /\ Len(kept) <= Len(list) /\ From(kept, list)
           /\ Account(kept, states, added, now)
      BY <1>1, <1>3, <2>6, <2>10, <2>11, PruneFrom, PruneAccounts
    <2>13. entries' = kept /\ index' = RebuildIndex(kept)
      BY <1>6, <2>1, <2>2, <2>5, <2>11 DEF Update, Holds
    <2>14. \A c \in Builds : Lists(c, kept) => Lists(c, entries)
      <3>1. \A c \in Builds : Lists(c, list) => Lists(c, entries)
        BY <2>6, <2>9 DEF Lists
      <3> QED
        BY <2>12, <3>1, FromLists
    <2>15. \A c \in Builds : states[c].phase \in {"new", "parsed"} =>
              ~Lists(c, kept) /\ \A i \in 1 .. Len(added) : added[i] # c
      BY <1>3, <2>14 DEF TrackerInv
    <2>16. Len(kept) <= Limit
      BY <1>1, <2>6, <2>12, BuildTrackerAssumption
    <2>17. TrackerInv'
      BY <1>1, <1>2, <1>3, <1>4, <2>12, <2>13, <2>15, <2>16 DEF TrackerInv
    <2>18. \A k \in 1 .. Len(kept) :
              \/ kept[k] = e
              \/ kept[k].id # b /\ \E j \in 1 .. Len(entries) : kept[k] = entries[j]
      <3> TAKE k \in 1 .. Len(kept)
      <3>1. PICK j \in 1 .. Len(list) : kept[k] = list[j]
        BY <2>12 DEF From
      <3> QED
        BY <2>6, <2>7, <3>1
    <2> QED
      BY <1>6, <2>2, <2>4, <2>13, <2>17, <2>18
  <1> QED
    BY <1>5, <1>6

\* What the handler calls Update with.
LEMMA HandlerUpdates ==
    ASSUME TrackerInv, NEW b \in Builds, Prepare(b) \/ End(b)
    PROVE  \E q \in BuildState :
              /\ build[b].phase \in {"preparing", "building"}
              /\ q.started = build[b].started /\ (q.finished = Unset \/ q.late = Late(b))
              /\ q.phase \in {"building", "ended"}
              /\ q.phase # "ended" => q.status = "running" /\ q.finished = Unset
              /\ Update(b, q.status, q.finished) /\ build' = [build EXCEPT ![b] = q]
              /\ UNCHANGED <<now, added>>
  <1>1. build[b] \in BuildState /\ now \in Times
    BY DEF TrackerInv
  <1>2. CASE Prepare(b)
    <2>1. build[b].phase = "preparing" /\ build[b].status = "running" /\ build[b].finished = Unset
      BY <1>2 DEF Prepare, TrackerInv
    <2>2. PICK q : q = [build[b] EXCEPT !.phase = "building"]
      OBVIOUS
    <2>3. /\ q \in BuildState /\ q.phase = "building" /\ q.status = "running"
          /\ q.started = build[b].started /\ q.finished = Unset
      BY <1>1, <2>1, <2>2, StateChanges DEF Phases
    <2>4. build' = [build EXCEPT ![b] = q]
      BY <1>2, <2>2 DEF Prepare, Reach
    <2> QED
      BY <1>2, <2>1, <2>3, <2>4 DEF Prepare
  <1>3. CASE End(b)
    <2>1. PICK status \in {"failed", "success"}, finished \in build[b].started .. now :
             /\ build[b].phase \in {"preparing", "building"}
             /\ Update(b, status, finished)
             /\ build' = [build EXCEPT ![b] = [@ EXCEPT !.phase = "ended", !.status = status,
                                                        !.finished = finished, !.late = Late(b)]]
             /\ UNCHANGED <<now, added>>
      BY <1>3 DEF End
    <2>2. PICK q : q = [build[b] EXCEPT !.phase = "ended", !.status = status,
                                        !.finished = finished, !.late = Late(b)]
      OBVIOUS
    <2>3. /\ q \in BuildState /\ q.phase = "ended" /\ q.status = status
          /\ q.started = build[b].started /\ q.finished = finished /\ q.late = Late(b)
      <3>1. finished \in Times
        BY <1>1, BuildTrackerAssumption DEF BuildState, Times
      <3>2. Late(b) \in BOOLEAN
        BY DEF Late
      <3> QED
        BY <1>1, <2>1, <2>2, <3>1, <3>2 DEF BuildState, Phases, Statuses
    <2>4. build' = [build EXCEPT ![b] = q]
      BY <2>1, <2>2
    <2> QED
      BY <2>1, <2>3, <2>4
  <1> QED
    BY <1>2, <1>3

LEMMA ListKeeps ==
    ASSUME TrackerInv, List
    PROVE  TrackerInv' /\ From(entries', entries)
  <1>1. /\ now \in Int /\ entries \in Seq(Entry) /\ Len(added) \in Nat
        /\ build \in [Builds -> BuildState] /\ Len(entries) <= Limit
        /\ Account(entries, build, added, now)
    BY BuildTrackerAssumption DEF TrackerInv, Times
  <1>2. PICK kept : kept = Prune(entries)
    OBVIOUS
  <1>3. /\ kept \in Seq(Entry) /\ Len(kept) <= Len(entries) /\ From(kept, entries)
        /\ Account(kept, build, added, now)
    BY <1>1, <1>2, PruneFrom, PruneAccounts
  <1>4. entries' = kept /\ index' = RebuildIndex(kept) /\ UNCHANGED <<now, build, added>>
    BY <1>2 DEF List, Holds
  <1>5. Len(kept) <= Limit
    BY <1>1, <1>3, BuildTrackerAssumption
  <1>6. \A b \in Builds : Lists(b, kept) => Lists(b, entries)
    BY <1>3, FromLists
  <1> QED
    BY <1>3, <1>4, <1>5, <1>6 DEF TrackerInv

LEMMA ClearKeeps ==
    ASSUME TrackerInv, Clear
    PROVE  TrackerInv' /\ From(entries', entries)
  <1>1. PICK none : none = <<>>
    OBVIOUS
  <1>2. none \in Seq(Entry) /\ none \in Seq(Builds) /\ Len(none) = 0
    BY <1>1
  <1>3. /\ entries' = none /\ index' = RebuildIndex(none) /\ added' = none
        /\ UNCHANGED <<now, build>>
    BY <1>1 DEF Clear, Holds
  <1> HIDE <1>1
  <1>4. \A k \in 1 .. Len(none) : FALSE
    BY <1>2
  <1>5. Account(none, build, none, now)
    BY <1>4 DEF Account, Unique, Tells, Ranked, HoldsRecent, Among
  <1>6. \A b \in Builds : ~Lists(b, none)
    BY <1>4 DEF Lists
  <1>7. Len(none) <= Limit
    BY <1>2, BuildTrackerAssumption
  <1> QED
    BY <1>2, <1>3, <1>4, <1>5, <1>6, <1>7 DEF TrackerInv, From

LEMMA TickKeeps ==
    ASSUME TrackerInv, Tick
    PROVE  TrackerInv'
  <1>1. PICK t : t = now + 1
    OBVIOUS
  <1>2. now \in Int /\ t \in Times /\ t \in Int /\ t = now + 1 /\ Retention \in Int
    BY <1>1, BuildTrackerAssumption DEF TrackerInv, Tick, Times
  <1>3. \A b \in Builds : Expired(build[b], now) => Expired(build[b], t)
    <2> TAKE b \in Builds
    <2>1. build[b].started \in Int /\ build[b].finished \in Int
      BY StateFacts DEF TrackerInv
    <2> QED
      BY <1>2, <2>1 DEF Expired
  <1>4. Account(entries, build, added, t)
    BY <1>3 DEF TrackerInv, Account, HoldsRecent
  <1>5. now' = t /\ UNCHANGED <<entries, index, build, added>>
    BY <1>1 DEF Tick, trackerVars
  <1> QED
    BY <1>2, <1>4, <1>5 DEF TrackerInv

--------------------------------------------------------------------------------
(* The streams *)

\* An entry sent behind the others is what the client learns last.
LEMMA SendingTells ==
    ASSUME NEW queue \in Seq(Entry), NEW told, NEW e \in Entry, NEW new, new = Append(queue, e)
    PROVE  /\ new \in Seq(Entry) /\ Len(new) = Len(queue) + 1
           /\ Knows(new, told, e)
           /\ \A x \in Entry : x.id # e.id /\ Knows(queue, told, x) => Knows(new, told, x)
  <1>1. /\ new \in Seq(Entry) /\ Len(new) = Len(queue) + 1 /\ new[Len(new)] = e
        /\ \A k \in 1 .. Len(queue) : new[k] = queue[k]
        /\ Len(queue) \in Nat
    OBVIOUS
  <1>2. Knows(new, told, e)
    BY <1>1 DEF Knows
  <1>3. ASSUME NEW x \in Entry, x.id # e.id, Knows(queue, told, x)
        PROVE  Knows(new, told, x)
    <2>1. \A i \in 1 .. Len(new) : i = Len(new) \/ i \in 1 .. Len(queue)
      BY <1>1
    <2>2. CASE \E j \in 1 .. Len(queue) :
                  queue[j] = x /\ \A i \in 1 .. Len(queue) : i > j => queue[i].id # x.id
      <3>1. PICK j \in 1 .. Len(queue) :
                  queue[j] = x /\ \A i \in 1 .. Len(queue) : i > j => queue[i].id # x.id
        BY <2>2
      <3>2. j \in 1 .. Len(new) /\ new[j] = x
        BY <1>1, <3>1
      <3>3. \A i \in 1 .. Len(new) : i > j => new[i].id # x.id
        BY <1>1, <1>3, <2>1, <3>1
      <3> QED
        BY <3>2, <3>3 DEF Knows
    <2>3. CASE (\A i \in 1 .. Len(queue) : queue[i].id # x.id) /\ told[x.id] = x
      <3>1. \A i \in 1 .. Len(new) : new[i].id # x.id
        BY <1>1, <1>3, <2>1, <2>3
      <3> QED
        BY <2>3, <3>1 DEF Knows
    <2> QED
      BY <1>3, <2>2, <2>3 DEF Knows
  <1> QED
    BY <1>1, <1>2, <1>3

\* Taking the oldest entry out of the channel loses nothing.
LEMMA ReceivingTells ==
    ASSUME NEW queue \in Seq(Entry), queue # <<>>, NEW told \in [Builds -> Entry \cup {NoEntry}]
    PROVE  LET e == Head(queue)
               then == [told EXCEPT ![e.id] = e]
           IN  /\ Tail(queue) \in Seq(Entry) /\ Len(Tail(queue)) = Len(queue) - 1
               /\ then \in [Builds -> Entry \cup {NoEntry}]
               /\ \A x \in Entry : Knows(queue, told, x) => Knows(Tail(queue), then, x)
  <1>1. PICK e : e = Head(queue)
    OBVIOUS
  <1>2. PICK rest : rest = Tail(queue)
    OBVIOUS
  <1>3. /\ rest \in Seq(Entry) /\ Len(rest) = Len(queue) - 1 /\ Len(queue) \in Nat /\ Len(queue) > 0
        /\ e = queue[1] /\ \A i \in 1 .. Len(rest) : rest[i] = queue[i + 1]
        /\ e \in Entry
    <2>1. Len(queue) \in Nat /\ Len(queue) > 0
      BY EmptySeq
    <2> QED
      BY <1>1, <1>2, <2>1
  <1>4. e.id \in Builds
    BY <1>3, EntryFacts
  <1>5. PICK then : then = [told EXCEPT ![e.id] = e]
    OBVIOUS
  <1>6. /\ then \in [Builds -> Entry \cup {NoEntry}] /\ then[e.id] = e
        /\ \A b \in Builds : b # e.id => then[b] = told[b]
    BY <1>3, <1>4, <1>5
  <1>7. ASSUME NEW x \in Entry, Knows(queue, told, x)
        PROVE  Knows(rest, then, x)
    <2>1. x.id \in Builds
      BY EntryFacts
    <2>2. \A i \in 1 .. Len(rest) : i + 1 \in 1 .. Len(queue) /\ i + 1 > 1
      BY <1>3
    <2>3. CASE \E j \in 1 .. Len(queue) :
                  queue[j] = x /\ \A i \in 1 .. Len(queue) : i > j => queue[i].id # x.id
      <3>1. PICK j \in 1 .. Len(queue) :
                  queue[j] = x /\ \A i \in 1 .. Len(queue) : i > j => queue[i].id # x.id
        BY <2>3
      <3>2. CASE j = 1
        <4>1. \A i \in 1 .. Len(rest) : rest[i].id # x.id
          BY <1>3, <2>2, <3>1, <3>2
        <4>2. then[x.id] = x
          BY <1>3, <1>6, <3>1, <3>2
        <4> QED
          BY <4>1, <4>2 DEF Knows
      <3>3. CASE j # 1
        <4>1. PICK k : k = j - 1
          OBVIOUS
        <4>2. k \in 1 .. Len(rest) /\ rest[k] = x
          BY <1>3, <3>1, <3>3, <4>1
        <4>3. \A i \in 1 .. Len(rest) : i > k => rest[i].id # x.id
          BY <1>3, <2>2, <3>1, <4>1
        <4> QED
          BY <4>2, <4>3 DEF Knows
      <3> QED
        BY <3>2, <3>3
    <2>4. CASE (\A i \in 1 .. Len(queue) : queue[i].id # x.id) /\ told[x.id] = x
      <3>1. \A i \in 1 .. Len(rest) : rest[i].id # x.id
        BY <1>3, <2>2, <2>4
      <3>2. x.id # e.id
        BY <1>3, <2>4
      <3>3. then[x.id] = x
        BY <1>6, <2>1, <2>4, <3>2
      <3> QED
        BY <3>1, <3>3 DEF Knows
    <2> QED
      BY <1>7, <2>3, <2>4 DEF Knows
  <1> QED
    BY <1>1, <1>2, <1>3, <1>5, <1>6, <1>7

Channel == [open : BOOLEAN, queue : Seq(Entry)]

\* The invariant of one client's channel, for a list of entries.
Follows(c, told, news, list) ==
    /\ c \in Channel /\ told \in [Builds -> Entry \cup {NoEntry}] /\ news \in SUBSET Builds
    /\ Len(c.queue) <= Buffer
    /\ ~c.open => c.queue = <<>> /\ news = {}
    /\ \A k \in 1 .. Len(list) : list[k].id \in news => Knows(c.queue, told, list[k])

LEMMA StreamsFollow ==
    ASSUME StreamInv
    PROVE  \A s \in Streams : Follows(stream[s], seen[s], sent[s], entries)
  BY DEF StreamInv, Follows, Channel

LEMMA FollowersMakeInv ==
    ASSUME NEW stream2, NEW seen2, NEW sent2,
           DOMAIN stream2 = Streams /\ stream2 = [s \in Streams |-> stream2[s]],
           DOMAIN seen2 = Streams /\ seen2 = [s \in Streams |-> seen2[s]],
           DOMAIN sent2 = Streams /\ sent2 = [s \in Streams |-> sent2[s]],
           stream' = stream2, seen' = seen2, sent' = sent2,
           \A s \in Streams : Follows(stream2[s], seen2[s], sent2[s], entries')
    PROVE  StreamInv'
  <1>1. stream2 \in [Streams -> Channel] /\ seen2 \in [Streams -> [Builds -> Entry \cup {NoEntry}]]
        /\ sent2 \in [Streams -> SUBSET Builds]
    BY DEF Follows
  <1> QED
    BY <1>1 DEF StreamInv, Follows, Channel

LEMMA BroadcastKeeps ==
    ASSUME StreamInv, entries \in Seq(Entry), entries' \in Seq(Entry),
           NEW e \in Entry, Broadcast(e),
           \A k \in 1 .. Len(entries') :
              \/ entries'[k] = e
              \/ /\ entries'[k].id # e.id
                 /\ \E j \in 1 .. Len(entries) : entries'[k] = entries[j]
    PROVE  StreamInv'
  <1>1. PICK list : list = entries'
    OBVIOUS
  <1>2. /\ list \in Seq(Entry)
        /\ \A k \in 1 .. Len(list) :
              \/ list[k] = e
              \/ list[k].id # e.id /\ \E j \in 1 .. Len(entries) : list[k] = entries[j]
    BY <1>1
  <1>3. PICK stream2 : stream2 = stream'
    OBVIOUS
  <1>4. PICK sent2 : sent2 = sent'
    OBVIOUS
  <1>5. PICK seen2 : seen2 = seen'
    OBVIOUS
  <1>6. ASSUME NEW s \in Streams
        PROVE  Follows(stream2[s], seen2[s], sent2[s], list)
    <2>1. PICK c : c = stream[s]
      OBVIOUS
    <2>2. PICK told : told = seen[s]
      OBVIOUS
    <2>3. PICK news : news = sent[s]
      OBVIOUS
    <2>4. Follows(c, told, news, entries)
      BY <2>1, <2>2, <2>3, StreamsFollow
    <2>5. /\ stream2[s] = IF c.open /\ Len(c.queue) < Buffer
                          THEN [c EXCEPT !.queue = Append(@, e)] ELSE c
          /\ sent2[s] = IF ~c.open THEN news
                        ELSE IF Len(c.queue) < Buffer THEN news \cup {e.id} ELSE news \ {e.id}
          /\ seen2[s] = IF c.open /\ Len(c.queue) = Buffer
                        THEN [told EXCEPT ![e.id] = NoEntry] ELSE told
      BY <1>3, <1>4, <1>5, <2>1, <2>2, <2>3 DEF Broadcast
    <2>6. /\ Len(c.queue) \in Nat /\ Buffer \in Nat /\ c.queue \in Seq(Entry) /\ c \in Channel
          /\ c.open \in BOOLEAN /\ news \in SUBSET Builds /\ e.id \in Builds
          /\ Len(c.queue) <= Buffer /\ told \in [Builds -> Entry \cup {NoEntry}]
      BY <2>4, EntryFacts, BuildTrackerAssumption DEF Follows, Channel
    <2>7. CASE c.open /\ Len(c.queue) < Buffer
      <3>1. PICK queue : queue = Append(c.queue, e)
        OBVIOUS
      <3>2. PICK d : d = [c EXCEPT !.queue = queue]
        OBVIOUS
      <3>3. /\ queue \in Seq(Entry) /\ Len(queue) = Len(c.queue) + 1 /\ Knows(queue, told, e)
            /\ \A x \in Entry : x.id # e.id /\ Knows(c.queue, told, x) => Knows(queue, told, x)
        <4>1. PICK old : old = c.queue
          OBVIOUS
        <4>2. old \in Seq(Entry) /\ queue = Append(old, e)
          BY <2>6, <3>1, <4>1
        <4>3. /\ queue \in Seq(Entry) /\ Len(queue) = Len(old) + 1 /\ Knows(queue, told, e)
              /\ \A x \in Entry : x.id # e.id /\ Knows(old, told, x) => Knows(queue, told, x)
          BY <4>2, SendingTells
        <4> QED
          BY <4>1, <4>3
      <3>4. d \in Channel /\ d.queue = queue /\ d.open = c.open
        BY <2>6, <3>2, <3>3 DEF Channel
      <3>5. stream2[s] = d /\ sent2[s] = news \cup {e.id} /\ seen2[s] = told
        BY <2>5, <2>6, <2>7, <3>1, <3>2
      <3>6. ASSUME NEW k \in 1 .. Len(list), list[k].id \in news \cup {e.id}
            PROVE  Knows(queue, told, list[k])
        <4>1. CASE list[k] = e
          BY <3>3, <4>1
        <4>2. CASE list[k].id # e.id /\ \E j \in 1 .. Len(entries) : list[k] = entries[j]
          <5>1. Knows(c.queue, told, list[k])
            BY <2>4, <3>6, <4>2 DEF Follows
          <5>2. list[k] \in Entry
            BY <1>2
          <5> QED
            BY <3>3, <4>2, <5>1, <5>2
        <4> QED
          BY <1>2, <4>1, <4>2
      <3>7. Len(queue) <= Buffer
        BY <2>6, <2>7, <3>3
      <3>8. Follows(d, told, news \cup {e.id}, list)
        BY <2>6, <2>7, <3>4, <3>6, <3>7 DEF Follows
      <3> QED
        BY <3>5, <3>8
    <2>8. CASE c.open /\ Len(c.queue) = Buffer
      <3>1. PICK less : less = [told EXCEPT ![e.id] = NoEntry]
        OBVIOUS
      <3>2. /\ less \in [Builds -> Entry \cup {NoEntry}]
            /\ \A b \in Builds : b # e.id => less[b] = told[b]
        BY <2>6, <3>1
      <3>3. stream2[s] = c /\ sent2[s] = news \ {e.id} /\ seen2[s] = less
        BY <2>5, <2>6, <2>8, <3>1
      <3>4. ASSUME NEW k \in 1 .. Len(list), list[k].id \in news \ {e.id}
            PROVE  Knows(c.queue, less, list[k])
        <4>1. Knows(c.queue, told, list[k])
          BY <1>2, <2>4, <3>4 DEF Follows
        <4>2. less[list[k].id] = told[list[k].id]
          BY <2>6, <3>2, <3>4
        <4> QED
          BY <4>1, <4>2 DEF Knows
      <3>5. Follows(c, less, news \ {e.id}, list)
        BY <2>4, <2>6, <2>8, <3>2, <3>4 DEF Follows
      <3> QED
        BY <3>3, <3>5
    <2>9. CASE ~c.open
      <3>1. stream2[s] = c /\ sent2[s] = news /\ seen2[s] = told /\ news = {}
        BY <2>4, <2>5, <2>9 DEF Follows
      <3> QED
        BY <2>4, <3>1 DEF Follows
    <2> QED
      BY <2>6, <2>7, <2>8, <2>9
  <1>7. /\ stream2 = [s \in Streams |-> stream2[s]] /\ sent2 = [s \in Streams |-> sent2[s]]
        /\ seen2 = [s \in Streams |-> seen2[s]]
    BY <1>3, <1>4, <1>5 DEF Broadcast
  <1> QED
    BY <1>1, <1>3, <1>4, <1>5, <1>6, <1>7, FollowersMakeInv

LEMMA QuietSteps ==
    ASSUME StreamInv, UNCHANGED streamVars, From(entries', entries)
    PROVE  StreamInv'
  <1>1. UNCHANGED <<stream, seen, sent>>
    BY DEF streamVars
  <1>2. PICK list : list = entries'
    OBVIOUS
  <1>3. \A s \in Streams : Follows(stream[s], seen[s], sent[s], list)
    <2> TAKE s \in Streams
    <2>1. Follows(stream[s], seen[s], sent[s], entries)
      BY StreamsFollow
    <2> QED
      BY <1>2, <2>1 DEF Follows, From
  <1>4. /\ stream = [s \in Streams |-> stream[s]] /\ seen = [s \in Streams |-> seen[s]]
        /\ sent = [s \in Streams |-> sent[s]]
    BY DEF StreamInv
  <1> QED
    BY <1>1, <1>2, <1>3, <1>4, FollowersMakeInv

\* One client's step leaves the others' channels.
LEMMA ClientSteps ==
    ASSUME StreamInv, UNCHANGED entries, NEW s \in Streams, NEW c, NEW told, NEW news,
           stream' = [stream EXCEPT ![s] = c], seen' = [seen EXCEPT ![s] = told],
           sent' = [sent EXCEPT ![s] = news], Follows(c, told, news, entries)
    PROVE  StreamInv'
  <1>1. PICK stream2 : stream2 = stream'
    OBVIOUS
  <1>2. PICK seen2 : seen2 = seen'
    OBVIOUS
  <1>3. PICK sent2 : sent2 = sent'
    OBVIOUS
  <1>4. /\ stream2 = [r \in Streams |-> stream2[r]] /\ seen2 = [r \in Streams |-> seen2[r]]
        /\ sent2 = [r \in Streams |-> sent2[r]]
        /\ stream2[s] = c /\ seen2[s] = told /\ sent2[s] = news
        /\ \A r \in Streams : r # s => /\ stream2[r] = stream[r] /\ seen2[r] = seen[r]
                                       /\ sent2[r] = sent[r]
    BY <1>1, <1>2, <1>3 DEF StreamInv
  <1>5. \A r \in Streams : Follows(stream2[r], seen2[r], sent2[r], entries')
    <2> TAKE r \in Streams
    <2>1. CASE r = s
      BY <1>4, <2>1
    <2>2. CASE r # s
      BY <1>4, <2>2, StreamsFollow
    <2> QED
      BY <2>1, <2>2
  <1> QED
    BY <1>1, <1>2, <1>3, <1>4, <1>5, FollowersMakeInv

LEMMA SubscribeKeeps ==
    ASSUME TrackerInv, StreamInv, NEW s \in Streams, Subscribe(s)
    PROVE  StreamInv'
  <1>1. Follows(stream[s], seen[s], sent[s], entries) /\ ~stream[s].open
    BY StreamsFollow DEF Subscribe
  <1>2. PICK old : old = stream[s]
    OBVIOUS
  <1>3. /\ old \in Channel /\ old.queue = <<>> /\ Len(old.queue) <= Buffer
    BY <1>1, <1>2 DEF Follows
  <1>4. PICK c : c = [old EXCEPT !.open = TRUE]
    OBVIOUS
  <1>5. c \in Channel /\ c.open = TRUE /\ c.queue = old.queue
    BY <1>3, <1>4 DEF Channel
  <1>6. PICK told : told = seen[s]
    OBVIOUS
  <1>7. Follows(c, told, sent[s], entries)
    BY <1>1, <1>2, <1>3, <1>5, <1>6 DEF Follows
  <1>8. stream' = [stream EXCEPT ![s] = c] /\ UNCHANGED <<entries, seen, sent>>
    BY <1>2, <1>4 DEF Subscribe, trackerVars
  <1>9. seen' = [seen EXCEPT ![s] = told] /\ sent' = [sent EXCEPT ![s] = sent[s]]
    BY <1>6, <1>8 DEF StreamInv
  <1> QED
    BY <1>7, <1>8, <1>9, ClientSteps

LEMMA ReceiveKeeps ==
    ASSUME TrackerInv, StreamInv, NEW s \in Streams, Receive(s)
    PROVE  StreamInv'
  <1>1. Follows(stream[s], seen[s], sent[s], entries)
    BY StreamsFollow
  <1>2. PICK old : old = stream[s]
    OBVIOUS
  <1>3. PICK queue : queue = old.queue
    OBVIOUS
  <1>4. PICK heard : heard = seen[s]
    OBVIOUS
  <1>5. PICK news : news = sent[s]
    OBVIOUS
  <1>6. Follows(old, heard, news, entries)
    BY <1>1, <1>2, <1>4, <1>5
  <1>7. /\ old \in Channel /\ queue \in Seq(Entry) /\ queue # <<>> /\ Len(queue) <= Buffer
        /\ heard \in [Builds -> Entry \cup {NoEntry}] /\ news \in SUBSET Builds
    BY <1>2, <1>3, <1>6 DEF Receive, Follows, Channel
  <1>8. PICK e : e = Head(queue)
    OBVIOUS
  <1>9. PICK rest : rest = Tail(queue)
    OBVIOUS
  <1>10. PICK then : then = [heard EXCEPT ![e.id] = e]
    OBVIOUS
  <1>11. /\ rest \in Seq(Entry) /\ Len(rest) = Len(queue) - 1
         /\ then \in [Builds -> Entry \cup {NoEntry}]
         /\ \A x \in Entry : Knows(queue, heard, x) => Knows(rest, then, x)
    BY <1>7, <1>8, <1>9, <1>10, ReceivingTells
  <1>12. PICK told : told = IF e.id \in news THEN then ELSE heard
    OBVIOUS
  <1>13. /\ told \in [Builds -> Entry \cup {NoEntry}]
         /\ \A x \in Entry : x.id \in news /\ Knows(queue, heard, x) => Knows(rest, told, x)
    <2>1. CASE e.id \in news
      BY <1>11, <1>12, <2>1
    <2>2. CASE e.id \notin news
      <3>1. \A x \in Entry : x.id \in news => then[x.id] = heard[x.id]
        BY <1>7, <1>10, <2>2
      <3> QED
        BY <1>7, <1>11, <1>12, <2>2, <3>1 DEF Knows
    <2> QED
      BY <2>1, <2>2
  <1>14. PICK c : c = [old EXCEPT !.queue = rest]
    OBVIOUS
  <1>15. c \in Channel /\ c.queue = rest /\ c.open = old.open
    BY <1>7, <1>11, <1>14 DEF Channel
  <1>16. Len(rest) <= Buffer
    BY <1>7, <1>11, BuildTrackerAssumption
  <1>17. old.open
    BY <1>3, <1>6, <1>7 DEF Follows
  <1>18. \A k \in 1 .. Len(entries) : entries[k] \in Entry
    BY DEF TrackerInv
  <1>19. Follows(c, told, news, entries)
    BY <1>3, <1>6, <1>7, <1>11, <1>13, <1>15, <1>16, <1>17, <1>18 DEF Follows
  <1>20. stream' = [stream EXCEPT ![s] = c] /\ UNCHANGED <<entries, sent>>
    BY <1>2, <1>3, <1>9, <1>14 DEF Receive, trackerVars
  <1>21. seen' = [seen EXCEPT ![s] = told]
    <2>1. seen' = IF e.id \in news THEN [seen EXCEPT ![s][e.id] = e] ELSE seen
      BY <1>2, <1>3, <1>5, <1>8 DEF Receive
    <2>2. CASE e.id \in news
      BY <1>4, <1>10, <1>12, <2>1, <2>2
    <2>3. CASE e.id \notin news
      BY <1>4, <1>12, <2>1, <2>3 DEF StreamInv
    <2> QED
      BY <2>2, <2>3
  <1>22. sent' = [sent EXCEPT ![s] = news]
    BY <1>5, <1>20 DEF StreamInv
  <1> QED
    BY <1>19, <1>20, <1>21, <1>22, ClientSteps

LEMMA CancelKeeps ==
    ASSUME StreamInv, NEW s \in Streams, Cancel(s)
    PROVE  StreamInv'
  <1>1. PICK c : c = [open |-> FALSE, queue |-> <<>>]
    OBVIOUS
  <1>2. PICK told : told = [b \in Builds |-> NoEntry]
    OBVIOUS
  <1>3. c \in Channel /\ c.open = FALSE /\ c.queue = <<>> /\ Len(c.queue) <= Buffer
    BY <1>1, EmptySeq, BuildTrackerAssumption DEF Channel
  <1>4. told \in [Builds -> Entry \cup {NoEntry}]
    BY <1>2
  <1>5. Follows(c, told, {}, entries)
    BY <1>3, <1>4 DEF Follows
  <1>6. /\ stream' = [stream EXCEPT ![s] = c] /\ seen' = [seen EXCEPT ![s] = told]
        /\ sent' = [sent EXCEPT ![s] = {}] /\ UNCHANGED entries
    BY <1>1, <1>2 DEF Cancel, trackerVars
  <1> QED
    BY <1>5, <1>6, ClientSteps

--------------------------------------------------------------------------------
(* The invariant is inductive *)

LEMMA InitInv == Init => Inv
  <1> SUFFICES ASSUME Init
               PROVE  Inv
    OBVIOUS
  <1>1. PICK none : none = <<>>
    OBVIOUS
  <1>2. /\ none \in Seq(Entry) /\ none \in Seq(Builds) /\ Len(none) = 0
        /\ RebuildIndex(none) = [b \in {} |-> 0]
    BY <1>1 DEF RebuildIndex, Ids
  <1>3. entries = none /\ added = none /\ index = RebuildIndex(none) /\ now = 0
    BY <1>1, <1>2 DEF Init
  <1>4. build \in [Builds -> BuildState] /\ now \in Times
    BY BuildTrackerAssumption DEF Init, BuildState, Phases, Statuses, Times
  <1>5. \A b \in Builds : build[b].status = "running" /\ build[b].finished = Unset
    BY DEF Init
  <1>6. StreamInv
    <2>1. PICK c : c = [open |-> FALSE, queue |-> <<>>]
      OBVIOUS
    <2>2. /\ c \in [open : BOOLEAN, queue : Seq(Entry)] /\ c.open = FALSE
          /\ c.queue = <<>> /\ Len(c.queue) <= Buffer
      BY <2>1, EmptySeq, BuildTrackerAssumption
    <2>3. stream = [s \in Streams |-> c]
      BY <2>1 DEF Init
    <2>4. seen \in [Streams -> [Builds -> Entry \cup {NoEntry}]] /\ sent \in [Streams -> SUBSET Builds]
      BY DEF Init
    <2>5. sent = [s \in Streams |-> {}]
      BY DEF Init
    <2>6. stream \in [Streams -> [open : BOOLEAN, queue : Seq(Entry)]]
      BY <2>2, <2>3
    <2>7. \A s \in Streams : stream[s] = c /\ sent[s] = {}
      BY <2>3, <2>5
    <2> QED
      BY <2>2, <2>4, <2>6, <2>7 DEF StreamInv
  <1> HIDE <1>1
  <1>7. \A k \in 1 .. Len(none) : FALSE
    BY <1>2
  <1>8. Account(none, build, none, now)
    BY <1>7 DEF Account, Unique, Tells, Ranked, HoldsRecent, Among
  <1>9. Len(none) <= Limit /\ \A b \in Builds : ~Lists(b, none)
    BY <1>2, <1>7, BuildTrackerAssumption DEF Lists
  <1>10. TrackerInv
    BY <1>2, <1>3, <1>4, <1>5, <1>7, <1>8, <1>9 DEF TrackerInv
  <1> QED
    BY <1>6, <1>10 DEF Inv

LEMMA NextKeepsInv == Inv /\ [Next]_vars => Inv'
  <1> SUFFICES ASSUME Inv, [Next]_vars
               PROVE  Inv'
    OBVIOUS
  <1>1. TrackerInv /\ StreamInv /\ entries \in Seq(Entry)
    BY DEF Inv, TrackerInv
  <1>2. ASSUME NEW b \in Builds, Parse(b)
        PROVE  Inv'
    <2>1. UNCHANGED entries /\ UNCHANGED streamVars
      BY <1>2 DEF Parse, trackerVars
    <2>2. From(entries', entries)
      BY <2>1 DEF From
    <2> QED
      BY <1>1, <1>2, <2>1, <2>2, ParseKeeps, QuietSteps DEF Inv
  <1>3. ASSUME NEW b \in Builds, Track(b)
        PROVE  Inv'
    <2>1. PICK e : e = NewEntry(b)
      OBVIOUS
    <2>2. /\ TrackerInv' /\ From(entries', <<e>> \o entries) /\ e \in Entry
          /\ ~Lists(b, entries)
      BY <1>1, <1>3, <2>1, TrackKeeps
    <2>3. e.id = b /\ Broadcast(e)
      BY <1>3, <2>1 DEF NewEntry, Track, Add
    <2>4. PICK list : list = entries'
      OBVIOUS
    <2>5. list \in Seq(Entry)
      BY <2>2, <2>4 DEF TrackerInv
    <2>6. ASSUME NEW k \in 1 .. Len(list)
          PROVE  \/ list[k] = e
                 \/ list[k].id # e.id /\ \E j \in 1 .. Len(entries) : list[k] = entries[j]
      <3>1. PICK all : all = <<e>> \o entries
        OBVIOUS
      <3>2. /\ all[1] = e /\ Len(all) = Len(entries) + 1 /\ Len(entries) \in Nat
            /\ \A j \in 2 .. Len(all) : j - 1 \in 1 .. Len(entries) /\ all[j] = entries[j - 1]
        BY <1>1, <2>2, <3>1
      <3>3. PICK j \in 1 .. Len(all) : list[k] = all[j]
        BY <2>2, <2>4, <3>1 DEF From
      <3>4. CASE j = 1
        BY <3>2, <3>3, <3>4
      <3>5. CASE j \in 2 .. Len(all)
        <4>1. list[k] = entries[j - 1] /\ j - 1 \in 1 .. Len(entries)
          BY <3>2, <3>3, <3>5
        <4>2. list[k].id # b
          BY <2>2, <4>1 DEF Lists
        <4> QED
          BY <2>3, <4>1, <4>2
      <3> QED
        BY <3>2, <3>4, <3>5
    <2>7. StreamInv'
      BY <1>1, <2>2, <2>3, <2>4, <2>5, <2>6, BroadcastKeeps
    <2> QED
      BY <2>2, <2>7 DEF Inv
  <1>4. ASSUME NEW b \in Builds, Prepare(b) \/ End(b)
        PROVE  Inv'
    <2>1. PICK q \in BuildState :
              /\ build[b].phase \in {"preparing", "building"}
              /\ q.started = build[b].started /\ (q.finished = Unset \/ q.late = Late(b))
              /\ q.phase \in {"building", "ended"}
              /\ q.phase # "ended" => q.status = "running" /\ q.finished = Unset
              /\ Update(b, q.status, q.finished) /\ build' = [build EXCEPT ![b] = q]
              /\ UNCHANGED <<now, added>>
      BY <1>1, <1>4, HandlerUpdates
    <2>2. PICK e : e = Updated(b, q.status, q.finished)
      OBVIOUS
    <2>3. /\ TrackerInv'
          /\ b \notin DOMAIN index => entries' = entries /\ ~Lists(b, entries)
          /\ b \in DOMAIN index =>
                /\ e \in Entry /\ e.id = b
                /\ \A k \in 1 .. Len(entries') :
                      \/ entries'[k] = e
                      \/ /\ entries'[k].id # b
                         /\ \E j \in 1 .. Len(entries) : entries'[k] = entries[j]
      BY <1>1, <2>1, <2>2, UpdateKeeps
    <2>4. PICK list : list = entries'
      OBVIOUS
    <2>5. list \in Seq(Entry)
      BY <2>3, <2>4 DEF TrackerInv
    <2>6. CASE b \notin DOMAIN index
      <3>1. UNCHANGED <<entries, streamVars>>
        BY <2>1, <2>6 DEF Update, trackerVars
      <3>2. From(entries', entries)
        BY <3>1 DEF From
      <3> QED
        BY <1>1, <2>3, <3>1, <3>2, QuietSteps DEF Inv
    <2>7. CASE b \in DOMAIN index
      <3>1. \/ Broadcast(e)
            \/ b \notin Ids(list) /\ UNCHANGED streamVars
        BY <2>1, <2>2, <2>4, <2>7 DEF Update, Holds
      <3>2. CASE Broadcast(e)
        <4>1. StreamInv'
          BY <1>1, <2>3, <2>4, <2>5, <2>7, <3>2, BroadcastKeeps
        <4> QED
          BY <2>3, <4>1 DEF Inv
      <3>3. CASE b \notin Ids(list) /\ UNCHANGED streamVars
        <4>1. \A k \in 1 .. Len(list) : list[k].id # b
          BY <2>5, <3>3 DEF Ids
        <4>2. From(list, entries)
          BY <2>3, <2>4, <2>7, <4>1 DEF From
        <4> QED
          BY <1>1, <2>3, <2>4, <3>3, <4>2, QuietSteps DEF Inv
      <3> QED
        BY <3>1, <3>2, <3>3
    <2> QED
      BY <2>6, <2>7
  <1>5. CASE List
    <2>1. UNCHANGED streamVars
      BY <1>5 DEF List
    <2> QED
      BY <1>1, <1>5, <2>1, ListKeeps, QuietSteps DEF Inv
  <1>6. CASE Clear
    <2>1. UNCHANGED streamVars
      BY <1>6 DEF Clear
    <2> QED
      BY <1>1, <1>6, <2>1, ClearKeeps, QuietSteps DEF Inv
  <1>7. ASSUME NEW s \in Streams, Subscribe(s) \/ Receive(s) \/ Cancel(s)
        PROVE  Inv'
    <2>1. StreamInv'
      BY <1>1, <1>7, SubscribeKeeps, ReceiveKeeps, CancelKeeps
    <2>2. UNCHANGED <<entries, index, now, build, added>>
      BY <1>7 DEF Subscribe, Receive, Cancel, trackerVars
    <2>3. TrackerInv'
      BY <1>1, <2>2 DEF TrackerInv
    <2> QED
      BY <2>1, <2>3 DEF Inv
  <1>8. CASE Tick
    <2>1. UNCHANGED entries /\ UNCHANGED streamVars
      BY <1>8 DEF Tick, trackerVars
    <2>2. From(entries', entries)
      BY <2>1 DEF From
    <2> QED
      BY <1>1, <1>8, <2>1, <2>2, TickKeeps, QuietSteps DEF Inv
  <1>9. CASE UNCHANGED vars
    <2>1. UNCHANGED <<entries, index, now, build, added>> /\ UNCHANGED streamVars
      BY <1>9 DEF vars
    <2>2. From(entries', entries)
      BY <2>1 DEF From
    <2>3. TrackerInv'
      BY <1>1, <2>1 DEF TrackerInv
    <2> QED
      BY <1>1, <2>1, <2>2, <2>3, QuietSteps DEF Inv
  <1> QED
    BY <1>2, <1>3, <1>4, <1>5, <1>6, <1>7, <1>8, <1>9 DEF Next, HandleBuildFunction

\* In every reachable state the history accounts for the builds, and the clients follow it.
THEOREM TrackerInvariance == Spec => []Inv
  <1> QED
    BY InitInv, NextKeepsInv, PTL DEF Spec

--------------------------------------------------------------------------------
(* What follows *)

\* The history and the index are what their types say, the history never exceeds the limit,
\* nor a channel its buffer (build_tracker.go, trimLocked and broadcastLocked).
THEOREM TrackerTypesCorrect == Spec => []BuildTrackerTypeOK
  <1>1. Inv => BuildTrackerTypeOK
    <2> SUFFICES ASSUME Inv
                 PROVE  BuildTrackerTypeOK
      OBVIOUS
    <2>1. TrackerInv /\ StreamInv /\ Finds(index, entries)
      BY IndexFacts DEF Inv
    <2>2. entries \in Seq(Entry) /\ index = RebuildIndex(entries)
      BY <2>1 DEF TrackerInv
    <2>3. index = [b \in DOMAIN index |-> index[b]]
      BY <2>2 DEF RebuildIndex
    <2>4. ASSUME NEW b \in DOMAIN index
          PROVE  index[b] \in Nat
      <3>1. index[b] \in 1 .. Len(entries)
        BY <2>1 DEF Finds
      <3> QED
        BY <3>1
    <2>5. index \in [DOMAIN index -> Nat]
      BY <2>3, <2>4
    <2>6. DOMAIN index \subseteq Builds
      BY <2>1 DEF Finds
    <2> QED
      BY <2>1, <2>5, <2>6 DEF BuildTrackerTypeOK, TrackerInv, StreamInv, BuildState
  <1> QED
    BY <1>1, TrackerInvariance, PTL

\* However adding, expiring, trimming and clearing follow each other, the index finds
\* every entry at its place and no other: Update and Get use the entry they mean.
THEOREM IndexStaysExact == Spec => []IndexIsExact
  <1>1. Inv => IndexIsExact
    <2> SUFFICES ASSUME Inv
                 PROVE  IndexIsExact
      OBVIOUS
    <2>1. entries \in Seq(Entry) /\ index = RebuildIndex(entries) /\ Finds(index, entries)
      BY IndexFacts DEF Inv, TrackerInv
    <2>2. DOMAIN entries = 1 .. Len(entries)
      BY <2>1
    <2> QED
      BY <2>1, <2>2 DEF IndexIsExact, Finds
  <1> QED
    BY <1>1, TrackerInvariance, PTL

\* An entry's status and times are its build's own, from the request to its end.
THEOREM HistoryIsTrue == Spec => []HistoryTellsOutcome
  <1>1. Inv => HistoryTellsOutcome
    <2> SUFFICES ASSUME Inv
                 PROVE  HistoryTellsOutcome
      OBVIOUS
    <2>1. entries \in Seq(Entry) /\ Tells(entries, build)
      BY DEF Inv, TrackerInv, Account
    <2>2. DOMAIN entries = 1 .. Len(entries)
      BY <2>1
    <2> QED
      BY <2>1, <2>2 DEF HistoryTellsOutcome, Tells
  <1> QED
    BY <1>1, TrackerInvariance, PTL

\* Pruning and trimming never take a build that ended within the retention time and is one
\* of the last Limit, whatever other builds and readers do.
THEOREM RecentBuildsStay == Spec => []RecentBuildsAreListed
  <1>1. Inv => RecentBuildsAreListed
    <2> SUFFICES ASSUME Inv, NEW b \in Builds,
                        build[b].phase = "ended", Recent(b),
                        build[b].finished > now - Retention, ~build[b].late
                 PROVE  b \in Ids(entries)
      BY DEF RecentBuildsAreListed
    <2>1. /\ entries \in Seq(Entry) /\ added \in Seq(Builds) /\ build \in [Builds -> BuildState]
          /\ now \in Times /\ HoldsRecent(entries, build, added, now)
      BY DEF Inv, TrackerInv, Account
    <2>2. Among(b, added)
      <3>1. DOMAIN added = 1 .. Len(added)
        BY <2>1
      <3> QED
        BY <3>1 DEF Recent, Among
    <2>3. /\ build[b].started \in Int /\ build[b].finished \in Int /\ now \in Int
          /\ Retention \in Int
      BY <2>1, StateFacts, BuildTrackerAssumption DEF Times
    <2>4. build[b].started \in Times
      BY <2>1 DEF BuildState
    <2>5. ~Expired(build[b], now)
      BY <2>3, <2>4, BuildTrackerAssumption DEF Expired, Unset, Times
    <2>6. Lists(b, entries)
      BY <2>1, <2>2, <2>5 DEF HoldsRecent
    <2>7. DOMAIN entries = 1 .. Len(entries)
      BY <2>1
    <2> QED
      BY <2>6, <2>7 DEF Lists, Ids
  <1> QED
    BY <1>1, TrackerInvariance, PTL

\* A client that has emptied its channel has been told of every entry as it is whose latest
\* change since it subscribed its channel had room for (broadcastLocked drops the others and
\* Subscribe sends nothing of what there is): no step that changes an entry passes the
\* streams by, and none is told out of order.
THEOREM StreamsTellAll == Spec => []StreamsCatchUp
  <1>1. Inv => StreamsCatchUp
    <2> SUFFICES ASSUME Inv, NEW s \in Streams, stream[s].open, stream[s].queue = <<>>,
                        NEW k \in DOMAIN entries, entries[k].id \in sent[s]
                 PROVE  seen[s][entries[k].id] = entries[k]
      BY DEF StreamsCatchUp
    <2>1. k \in 1 .. Len(entries)
      BY DEF Inv, TrackerInv
    <2>2. Knows(stream[s].queue, seen[s], entries[k])
      BY <2>1 DEF Inv, StreamInv
    <2>3. PICK queue : queue = stream[s].queue
      OBVIOUS
    <2>4. \A i \in 1 .. Len(queue) : FALSE
      BY <2>3
    <2> QED
      BY <2>2, <2>3, <2>4 DEF Knows
  <1> QED
    BY <1>1, TrackerInvariance, PTL
================================================================================
