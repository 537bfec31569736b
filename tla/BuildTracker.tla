------------------------------- MODULE BuildTracker -------------------------------
(***************************************************************************)
(* The history of builds (pkg/gateway/build_tracker.go) with its users:    *)
(* the build handlers that add an entry and update it as they go, the      *)
(* handlers that list, fetch and clear entries, and the event streams.     *)
(*                                                                         *)
(* Every method holds the tracker's mutex from its first to its last       *)
(* line, so a method call is one step; builds and streams interleave       *)
(* between calls, and time passes.  A build's entry is added after its     *)
(* start time was taken, may have expired before the build finishes, and   *)
(* is updated after the finish time was taken.                             *)
(*                                                                         *)
(* A stream tells its client what changes from the subscription on; what   *)
(* the history holds then the client learns from a request of its own, if  *)
(* at all, and an update between the two is in neither.                    *)
(***************************************************************************)
EXTENDS Integers, Sequences

CONSTANTS Builds,        \* build ids; every build request gets one of its own
          Streams,       \* clients of GET /system/builds/stream
          NoEntry,
          Limit,         \* BUILD_HISTORY_LIMIT
          Retention,     \* BUILD_HISTORY_RETENTION, 0 for ever
          Buffer,        \* capacity of a stream's channel
          MaxTime        \* bound on the clock

ASSUME BuildTrackerAssumption ==
    /\ Limit \in Nat \ {0} /\ Buffer \in Nat \ {0}
    /\ Retention \in Nat /\ MaxTime \in Nat

VARIABLES entries,       \* newest first
          index,         \* id -> position in entries
          now,
          build,         \* what each build's handler is doing
          stream,        \* subs: each client's channel
          added,         \* history: the ids added since the last Clear
          sent, seen     \* history: the builds whose latest change since a client
                         \* subscribed its channel had room for, and what the
                         \* client was told of them last

trackerVars == <<entries, index>>
streamVars  == <<stream, sent, seen>>
vars == <<entries, index, now, build, added, streamVars>>

Times    == 0 .. MaxTime
Unset    == -1
Statuses == {"running", "failed", "success"}
Phases   == {"new", "parsed", "preparing", "building", "ended"}

Entry == [id : Builds, status : Statuses, started : Times, finished : Times \cup {Unset}]

\* A build: what its handler does, the times it read and the outcome it recorded, and
\* (history) whether by then the retention time had passed since the start.
BuildState == [phase : Phases, status : Statuses, started : Times,
               finished : Times \cup {Unset}, late : BOOLEAN]

BuildTrackerTypeOK ==
    /\ entries \in Seq(Entry) /\ Len(entries) <= Limit
    /\ index \in [DOMAIN index -> Nat] /\ DOMAIN index \subseteq Builds
    /\ now \in Times
    /\ build \in [Builds -> BuildState]
    /\ \A s \in Streams : Len(stream[s].queue) <= Buffer

Init ==
    /\ entries = <<>> /\ index = [b \in {} |-> 0] /\ now = 0 /\ added = <<>>
    /\ build = [b \in Builds |-> [phase |-> "new", status |-> "running", started |-> 0,
                                  finished |-> Unset, late |-> FALSE]]
    /\ stream = [s \in Streams |-> [open |-> FALSE, queue |-> <<>>]]
    /\ sent = [s \in Streams |-> {}]
    /\ seen = [s \in Streams |-> [b \in Builds |-> NoEntry]]

--------------------------------------------------------------------------------
(* What the methods do under the lock *)

Ids(list) == {list[k].id : k \in DOMAIN list}

\* rebuildIndexLocked
RebuildIndex(list) == [b \in Ids(list) |-> CHOOSE k \in DOMAIN list : list[k].id = b]

Timestamp(e) == IF e.finished = Unset THEN e.started ELSE e.finished

Fresh(e) == Retention = 0 \/ Timestamp(e) > now - Retention

\* Mutant of Prune: entries expire by the time they were started.
PruneByStart(list) == SelectSeq(list, LAMBDA e : Retention = 0 \/ e.started > now - Retention)

\* pruneLocked: running entries expire, too.
Prune(list) ==
    LET kept[k \in 0 .. Len(list)] ==
           IF k = 0 THEN <<>>
           ELSE IF Fresh(list[k]) THEN Append(kept[k - 1], list[k]) ELSE kept[k - 1]
    IN  kept[Len(list)]

Trim(list) == SubSeq(list, 1, IF Len(list) <= Limit THEN Len(list) ELSE Limit)

Holds(list) == entries' = list /\ index' = RebuildIndex(list)

\* broadcastLocked: a full channel drops the entry.
Broadcast(e) ==
    /\ stream' = [s \in Streams |->
          IF stream[s].open /\ Len(stream[s].queue) < Buffer
          THEN [stream[s] EXCEPT !.queue = Append(@, e)] ELSE stream[s]]
    /\ sent' = [s \in Streams |->
          IF ~stream[s].open THEN sent[s]
          ELSE IF Len(stream[s].queue) < Buffer THEN sent[s] \cup {e.id}
          ELSE sent[s] \ {e.id}]
    /\ seen' = [s \in Streams |->
          IF stream[s].open /\ Len(stream[s].queue) = Buffer
          THEN [seen[s] EXCEPT ![e.id] = NoEntry] ELSE seen[s]]

NewEntry(b) == [id |-> b, status |-> "running", started |-> build[b].started, finished |-> Unset]

\* Mutants of Add: the limit is forgotten; trimLocked does not rebuild the index.
AddUntrimmed(b) ==
    Holds(<<NewEntry(b)>> \o Prune(entries)) /\ Broadcast(NewEntry(b)) /\ added' = Append(added, b)
AddUnindexed(b) ==
    LET list == <<NewEntry(b)>> \o Prune(entries)
    IN  /\ entries' = Trim(list) /\ index' = RebuildIndex(list)
        /\ Broadcast(NewEntry(b))
        /\ added' = Append(added, b)

Add(b) ==
    /\ Holds(Trim(<<NewEntry(b)>> \o Prune(entries)))
    /\ Broadcast(NewEntry(b))
    /\ added' = Append(added, b)

\* The entry of b as Update leaves it.
Updated(b, status, finished) ==
    [entries[index[b]] EXCEPT !.status = status, !.finished = finished]

\* Mutants of Update: it prunes between the look-up and the write; it broadcasts the
\* entry it found.
UpdatePrunesFirst(b, status, finished) ==
    IF b \notin DOMAIN index THEN UNCHANGED <<trackerVars, streamVars>>
    ELSE LET kept == Prune(entries)
             list == [k \in DOMAIN kept |->
                         IF k = index[b] THEN Updated(b, status, finished) ELSE kept[k]]
         IN  /\ Holds(list)
             /\ IF b \in Ids(list) THEN Broadcast(Updated(b, status, finished))
                ELSE UNCHANGED streamVars
UpdateSendsOld(b, status, finished) ==
    IF b \notin DOMAIN index THEN UNCHANGED <<trackerVars, streamVars>>
    ELSE LET kept == Prune([entries EXCEPT ![index[b]] = Updated(b, status, finished)])
         IN  /\ Holds(kept)
             /\ IF b \in Ids(kept) THEN Broadcast(entries[index[b]]) ELSE UNCHANGED streamVars

\* Update writes, prunes, and broadcasts the entry if it is still there.
Update(b, status, finished) ==
    IF b \notin DOMAIN index THEN UNCHANGED <<trackerVars, streamVars>>
    ELSE LET kept == Prune([entries EXCEPT ![index[b]] = Updated(b, status, finished)])
         IN  /\ Holds(kept)
             /\ IF b \in Ids(kept) THEN Broadcast(Updated(b, status, finished))
                ELSE UNCHANGED streamVars

--------------------------------------------------------------------------------
(* A build, from HandleBuildFunction *)

Reach(b, phase) == build' = [build EXCEPT ![b].phase = phase]

Late(b) == now - build[b].started >= Retention

Parse(b) ==
    /\ build[b].phase = "new"
    /\ build' = [build EXCEPT ![b].phase = "parsed", ![b].started = now]
    /\ UNCHANGED <<trackerVars, now, added, streamVars>>

Track(b) ==
    /\ build[b].phase = "parsed"
    /\ Add(b)
    /\ Reach(b, "preparing")
    /\ UNCHANGED now

\* The context is prepared: the entry gets the name of the function.
Prepare(b) ==
    /\ build[b].phase = "preparing"
    /\ Update(b, "running", Unset)
    /\ Reach(b, "building")
    /\ UNCHANGED <<now, added>>

\* Preparing fails, or building or deploying fails or succeeds.  The clock was read before
\* the lock was taken (and after the build's last step, which the model does not insist on).
End(b) ==
    /\ \E status \in {"failed", "success"}, finished \in build[b].started .. now :
          /\ build[b].phase = "building" \/ (build[b].phase = "preparing" /\ status = "failed")
          /\ Update(b, status, finished)
          /\ build' = [build EXCEPT ![b] = [@ EXCEPT !.phase = "ended", !.status = status,
                                                     !.finished = finished, !.late = Late(b)]]
    /\ UNCHANGED <<now, added>>

HandleBuildFunction(b) == Parse(b) \/ Track(b) \/ Prepare(b) \/ End(b)

--------------------------------------------------------------------------------
(* Readers and streams *)

\* List prunes, and so does Get when it finds the entry.
List ==
    /\ Holds(Prune(entries))
    /\ UNCHANGED <<now, build, added, streamVars>>

Clear ==
    /\ Holds(<<>>) /\ added' = <<>>
    /\ UNCHANGED <<now, build, streamVars>>

\* A new channel, and nothing in it.
Subscribe(s) ==
    /\ ~stream[s].open
    /\ stream' = [stream EXCEPT ![s].open = TRUE]
    /\ UNCHANGED <<trackerVars, now, build, added, sent, seen>>

Receive(s) ==
    /\ stream[s].queue # <<>>
    /\ LET e == Head(stream[s].queue)
       IN  seen' = IF e.id \in sent[s] THEN [seen EXCEPT ![s][e.id] = e] ELSE seen
    /\ stream' = [stream EXCEPT ![s].queue = Tail(@)]
    /\ UNCHANGED <<trackerVars, now, build, added, sent>>

Cancel(s) ==
    /\ stream[s].open
    /\ stream' = [stream EXCEPT ![s] = [open |-> FALSE, queue |-> <<>>]]
    /\ seen' = [seen EXCEPT ![s] = [b \in Builds |-> NoEntry]]
    /\ sent' = [sent EXCEPT ![s] = {}]
    /\ UNCHANGED <<trackerVars, now, build, added>>

Tick == now < MaxTime /\ now' = now + 1 /\ UNCHANGED <<trackerVars, build, added, streamVars>>

Next ==
    \/ \E b \in Builds : HandleBuildFunction(b)
    \/ List \/ Clear
    \/ \E s \in Streams : Subscribe(s) \/ Receive(s) \/ Cancel(s)
    \/ Tick

Spec == Init /\ [][Next]_vars

--------------------------------------------------------------------------------

\* Between calls the index finds exactly the entries there are, each at its place,
\* however adding, expiring, trimming and clearing follow each other: Update and Get
\* would use another build's entry, or one out of range.
IndexIsExact == index = RebuildIndex(entries) /\ \A k \in DOMAIN entries : index[entries[k].id] = k

\* What the history says of a build is what became of it: an entry of a build that
\* ended is not left running, and none has another build's outcome or times.
HistoryTellsOutcome ==
    \A k \in DOMAIN entries :
       LET b == build[entries[k].id]
       IN  /\ entries[k].status = b.status
           /\ entries[k].started = b.started /\ entries[k].finished = b.finished

Recent(b) ==
    \E k \in DOMAIN added : added[k] = b /\ k > Len(added) - Limit

\* A build that ended within the retention time, whose end was recorded before its start
\* was that long ago, and which is one of the last Limit since the history was cleared is
\* in the history.  (A build that takes longer expires while it runs, and its outcome is
\* not recorded.)
RecentBuildsAreListed ==
    \A b \in Builds :
       /\ build[b].phase = "ended" /\ Recent(b)
       /\ build[b].finished > now - Retention
       /\ ~build[b].late
       => b \in Ids(entries)

\* A client that has emptied its channel knows every entry as it is whose latest change
\* its channel had room for, also when earlier changes of it, or all of another entry's,
\* were dropped: an update never leaves a change of the history untold that is not dropped,
\* and what is told last is how the entry is.  (A change that is dropped, or comes before
\* the subscription, the stream never tells: nothing is sent again.)
StreamsCatchUp ==
    \A s \in Streams :
       stream[s].open /\ stream[s].queue = <<>> =>
          \A k \in DOMAIN entries :
             entries[k].id \in sent[s] => seen[s][entries[k].id] = entries[k]
================================================================================
