------------------------------ MODULE SecretsProofs ------------------------------
(***************************************************************************)
(* Secrets keeps its types; clients lose what they have stored only by     *)
(* what they are told of; no creation writes a secret over; as long as     *)
(* nothing fails, the answers add up to the secrets that exist and only a  *)
(* delete makes a deployment fail: for every number of requests, names and *)
(* values, and every number of failing writes and crashes.                 *)
(*                                                                         *)
(* A handler's step is one of five turns (Turn): it creates a secret,      *)
(* replaces one, deletes one, only looks, or fails.                        *)
(***************************************************************************)
EXTENDS Secrets, SequenceTheorems, FiniteSetTheorems, TLAPS

Deploying == {"exists", "autocreate", "again", "mount"}

\* What the handler of a request at this label knows.
Flow(label, q) ==
    /\ label = "idle" <=> q.call = NoCall
    /\ label = "idle" => q.created = {}
    /\ label # "done" => q.answer = NoAnswer
    /\ label \in {"create", "update", "delete"} => q.call.op = label
    /\ label \in Deploying => q.call.op = "deploy" /\ Range(q.todo) \subseteq Range(q.call.secrets)
    /\ label \in {"autocreate", "again"} => q.todo # <<>>
    /\ label = "mount" => q.todo = <<>>
    /\ IsInjective(q.todo)
    /\ Range(q.todo) \cap q.created = {}

\* The names of its list a deployment has seen to exist, or has created.
Passed(label, q) ==
    (Range(q.call.secrets) \ Range(q.todo))
    \cup (IF label = "again" THEN {Head(q.todo)} ELSE {})

\* As long as nothing fails, only a delete takes them away again.
StillThere ==
    faults = 0 =>
       \A r \in Requests : pc[r] \in Deploying =>
          \A n \in Passed(pc[r], req[r]) : Exists(n) \/ Accepted("delete", n, 204) # {}

Inv ==
    /\ SecretsTypeOK
    /\ \A r \in Requests : Flow(pc[r], req[r])
    /\ LossIsTold

\* What a request says when it has created secret n for its client, or removed it.
Made(label, q, n) ==
    label = "done" /\ q.call.op = "create" /\ q.call.name = n /\ q.answer = 201
Removed(label, q, n) ==
    label = "done" /\ q.call.op = "delete" /\ q.call.name = n /\ q.answer = 204

--------------------------------------------------------------------------------
(* The turns of a handler that goes to label with q *)

Puts(n, content) ==
    files' = With(files, n, content) /\ Concludes(n, With(meant, n, content))

Creates(r, label, q) ==
    \E n \in Names, content \in Contents :
       /\ ~Exists(n) /\ Puts(n, content)
       /\ \/ /\ Made(label, q, n) /\ pc[r] = "create"
             /\ q.created = req[r].created
          \/ /\ label = "exists" /\ n \notin req[r].created
             /\ q.created = req[r].created \cup {n}

Replaces(r, label, q) ==
    /\ pc[r] = "update" /\ label = "done" /\ q.answer = 200 /\ q.created = req[r].created
    /\ Name(r) \in Names /\ Exists(Name(r))
    /\ \E content \in Contents : Puts(Name(r), content)

Deletes(r, label, q) ==
    /\ pc[r] = "delete" /\ Removed(label, q, Name(r)) /\ q.created = req[r].created
    /\ Name(r) \in Names /\ Exists(Name(r))
    /\ files' = Without(files, Name(r)) /\ Concludes(Name(r), Without(meant, Name(r)))

Looks(r, q) ==
    /\ q.created = req[r].created /\ q.answer \notin {200, 201, 204}
    /\ UNCHANGED <<files, faults, meant, doubt>>

\* A write of secret n by a method that is not completed.
Breaks(r, n) ==
    /\ pc[r] \in {"create", "update", "delete"} /\ n = Name(r) /\ n \in Names
    /\ Exists(n) <=> pc[r] # "create"
    /\ files' \in LeftBy(pc[r], n) \cup {Completed(r)}
    /\ Doubts(n)

\* The write of an empty secret n.
Fumbles(n) ==
    /\ n \in Names /\ ~Exists(n) /\ UNCHANGED doubt
    /\ \/ files' = With(files, n, Empty) /\ meant' = With(meant, n, Empty)
       \/ UNCHANGED <<files, meant>>

Fails(r, label) ==
    /\ faults < MaxFaults /\ faults' = faults + 1
    /\ \/ Breaks(r, Name(r)) /\ label = "done"
       \/ \E n \in Names : Fumbles(n)

\* Secret n exists after the step, or something has failed.
Stands(n) == n \in DOMAIN files' \/ faults' # 0

\* A deployment that goes on has passed what it had passed, and what exists now.
Covers(r, label, q) ==
    label \in Deploying => pc[r] \in Deploying /\
       \A n \in Passed(label, q) : n \in Passed(pc[r], req[r]) \/ Stands(n)

\* Where it goes, with what.
Moves(r, label, q) ==
    /\ r \in InFlight /\ Goto(r, label, q) /\ label \in Labels \ {"idle"}
    /\ q \in Request /\ q.call = req[r].call /\ Flow(label, q)

Turn(r) ==
    \E label, q :
       /\ Moves(r, label, q) /\ Covers(r, label, q)
       /\ \/ Creates(r, label, q) \/ Replaces(r, label, q) \/ Deletes(r, label, q)
          \/ Looks(r, q) \/ Fails(r, label)

--------------------------------------------------------------------------------
(* Lemmas *)

\* The first element of a list without duplicates is in none of the others' places.
LEMMA Behead ==
    ASSUME NEW S, NEW s \in Seq(S), s # <<>>, IsInjective(s)
    PROVE  /\ Head(s) \in S /\ Tail(s) \in Seq(S) /\ IsInjective(Tail(s))
           /\ Range(s) = {Head(s)} \cup Range(Tail(s))
           /\ Head(s) \notin Range(Tail(s))
  <1>1. /\ Head(s) \in S /\ Tail(s) \in Seq(S) /\ Len(Tail(s)) = Len(s) - 1
        /\ \A i \in 1 .. Len(Tail(s)) : Tail(s)[i] = s[i + 1]
    BY HeadTailProperties
  <1>2. Len(s) \in Nat \ {0} /\ Head(s) = s[1]
    BY EmptySeq
  <1>3. /\ DOMAIN s = 1 .. Len(s) /\ DOMAIN Tail(s) = 1 .. Len(s) - 1
        /\ Range(s) = {s[i] : i \in 1 .. Len(s)}
        /\ Range(Tail(s)) = {Tail(s)[i] : i \in 1 .. Len(s) - 1}
    BY <1>1, LenProperties, RangeEquality
  <1>4. IsInjective(Tail(s))
    BY <1>1, <1>2, <1>3 DEF IsInjective
  <1>5. Head(s) \notin Range(Tail(s))
    BY <1>1, <1>2, <1>3 DEF IsInjective
  <1>6. \A i \in 1 .. Len(s) : i # 1 => i - 1 \in 1 .. Len(s) - 1 /\ s[i] = Tail(s)[i - 1]
    BY <1>1, <1>2
  <1>7. Range(s) = {Head(s)} \cup Range(Tail(s))
    <2>1. Range(s) \subseteq {Head(s)} \cup Range(Tail(s))
      BY <1>2, <1>3, <1>6
    <2>2. \A i \in 1 .. Len(s) - 1 : i + 1 \in 1 .. Len(s) /\ Tail(s)[i] = s[i + 1]
      BY <1>1, <1>2
    <2>3. {Head(s)} \cup Range(Tail(s)) \subseteq Range(s)
      BY <1>2, <1>3, <2>2
    <2> QED
      BY <2>1, <2>3
  <1> QED
    BY <1>1, <1>4, <1>5, <1>7

\* A request with some of its fields replaced.
Codes == {NoAnswer, 200, 201, 202, 204, 404, 500}

Answered(q, code, todo)   == [q EXCEPT !.answer = code, !.todo = todo]
Beheaded(q, todo, created) == [q EXCEPT !.todo = todo, !.created = @ \cup created]

LEMMA AnsweredIs ==
    ASSUME NEW q \in Request, NEW todo \in Seq(Names), NEW code \in Codes
    PROVE  LET u == Answered(q, code, todo)
           IN  /\ u \in Request /\ u.call = q.call /\ u.todo = todo
               /\ u.created = q.created /\ u.answer = code
  <1>1. Request = [call : Call \cup {NoCall}, todo : Seq(Names), created : SUBSET Names,
                   answer : Codes]
    BY DEF Request, Codes
  <1> QED
    BY <1>1 DEF Answered

LEMMA BeheadedIs ==
    ASSUME NEW q \in Request, NEW todo \in Seq(Names), NEW created \in SUBSET Names
    PROVE  LET u == Beheaded(q, todo, created)
           IN  /\ u \in Request /\ u.call = q.call /\ u.todo = todo
               /\ u.created = q.created \cup created /\ u.answer = q.answer
  <1>1. Request = [call : Call \cup {NoCall}, todo : Seq(Names), created : SUBSET Names,
                   answer : Codes]
    BY DEF Request, Codes
  <1>2. q.created \cup created \in SUBSET Names
    BY <1>1
  <1> QED
    BY <1>1, <1>2 DEF Beheaded

\* The call of a request that has arrived.
LEMMA CallFacts ==
    ASSUME NEW call \in Call
    PROVE  /\ call.op \in {"create", "update", "delete", "deploy"}
           /\ call.op \in {"create", "update", "delete"} => call.name \in Names
           /\ call.op \in {"create", "update"} => Decode[call.value] \in Contents
           /\ call.op = "deploy" => call.secrets \in Seq(Names) /\ IsInjective(call.secrets)
  <1>1. CASE call \in [op : {"create", "update"}, name : Names, value : Values]
    BY <1>1, SecretsAssumption
  <1>2. CASE call \in [op : {"delete"}, name : Names]
    BY <1>2
  <1>3. CASE call \in [op : {"deploy"}, secrets : NameLists]
    <2>1. PICK n \in 1 .. Cardinality(Names) : call.secrets \in Injection(1 .. n, Names)
      BY <1>3 DEF NameLists
    <2>2. n \in Nat
      BY <2>1
    <2>3. call.secrets \in [1 .. n -> Names] /\ IsInjective(call.secrets)
      BY <2>1 DEF Injection
    <2>4. call.secrets \in Seq(Names)
      BY <2>2, <2>3, SeqDef
    <2> QED
      BY <1>3, <2>3, <2>4
  <1> QED
    BY <1>1, <1>2, <1>3 DEF Call

LEMMA RequestFacts ==
    ASSUME Inv, NEW r \in Requests
    PROVE  /\ SecretsTypeOK /\ pc[r] \in Labels /\ req[r] \in Request /\ Flow(pc[r], req[r])
           /\ pc[r] # "idle" => req[r].call \in Call
           /\ pc[r] \in {"create", "update", "delete"} => Op(r) = pc[r] /\ Name(r) \in Names
           /\ pc[r] \in {"create", "update"} => Value(r) \in Contents
           /\ pc[r] \in Deploying => /\ Op(r) = "deploy" /\ req[r].call.secrets \in Seq(Names)
                                     /\ req[r].todo \in Seq(Names)
           /\ pc[r] # "done" => req[r].answer = NoAnswer
  <1>1. SecretsTypeOK /\ pc[r] \in Labels /\ req[r] \in Request /\ Flow(pc[r], req[r])
    BY DEF Inv, SecretsTypeOK
  <1>2. pc[r] # "idle" => req[r].call \in Call
    BY <1>1 DEF Flow, Request
  <1>3. pc[r] \in {"create", "update", "delete"} => Op(r) = pc[r] /\ Name(r) \in Names
    BY <1>1, <1>2, CallFacts DEF Flow, Op, Name
  <1>4. pc[r] \in {"create", "update"} => Value(r) \in Contents
    BY <1>1, <1>2, CallFacts DEF Flow, Value
  <1>5. pc[r] \in Deploying => /\ Op(r) = "deploy" /\ req[r].call.secrets \in Seq(Names)
                               /\ req[r].todo \in Seq(Names)
    BY <1>1, <1>2, CallFacts DEF Flow, Op, Request, Deploying
  <1>6. pc[r] # "done" => req[r].answer = NoAnswer
    BY <1>1 DEF Flow
  <1> QED
    BY <1>1, <1>2, <1>3, <1>4, <1>5, <1>6

--------------------------------------------------------------------------------
(* Every step of a handler is a turn *)

\* It answers.
LEMMA Answers ==
    ASSUME Inv, NEW r \in Requests, pc[r] \notin {"idle", "done"},
           NEW code \in Codes, Answer(r, code)
    PROVE  \E q : /\ Moves(r, "done", q) /\ Covers(r, "done", q)
                  /\ q.created = req[r].created /\ q.answer = code
  <1>1. req[r] \in Request /\ Flow(pc[r], req[r])
    BY RequestFacts
  <1>2. PICK todo : todo = <<>>
    OBVIOUS
  <1>3. PICK q : q = Answered(req[r], code, todo) /\ Goto(r, "done", q)
    BY <1>2 DEF Answer, Answered
  <1>4. /\ q \in Request /\ q.call = req[r].call /\ q.created = req[r].created
        /\ q.answer = code /\ q.todo = todo
    <2>1. todo \in Seq(Names)
      BY <1>2, EmptySeq
    <2> HIDE <1>2
    <2> QED
      BY <1>1, <1>3, <2>1, AnsweredIs
  <1>5. IsInjective(todo) /\ Range(todo) = {}
    BY <1>2 DEF IsInjective, Range
  <1>6. req[r].call # NoCall
    BY <1>1 DEF Flow
  <1>7. Flow("done", q)
    BY <1>4, <1>5, <1>6 DEF Flow, Deploying
  <1>8. Moves(r, "done", q)
    BY <1>3, <1>4, <1>7 DEF Moves, Labels, InFlight, Deploying
  <1>9. Covers(r, "done", q)
    BY DEF Covers, Deploying
  <1> QED
    BY <1>4, <1>8, <1>9

LEMMA CreateTurns ==
    ASSUME Inv, NEW r \in Requests, HandleCreateSecret(r)
    PROVE  Turn(r)
  <1>1. pc[r] = "create" /\ Op(r) = "create" /\ Name(r) \in Names /\ Value(r) \in Contents
    BY RequestFacts DEF HandleCreateSecret
  <1>2. CASE /\ CreateSecret(Name(r), Value(r)) /\ Answer(r, 201)
             /\ Concludes(Name(r), With(meant, Name(r), Value(r)))
    <2>1. PICK q : /\ Moves(r, "done", q) /\ Covers(r, "done", q)
                   /\ q.created = req[r].created /\ q.answer = 201
      BY <1>1, <1>2, Answers DEF Codes
    <2>2. Made("done", q, Name(r))
      BY <1>1, <2>1 DEF Made, Moves, Op, Name
    <2>3. Creates(r, "done", q)
      BY <1>1, <1>2, <2>1, <2>2 DEF Creates, CreateSecret, Puts
    <2> QED
      BY <2>1, <2>3 DEF Turn
  <1>3. CASE Answer(r, 500) /\ UNCHANGED <<files, faults, meant, doubt>>
    <2>1. PICK q : /\ Moves(r, "done", q) /\ Covers(r, "done", q)
                   /\ q.created = req[r].created /\ q.answer = 500
      BY <1>1, <1>3, Answers DEF Codes
    <2> QED
      BY <1>3, <2>1 DEF Turn, Looks
  <1>4. CASE ~Exists(Name(r)) /\ WriteFails(r, 500)
    <2>1. PICK q : Moves(r, "done", q) /\ Covers(r, "done", q)
      BY <1>1, <1>4, Answers DEF WriteFails, Codes
    <2>2. Fails(r, "done")
      BY <1>1, <1>4 DEF Fails, WriteFails, Fault, Breaks
    <2> QED
      BY <2>1, <2>2 DEF Turn
  <1> QED
    BY <1>2, <1>3, <1>4 DEF HandleCreateSecret

LEMMA UpdateTurns ==
    ASSUME Inv, NEW r \in Requests, HandleUpdateSecret(r)
    PROVE  Turn(r)
  <1>1. pc[r] = "update" /\ Name(r) \in Names /\ Value(r) \in Contents
    BY RequestFacts DEF HandleUpdateSecret
  <1>2. CASE /\ UpdateSecret(Name(r), Value(r)) /\ Answer(r, 200)
             /\ Concludes(Name(r), With(meant, Name(r), Value(r)))
    <2>1. PICK q : /\ Moves(r, "done", q) /\ Covers(r, "done", q)
                   /\ q.created = req[r].created /\ q.answer = 200
      BY <1>1, <1>2, Answers DEF Codes
    <2>2. Replaces(r, "done", q)
      BY <1>1, <1>2, <2>1 DEF Replaces, UpdateSecret, Puts
    <2> QED
      BY <2>1, <2>2 DEF Turn
  <1>3. CASE Answer(r, 404) /\ UNCHANGED <<files, faults, meant, doubt>>
    <2>1. PICK q : /\ Moves(r, "done", q) /\ Covers(r, "done", q)
                   /\ q.created = req[r].created /\ q.answer = 404
      BY <1>1, <1>3, Answers DEF Codes
    <2> QED
      BY <1>3, <2>1 DEF Turn, Looks
  <1>4. CASE Exists(Name(r)) /\ WriteFails(r, 404)
    <2>1. PICK q : Moves(r, "done", q) /\ Covers(r, "done", q)
      BY <1>1, <1>4, Answers DEF WriteFails, Codes
    <2>2. Fails(r, "done")
      BY <1>1, <1>4 DEF Fails, WriteFails, Fault, Breaks
    <2> QED
      BY <2>1, <2>2 DEF Turn
  <1> QED
    BY <1>2, <1>3, <1>4 DEF HandleUpdateSecret

LEMMA DeleteTurns ==
    ASSUME Inv, NEW r \in Requests, HandleDeleteSecret(r)
    PROVE  Turn(r)
  <1>1. pc[r] = "delete" /\ Op(r) = "delete" /\ Name(r) \in Names
    BY RequestFacts DEF HandleDeleteSecret
  <1>2. CASE /\ DeleteSecret(Name(r)) /\ Answer(r, 204)
             /\ Concludes(Name(r), Without(meant, Name(r)))
    <2>1. PICK q : /\ Moves(r, "done", q) /\ Covers(r, "done", q)
                   /\ q.created = req[r].created /\ q.answer = 204
      BY <1>1, <1>2, Answers DEF Codes
    <2>2. Removed("done", q, Name(r))
      BY <1>1, <2>1 DEF Removed, Moves, Op, Name
    <2>3. Deletes(r, "done", q)
      BY <1>1, <1>2, <2>1, <2>2 DEF Deletes, DeleteSecret
    <2> QED
      BY <2>1, <2>3 DEF Turn
  <1>3. CASE Answer(r, 404) /\ UNCHANGED <<files, faults, meant, doubt>>
    <2>1. PICK q : /\ Moves(r, "done", q) /\ Covers(r, "done", q)
                   /\ q.created = req[r].created /\ q.answer = 404
      BY <1>1, <1>3, Answers DEF Codes
    <2> QED
      BY <1>3, <2>1 DEF Turn, Looks
  <1>4. CASE Exists(Name(r)) /\ WriteFails(r, 404)
    <2>1. PICK q : Moves(r, "done", q) /\ Covers(r, "done", q)
      BY <1>1, <1>4, Answers DEF WriteFails, Codes
    <2>2. Fails(r, "done")
      BY <1>1, <1>4 DEF Fails, WriteFails, Fault, Breaks
    <2> QED
      BY <2>1, <2>2 DEF Turn
  <1> QED
    BY <1>2, <1>3, <1>4 DEF HandleDeleteSecret

\* A deployment goes on with the names it has.
LEMMA GoesOn ==
    ASSUME Inv, NEW r \in Requests, pc[r] \in {"exists", "autocreate"},
           NEW label \in {"autocreate", "again", "mount"}, Goto(r, label, req[r]),
           label = "mount" <=> req[r].todo = <<>>,
           label = "again" => Stands(Current(r))
    PROVE  /\ Moves(r, label, req[r]) /\ Covers(r, label, req[r])
           /\ req[r].answer \notin {200, 201, 204}
  <1>1. req[r] \in Request /\ Flow(pc[r], req[r]) /\ pc[r] \in Deploying
    BY RequestFacts DEF Deploying
  <1>2. Flow(label, req[r])
    BY <1>1 DEF Flow, Deploying
  <1>3. Moves(r, label, req[r])
    BY <1>1, <1>2 DEF Moves, Labels, InFlight, Deploying
  <1>4. Covers(r, label, req[r])
    <2>1. \A n \in Passed(label, req[r]) : n \in Passed(pc[r], req[r]) \/ Stands(n)
      BY DEF Passed, Current
    <2> QED
      BY <1>1, <2>1 DEF Covers
  <1> QED
    BY <1>1, <1>3, <1>4, RequestFacts DEF NoAnswer

\* It turns to the next name.
LEMMA TurnsToNext ==
    ASSUME Inv, NEW r \in Requests, pc[r] \in {"exists", "autocreate", "again"},
           req[r].todo # <<>>, NEW created, created \in {{}, {Current(r)}},
           Proceeds(r, created), Stands(Current(r))
    PROVE  \E q : /\ Moves(r, "exists", q) /\ Covers(r, "exists", q)
                  /\ q.created = req[r].created \cup created
                  /\ q.answer \notin {200, 201, 204}
                  /\ Current(r) \in Names \ req[r].created
  <1>1. /\ req[r] \in Request /\ Flow(pc[r], req[r]) /\ pc[r] \in Deploying
        /\ req[r].todo \in Seq(Names) /\ req[r].answer = NoAnswer /\ Op(r) = "deploy"
    BY RequestFacts DEF Deploying
  <1>2. PICK todo : todo = Tail(req[r].todo)
    OBVIOUS
  <1>3. PICK n : n = Current(r)
    OBVIOUS
  <1>4. /\ n \in Names /\ todo \in Seq(Names) /\ IsInjective(todo)
        /\ Range(req[r].todo) = {n} \cup Range(todo) /\ n \notin Range(todo)
    BY <1>1, <1>2, <1>3, Behead DEF Flow, Current
  <1>5. n \notin req[r].created
    BY <1>1, <1>4 DEF Flow
  <1>6. PICK q : /\ q = Beheaded(req[r], todo, created)
                 /\ Goto(r, "exists", q)
    BY <1>2 DEF Proceeds, Beheaded
  <1>7. created \subseteq {n} /\ created \subseteq Names
    BY <1>3, <1>4
  <1>8. /\ q \in Request /\ q.call = req[r].call /\ q.todo = todo
        /\ q.created = req[r].created \cup created /\ q.answer = NoAnswer
    BY <1>1, <1>4, <1>6, <1>7, BeheadedIs
  <1>9. Flow("exists", q)
    BY <1>1, <1>4, <1>7, <1>8 DEF Flow, Deploying
  <1>10. Moves(r, "exists", q)
    BY <1>6, <1>8, <1>9 DEF Moves, Labels, InFlight, Deploying
  <1>11. Covers(r, "exists", q)
    <2>1. \A m \in Passed("exists", q) : m \in Passed(pc[r], req[r]) \/ m = n
      BY <1>4, <1>8 DEF Passed
    <2> QED
      BY <1>1, <1>3, <2>1 DEF Covers
  <1> QED
    BY <1>3, <1>4, <1>5, <1>8, <1>10, <1>11 DEF NoAnswer

LEMMA DeployTurns ==
    ASSUME Inv, NEW r \in Requests, Deploy(r)
    PROVE  Turn(r)
  <1>1. pc[r] \in Deploying /\ Flow(pc[r], req[r]) /\ Empty \in Contents
    BY RequestFacts, SecretsAssumption
    DEF Deploy, Look, AutoCreate, LookAgain, ValidateSecrets, MountSecrets, Deploying
  <1>2. ASSUME NEW code \in {202, 500}, Answer(r, code), UNCHANGED <<files, faults, meant, doubt>>
        PROVE  Turn(r)
    <2>1. PICK q : /\ Moves(r, "done", q) /\ Covers(r, "done", q)
                   /\ q.created = req[r].created /\ q.answer = code
      BY <1>1, <1>2, Answers DEF Deploying, Codes
    <2> QED
      BY <1>2, <2>1 DEF Turn, Looks
  <1>3. ASSUME pc[r] \in {"exists", "again"}, req[r].todo # <<>>, Proceeds(r, {}),
               Exists(Current(r)), UNCHANGED <<files, faults, meant, doubt>>
        PROVE  Turn(r)
    <2>1. Stands(Current(r))
      BY <1>3 DEF Stands, Exists
    <2>2. PICK q : /\ Moves(r, "exists", q) /\ Covers(r, "exists", q)
                   /\ q.created = req[r].created /\ q.answer \notin {200, 201, 204}
      <3>1. PICK none : none = {}
        OBVIOUS
      <3>2. none \in {{}, {Current(r)}} /\ req[r].created \cup none = req[r].created
        BY <3>1
      <3>3. Proceeds(r, none) /\ pc[r] \in {"exists", "autocreate", "again"} /\ req[r].todo # <<>>
        BY <1>3, <3>1
      <3> HIDE <3>1
      <3>4. PICK q : /\ Moves(r, "exists", q) /\ Covers(r, "exists", q)
                     /\ q.created = req[r].created \cup none
                     /\ q.answer \notin {200, 201, 204}
        BY <2>1, <3>2, <3>3, TurnsToNext
      <3> QED
        BY <3>2, <3>4
    <2> QED
      BY <1>3, <2>2 DEF Turn, Looks
  <1>4. ASSUME NEW label \in {"autocreate", "mount"}, Goto(r, label, req[r]),
               pc[r] = "exists", label = "mount" <=> req[r].todo = <<>>,
               UNCHANGED <<files, faults, meant, doubt>>
        PROVE  Turn(r)
    <2>1. /\ Moves(r, label, req[r]) /\ Covers(r, label, req[r])
          /\ req[r].answer \notin {200, 201, 204}
      BY <1>4, GoesOn
    <2> QED
      BY <1>4, <2>1 DEF Turn, Looks
  <1>5. CASE Look(r)
    BY <1>3, <1>4, <1>5 DEF Look
  <1>6. CASE LookAgain(r)
    <2>1. pc[r] = "again" /\ req[r].todo # <<>>
      BY <1>1, <1>6 DEF LookAgain, Flow
    <2> QED
      BY <1>2, <1>3, <1>6, <2>1 DEF LookAgain
  <1>7. CASE ValidateSecrets(r)
    BY <1>2, <1>4, <1>7 DEF ValidateSecrets
  <1>8. CASE MountSecrets(r)
    BY <1>2, <1>8 DEF MountSecrets
  <1>9. CASE AutoCreate(r)
    <2>1. PICK n : n = Current(r)
      OBVIOUS
    <2>2. pc[r] = "autocreate" /\ req[r].todo # <<>>
      BY <1>1, <1>9 DEF AutoCreate, Flow
    <2>3. n \in Names
      BY <1>1, <2>1, <2>2, RequestFacts, Behead DEF Flow, Current
    <2>4. CASE /\ CreateSecret(n, Empty) /\ Proceeds(r, {n}) /\ Concludes(n, With(meant, n, Empty))
      <3>2. Stands(Current(r))
        BY <2>1, <2>4 DEF Stands, CreateSecret, With
      <3>3. PICK q : /\ Moves(r, "exists", q) /\ Covers(r, "exists", q)
                     /\ q.created = req[r].created \cup {n} /\ n \notin req[r].created
        BY <2>1, <2>2, <2>4, <3>2, TurnsToNext
      <3>4. Creates(r, "exists", q)
        BY <1>1, <2>3, <2>4, <3>3 DEF Creates, CreateSecret, Puts
      <3> QED
        BY <3>3, <3>4 DEF Turn
    <2>5. CASE /\ Exists(n) /\ Goto(r, "again", req[r])
               /\ UNCHANGED <<files, faults, meant, doubt>>
      <3>1. Moves(r, "again", req[r]) /\ Covers(r, "again", req[r])
            /\ req[r].answer \notin {200, 201, 204}
        BY <2>1, <2>2, <2>5, GoesOn DEF Stands, Exists
      <3> QED
        BY <2>5, <3>1 DEF Turn, Looks
    <2>6. CASE /\ ~Exists(n) /\ Fault("write")
               /\ \/ files' = With(files, n, Empty) /\ meant' = With(meant, n, Empty)
                  \/ UNCHANGED <<files, meant>>
               /\ Goto(r, "again", req[r])
               /\ UNCHANGED doubt
      <3>1. faults \in Nat /\ faults < MaxFaults /\ faults' = faults + 1
        BY <2>6, RequestFacts DEF Fault, SecretsTypeOK
      <3>2. Stands(Current(r))
        BY <3>1 DEF Stands
      <3>4. Moves(r, "again", req[r]) /\ Covers(r, "again", req[r])
        BY <2>2, <2>6, <3>2, GoesOn
      <3>3. Fails(r, "again")
        BY <2>3, <2>6, <3>1 DEF Fails, Fumbles
      <3> QED
        BY <3>3, <3>4 DEF Turn
    <2> QED
      BY <1>9, <2>1, <2>4, <2>5, <2>6 DEF AutoCreate
  <1> QED
    BY <1>5, <1>6, <1>7, <1>8, <1>9 DEF Deploy

LEMMA HandleTurns ==
    ASSUME Inv, NEW r \in Requests, Handle(r)
    PROVE  Turn(r)
  BY CreateTurns, UpdateTurns, DeleteTurns, DeployTurns DEF Handle

--------------------------------------------------------------------------------
(* What a turn does to the files and to what clients may conclude *)

StoreOK ==
    /\ DOMAIN files \subseteq Names
    /\ \A n \in DOMAIN files : files[n] \in Contents \cup {Torn}
    /\ DOMAIN meant \subseteq Names
    /\ \A n \in DOMAIN meant : meant[n] \in Contents
    /\ doubt \subseteq Names
    /\ LossIsTold

LEMMA PutKeeps ==
    ASSUME StoreOK, NEW n \in Names, NEW content \in Contents, Puts(n, content)
    PROVE  StoreOK'
  <1>1. /\ DOMAIN files' = DOMAIN files \cup {n} /\ files'[n] = content
        /\ \A m \in DOMAIN files : m # n => files'[m] = files[m]
    BY DEF Puts, With
  <1>2. /\ DOMAIN meant' = DOMAIN meant \cup {n} /\ meant'[n] = content
        /\ \A m \in DOMAIN meant : m # n => meant'[m] = meant[m]
    BY DEF Puts, Concludes, With
  <1>3. doubt' = doubt \ {n}
    BY DEF Puts, Concludes
  <1>4. LossIsTold'
    BY <1>1, <1>2, <1>3 DEF StoreOK, LossIsTold, Exists
  <1> QED
    BY <1>1, <1>2, <1>3, <1>4 DEF StoreOK

LEMMA RemoveKeeps ==
    ASSUME StoreOK, NEW n \in Names, files' = Without(files, n),
           Concludes(n, Without(meant, n))
    PROVE  StoreOK'
  <1>1. /\ DOMAIN files' = DOMAIN files \ {n}
        /\ \A m \in DOMAIN files : m # n => files'[m] = files[m]
    BY DEF Without
  <1>2. /\ DOMAIN meant' = DOMAIN meant \ {n}
        /\ \A m \in DOMAIN meant : m # n => meant'[m] = meant[m]
    BY DEF Concludes, Without
  <1>3. doubt' = doubt \ {n}
    BY DEF Concludes
  <1>4. LossIsTold'
    BY <1>1, <1>2, <1>3 DEF StoreOK, LossIsTold, Exists
  <1> QED
    BY <1>1, <1>2, <1>3, <1>4 DEF StoreOK

\* A write that is not completed touches the file of its secret only.
LEMMA BreakTouches ==
    ASSUME Inv, NEW r \in Requests, Breaks(r, Name(r))
    PROVE  /\ DOMAIN files' \subseteq DOMAIN files \cup {Name(r)}
           /\ DOMAIN files \ {Name(r)} \subseteq DOMAIN files'
           /\ \A m \in DOMAIN files : m # Name(r) => files'[m] = files[m]
           /\ Name(r) \in DOMAIN files' => files'[Name(r)] \in Contents \cup {Torn}
  <1>1. PICK n : n = Name(r)
    OBVIOUS
  <1>2. PICK f : f = files /\ \A m \in DOMAIN f : f[m] \in Contents \cup {Torn}
    BY RequestFacts DEF SecretsTypeOK
  <1>3. \/ files' = f \/ files' = Without(f, n)
        \/ \E content \in Contents \cup {Torn} : files' = With(f, n, content)
    <2>1. CASE files' = Completed(r)
      BY <1>1, <1>2, <2>1, RequestFacts DEF Completed, Breaks
    <2>2. CASE files' \in LeftBy(pc[r], n)
      BY <1>1, <1>2, <2>2 DEF LeftBy, Breaks
    <2> QED
      BY <1>1, <2>1, <2>2 DEF Breaks
  <1>4. CASE files' = f
    BY <1>1, <1>2, <1>4
  <1>5. CASE files' = Without(f, n)
    <2>1. files' = Without(files, n)
      BY <1>2, <1>5
    <2> QED
      BY <1>1, <1>2, <2>1 DEF Without
  <1>6. CASE \E content \in Contents \cup {Torn} : files' = With(f, n, content)
    <2>1. PICK content \in Contents \cup {Torn} : files' = With(files, n, content)
      BY <1>2, <1>6
    <2> QED
      BY <1>1, <1>2, <2>1 DEF With
  <1> QED
    BY <1>3, <1>4, <1>5, <1>6

LEMMA BreakKeeps ==
    ASSUME Inv, StoreOK, NEW r \in Requests, Breaks(r, Name(r))
    PROVE  StoreOK'
  <1>1. PICK n : n = Name(r)
    OBVIOUS
  <1>2. /\ DOMAIN files' \subseteq DOMAIN files \cup {n}
        /\ DOMAIN files \ {n} \subseteq DOMAIN files'
        /\ \A m \in DOMAIN files : m # n => files'[m] = files[m]
        /\ n \in DOMAIN files' => files'[n] \in Contents \cup {Torn}
    BY <1>1, BreakTouches
  <1>3. meant' = meant /\ doubt' = doubt \cup {n} /\ n \in Names
    BY <1>1 DEF Breaks, Doubts
  <1>4. LossIsTold'
    BY <1>2, <1>3 DEF StoreOK, LossIsTold, Exists
  <1> QED
    BY <1>2, <1>3, <1>4 DEF StoreOK

LEMMA FumbleKeeps ==
    ASSUME StoreOK, NEW n \in Names, Fumbles(n)
    PROVE  StoreOK'
  <1>1. CASE UNCHANGED <<files, meant>>
    BY <1>1 DEF Fumbles, StoreOK, LossIsTold, Exists
  <1>2. CASE files' = With(files, n, Empty) /\ meant' = With(meant, n, Empty)
    <2>1. /\ DOMAIN files' = DOMAIN files \cup {n} /\ files'[n] = Empty
          /\ \A m \in DOMAIN files : m # n => files'[m] = files[m]
      BY <1>2 DEF With
    <2>2. /\ DOMAIN meant' = DOMAIN meant \cup {n} /\ meant'[n] = Empty
          /\ \A m \in DOMAIN meant : m # n => meant'[m] = meant[m]
      BY <1>2 DEF With
    <2>3. doubt' = doubt /\ Empty \in Contents
      BY SecretsAssumption DEF Fumbles
    <2>4. LossIsTold'
      BY <2>1, <2>2, <2>3 DEF StoreOK, LossIsTold, Exists
    <2> QED
      BY <2>1, <2>2, <2>3, <2>4 DEF StoreOK
  <1> QED
    BY <1>1, <1>2 DEF Fumbles

LEMMA TurnKeepsStore ==
    ASSUME Inv, NEW r \in Requests, Turn(r)
    PROVE  StoreOK' /\ faults' \in 0 .. MaxFaults /\ (faults' = 0 => faults = 0)
  <1>1. StoreOK /\ faults \in 0 .. MaxFaults /\ MaxFaults \in Nat
    BY SecretsAssumption DEF Inv, SecretsTypeOK, StoreOK
  <1>2. PICK label, q : \/ Creates(r, label, q) \/ Replaces(r, label, q) \/ Deletes(r, label, q)
                        \/ Looks(r, q) \/ Fails(r, label)
    BY DEF Turn
  <1>3. CASE Creates(r, label, q)
    <2>1. StoreOK' /\ faults' = faults
      BY <1>1, <1>3, PutKeeps DEF Creates, Puts, Concludes
    <2> QED
      BY <1>1, <2>1
  <1>4. CASE Replaces(r, label, q)
    <2>1. StoreOK' /\ faults' = faults
      BY <1>1, <1>4, PutKeeps DEF Replaces, Puts, Concludes
    <2> QED
      BY <1>1, <2>1
  <1>5. CASE Deletes(r, label, q)
    <2>1. StoreOK' /\ faults' = faults
      BY <1>1, <1>5, RemoveKeeps DEF Deletes, Concludes
    <2> QED
      BY <1>1, <2>1
  <1>6. CASE Looks(r, q)
    <2>1. StoreOK' /\ faults' = faults
      BY <1>1, <1>6 DEF Looks, StoreOK, LossIsTold, Exists
    <2> QED
      BY <1>1, <2>1
  <1>7. CASE Fails(r, label)
    <2>1. StoreOK'
      BY <1>1, <1>7, BreakKeeps, FumbleKeeps DEF Fails
    <2>2. faults < MaxFaults /\ faults' = faults + 1
      BY <1>7 DEF Fails
    <2> QED
      BY <1>1, <2>1, <2>2
  <1> QED
    BY <1>2, <1>3, <1>4, <1>5, <1>6, <1>7

--------------------------------------------------------------------------------
(* Invariance *)

LEMMA InitInv ==
    Init => Inv
  <1> SUFFICES ASSUME Init
               PROVE  Inv
    OBVIOUS
  <1>1. IsInjective(<<>>) /\ Range(<<>>) = {} /\ <<>> \in Seq(Names)
    BY EmptySeq DEF IsInjective, Range
  <1>2. PICK none : none = <<>>
    OBVIOUS
  <1>3. PICK q : q = [call |-> NoCall, todo |-> none, created |-> {}, answer |-> NoAnswer]
    OBVIOUS
  <1>4. /\ q.call = NoCall /\ q.todo = none /\ q.created = {} /\ q.answer = NoAnswer
        /\ q \in Request
    BY <1>1, <1>2, <1>3 DEF Request
  <1>5. req = [r \in Requests |-> q] /\ pc = [r \in Requests |-> "idle"]
    BY <1>2, <1>3 DEF Init
  <1>6. DOMAIN files = {} /\ meant = files /\ doubt = {} /\ faults \in 0 .. MaxFaults
    BY SecretsAssumption DEF Init
  <1>7. SecretsTypeOK
    BY <1>4, <1>5, <1>6 DEF SecretsTypeOK, Labels
  <1>8. Flow("idle", q)
    BY <1>1, <1>2, <1>4 DEF Flow, Deploying
  <1> QED
    BY <1>5, <1>6, <1>7, <1>8 DEF Inv, LossIsTold, Exists

\* A handler that moves leaves the other requests alone.
LEMMA OthersStay ==
    ASSUME Inv, NEW r \in Requests, NEW label, NEW q, Goto(r, label, q)
    PROVE  /\ pc'[r] = label /\ req'[r] = q
           /\ \A s \in Requests \ {r} : pc'[s] = pc[s] /\ req'[s] = req[s]
           /\ \A s \in Requests : pc'[s] = (IF s = r THEN label ELSE pc[s])
           /\ label \in Labels /\ q \in Request =>
                 pc' \in [Requests -> Labels] /\ req' \in [Requests -> Request]
  <1>1. pc \in [Requests -> Labels] /\ req \in [Requests -> Request]
    BY DEF Inv, SecretsTypeOK
  <1> QED
    BY <1>1 DEF Goto

LEMMA MoveKeeps ==
    ASSUME Inv, NEW r \in Requests, NEW label, NEW q, Goto(r, label, q),
           label \in Labels, q \in Request, Flow(label, q),
           StoreOK', faults' \in 0 .. MaxFaults
    PROVE  Inv'
  <1>1. /\ pc'[r] = label /\ req'[r] = q
        /\ \A s \in Requests \ {r} : pc'[s] = pc[s] /\ req'[s] = req[s]
        /\ pc' \in [Requests -> Labels] /\ req' \in [Requests -> Request]
    BY OthersStay
  <1>2. SecretsTypeOK'
    BY <1>1 DEF SecretsTypeOK, StoreOK
  <1>3. \A s \in Requests : Flow(pc'[s], req'[s])
    <2> TAKE s \in Requests
    <2>1. CASE s = r
      BY <1>1, <2>1
    <2>2. CASE s # r
      BY <1>1, <2>2 DEF Inv
    <2> QED
      BY <2>1, <2>2
  <1> QED
    BY <1>2, <1>3 DEF Inv, StoreOK

LEMMA ArriveMoves ==
    ASSUME Inv, NEW r \in Requests, Arrive(r)
    PROVE  \E label, q :
              /\ label \in Labels \ {"idle", "done"} /\ q \in Request /\ Flow(label, q)
              /\ Goto(r, label, q) /\ q.created = {}
              /\ label \in Deploying => label = "exists" /\ q.todo = q.call.secrets
  <1>1. PICK call \in Calls :
           Goto(r, IF call.op = "deploy" THEN "exists" ELSE call.op,
                [req[r] EXCEPT !.call = call,
                               !.todo = IF call.op = "deploy" THEN call.secrets ELSE <<>>])
    BY DEF Arrive
  <1>2. PICK todo : todo = IF call.op = "deploy" THEN call.secrets ELSE <<>>
    OBVIOUS
  <1>3. PICK label : label = IF call.op = "deploy" THEN "exists" ELSE call.op
    OBVIOUS
  <1>4. PICK q : q = [req[r] EXCEPT !.call = call, !.todo = todo] /\ Goto(r, label, q)
    BY <1>1, <1>2, <1>3
  <1>5. call \in Call /\ NoCall \notin Call
    BY SecretsAssumption
  <1>6. /\ call.op \in {"create", "update", "delete", "deploy"}
        /\ call.op = "deploy" => call.secrets \in Seq(Names) /\ IsInjective(call.secrets)
    BY <1>5, CallFacts
  <1>7. todo \in Seq(Names) /\ IsInjective(todo)
    <2>1. CASE call.op = "deploy"
      BY <1>2, <1>6, <2>1
    <2>2. CASE call.op # "deploy"
      BY <1>2, <2>2, EmptySeq DEF IsInjective
    <2> QED
      BY <2>1, <2>2
  <1>8. /\ req[r] \in Request /\ req[r].created = {} /\ req[r].answer = NoAnswer
        /\ pc[r] = "idle"
    BY RequestFacts DEF Arrive, Flow
  <1>9. /\ q \in Request /\ q.call = call /\ q.todo = todo /\ q.created = {}
        /\ q.answer = NoAnswer
    <2>1. Request = [call : Call \cup {NoCall}, todo : Seq(Names), created : SUBSET Names,
                     answer : Codes]
      BY DEF Request, Codes
    <2> HIDE <1>2
    <2> QED
      BY <1>4, <1>5, <1>7, <1>8, <2>1
  <1>10. label \in Labels \ {"idle", "done"}
    BY <1>3, <1>6 DEF Labels
  <1>11. Flow(label, q)
    <2>1. call # NoCall /\ Range(todo) \cap {} = {}
      BY <1>5
    <2>2. CASE call.op = "deploy"
      BY <1>2, <1>3, <1>7, <1>9, <2>1, <2>2 DEF Flow, Deploying
    <2>3. CASE call.op # "deploy"
      BY <1>3, <1>6, <1>7, <1>9, <2>1, <2>3 DEF Flow, Deploying
    <2> QED
      BY <2>2, <2>3
  <1>12. label \in Deploying => label = "exists" /\ q.todo = q.call.secrets
    BY <1>2, <1>3, <1>6, <1>9 DEF Deploying
  <1> QED
    BY <1>4, <1>9, <1>10, <1>11, <1>12

\* What a crash does to the requests in flight.
LEMMA CrashCuts ==
    ASSUME Inv, CrashAndRestart
    PROVE  /\ pc' \in [Requests -> Labels] /\ req' \in [Requests -> Request]
           /\ \A r \in Requests : Flow(pc'[r], req'[r])
           /\ \A r \in InFlight : pc'[r] = "done"
           /\ faults < MaxFaults /\ faults' = faults + 1
           /\ \/ UNCHANGED <<files, meant, doubt>>
              \/ \E r \in InFlight : Breaks(r, Name(r))
  <1>1. PICK none : none = <<>>
    OBVIOUS
  <1>2. none \in Seq(Names) /\ IsInjective(none) /\ Range(none) = {}
    BY <1>1, EmptySeq DEF IsInjective, Range
  <1>3. /\ pc' = [r \in Requests |-> IF r \in InFlight THEN "done" ELSE pc[r]]
        /\ req' = [r \in Requests |-> IF r \in InFlight THEN [req[r] EXCEPT !.todo = none]
                                      ELSE req[r]]
    BY <1>1 DEF CrashAndRestart
  <1> HIDE <1>1
  <1>4. \A r \in Requests : req[r] \in Request /\ pc[r] \in Labels /\ Flow(pc[r], req[r])
    BY RequestFacts
  <1>5. ASSUME NEW r \in Requests
        PROVE  /\ pc'[r] \in Labels /\ req'[r] \in Request /\ Flow(pc'[r], req'[r])
               /\ r \in InFlight => pc'[r] = "done"
    <2>1. CASE r \in InFlight
      <3>1. PICK q : q = [req[r] EXCEPT !.todo = none] /\ req'[r] = q
        BY <1>3, <2>1
      <3>2. Request = [call : Call \cup {NoCall}, todo : Seq(Names), created : SUBSET Names,
                       answer : Codes]
        BY DEF Request, Codes
      <3>3. q \in Request /\ q.call = req[r].call /\ q.todo = none
        BY <1>2, <1>4, <3>1, <3>2
      <3>4. pc'[r] = "done" /\ req[r].call # NoCall
        BY <1>3, <1>4, <2>1 DEF InFlight, Flow
      <3>5. Flow("done", q)
        BY <1>2, <3>3, <3>4 DEF Flow, Deploying
      <3> QED
        BY <3>1, <3>3, <3>4, <3>5 DEF Labels
    <2>2. CASE r \notin InFlight
      BY <1>3, <1>4, <2>2
    <2> QED
      BY <2>1, <2>2
  <1>6. pc' \in [Requests -> Labels] /\ req' \in [Requests -> Request]
    BY <1>3, <1>5
  <1>7. \/ UNCHANGED <<files, meant, doubt>>
        \/ \E r \in InFlight : Breaks(r, Name(r))
    <2>1. CASE \E r \in InFlight :
                  /\ pc[r] \in {"create", "update", "delete"}
                  /\ Exists(Name(r)) <=> pc[r] # "create"
                  /\ files' \in LeftBy(pc[r], Name(r)) \cup {Completed(r)}
                  /\ Doubts(Name(r))
      BY <2>1, RequestFacts DEF Breaks, InFlight
    <2> QED
      BY <2>1 DEF CrashAndRestart
  <1> QED
    BY <1>5, <1>6, <1>7 DEF CrashAndRestart, Fault, InFlight

LEMMA CrashKeeps ==
    ASSUME Inv, CrashAndRestart
    PROVE  Inv' /\ faults' # 0
  <1>1. StoreOK /\ faults \in 0 .. MaxFaults /\ MaxFaults \in Nat
    BY SecretsAssumption DEF Inv, SecretsTypeOK, StoreOK
  <1>2. StoreOK'
    <2>1. CASE UNCHANGED <<files, meant, doubt>>
      BY <1>1, <2>1 DEF StoreOK, LossIsTold, Exists
    <2>2. CASE \E r \in InFlight : Breaks(r, Name(r))
      BY <1>1, <2>2, BreakKeeps DEF InFlight
    <2> QED
      BY <2>1, <2>2, CrashCuts
  <1>3. faults' \in 0 .. MaxFaults /\ faults' # 0
    BY <1>1, CrashCuts
  <1>4. SecretsTypeOK'
    BY <1>2, <1>3, CrashCuts DEF SecretsTypeOK, StoreOK
  <1> QED
    BY <1>2, <1>3, <1>4, CrashCuts DEF Inv, StoreOK

LEMMA NextInv ==
    Inv /\ [Next]_vars => Inv'
  <1> SUFFICES ASSUME Inv, [Next]_vars
               PROVE  Inv'
    OBVIOUS
  <1>1. ASSUME NEW r \in Requests, Arrive(r)
        PROVE  Inv'
    <2>1. StoreOK' /\ faults' \in 0 .. MaxFaults
      BY <1>1 DEF Inv, SecretsTypeOK, StoreOK, LossIsTold, Exists, Arrive
    <2> QED
      BY <1>1, <2>1, ArriveMoves, MoveKeeps
  <1>2. ASSUME NEW r \in Requests, Handle(r)
        PROVE  Inv'
    <2>1. Turn(r)
      BY <1>2, HandleTurns
    <2>2. StoreOK' /\ faults' \in 0 .. MaxFaults
      BY <2>1, TurnKeepsStore
    <2>3. PICK label, q : Moves(r, label, q)
      BY <2>1 DEF Turn
    <2> QED
      BY <2>2, <2>3, MoveKeeps DEF Moves
  <1>3. CASE UNCHANGED vars
    BY <1>3 DEF vars, Inv, SecretsTypeOK, LossIsTold, Exists
  <1> QED
    BY <1>1, <1>2, <1>3, CrashKeeps DEF Next, Finished

THEOREM SecretsInvariance ==
    Spec => []Inv
  BY InitInv, NextInv, PTL DEF Spec

\* Every file, request and answer has its type, faults and crashes included.
THEOREM SecretsTypesCorrect ==
    Spec => []SecretsTypeOK
  <1>1. Inv => SecretsTypeOK
    BY DEF Inv
  <1> QED
    BY <1>1, SecretsInvariance, PTL

\* Whatever writes fail and whenever the gateway stops, in the middle of UpdateSecret
\* too, every secret not in doubt is there and holds what the answers to its clients say.
THEOREM LossesAreTold ==
    Spec => []LossIsTold
  <1>1. Inv => LossIsTold
    BY DEF Inv
  <1> QED
    BY <1>1, SecretsInvariance, PTL

--------------------------------------------------------------------------------
(* No creation writes a secret over *)

Touched(n) == ~(n \in DOMAIN files' /\ files'[n] = files[n])

LEMMA BreakTouchesOwn ==
    ASSUME Inv, NEW r \in Requests, Breaks(r, Name(r)), NEW n \in DOMAIN files, Touched(n)
    PROVE  pc[r] \in {"update", "delete"} /\ Name(r) = n
  <1>1. CASE n # Name(r)
    BY <1>1, BreakTouches DEF Touched
  <1>2. CASE n = Name(r)
    BY <1>2 DEF Breaks, Exists
  <1> QED
    BY <1>1, <1>2

LEMMA TurnTouches ==
    ASSUME Inv, NEW r \in Requests, Turn(r), NEW n \in DOMAIN files, Touched(n)
    PROVE  pc[r] \in {"update", "delete"} /\ Name(r) = n /\ r \in InFlight /\ pc'[r] = "done"
  <1>1. PICK label, q : /\ Moves(r, label, q)
                        /\ \/ Creates(r, label, q) \/ Replaces(r, label, q) \/ Deletes(r, label, q)
                           \/ Looks(r, q) \/ Fails(r, label)
    BY DEF Turn
  <1>2. pc'[r] = label /\ r \in InFlight
    BY <1>1, OthersStay DEF Moves
  <1>3. CASE Creates(r, label, q)
    <2>1. PICK m \in Names, content \in Contents : ~Exists(m) /\ files' = With(files, m, content)
      BY <1>3 DEF Creates, Puts
    <2> QED
      BY <2>1 DEF Touched, Exists, With
  <1>4. CASE Replaces(r, label, q)
    <2>1. PICK content \in Contents : files' = With(files, Name(r), content)
      BY <1>4 DEF Replaces, Puts
    <2>2. Name(r) = n
      BY <2>1 DEF Touched, With
    <2> QED
      BY <1>2, <1>4, <2>2 DEF Replaces
  <1>5. CASE Deletes(r, label, q)
    <2>1. files' = Without(files, Name(r))
      BY <1>5 DEF Deletes
    <2>2. Name(r) = n
      BY <2>1 DEF Touched, Without
    <2> QED
      BY <1>2, <1>5, <2>2 DEF Deletes, Removed
  <1>6. CASE Looks(r, q)
    BY <1>6 DEF Looks, Touched
  <1>7. CASE Fails(r, label)
    <2>1. CASE Breaks(r, Name(r)) /\ label = "done"
      BY <1>2, <2>1, BreakTouchesOwn
    <2>2. CASE \E m \in Names : Fumbles(m)
      <3>1. PICK m \in Names : /\ ~Exists(m)
                               /\ files' = With(files, m, Empty) \/ files' = files
        BY <2>2 DEF Fumbles
      <3> QED
        BY <3>1 DEF Touched, Exists, With
    <2> QED
      BY <1>7, <2>1, <2>2 DEF Fails
  <1> QED
    BY <1>1, <1>3, <1>4, <1>5, <1>6, <1>7

\* What a client has stored changes only in the step in which an update or a delete of
\* that secret ends: no create, and no deployment that looked before the secret was
\* there and creates it now, writes it over, and no failure or crash hits another one.
THEOREM OnlyUpdatesAndDeletesWrite ==
    Spec => ClientsValuesStand
  <1> DEFINE Step == \A n \in DOMAIN files : Touched(n) =>
                        \E r \in InFlight : /\ pc[r] \in {"update", "delete"} /\ Name(r) = n
                                            /\ pc'[r] = "done"
  <1>1. Inv /\ [Next]_vars => [Step]_vars
    <2> SUFFICES ASSUME Inv, Next, NEW n \in DOMAIN files, Touched(n)
                 PROVE  \E r \in InFlight : /\ pc[r] \in {"update", "delete"} /\ Name(r) = n
                                            /\ pc'[r] = "done"
      OBVIOUS
    <2>1. CASE \E r \in Requests : Arrive(r)
      BY <2>1 DEF Arrive, Touched
    <2>2. CASE \E r \in Requests : Handle(r)
      BY <2>2, HandleTurns, TurnTouches
    <2>3. CASE CrashAndRestart
      <3>1. \E r \in InFlight : Breaks(r, Name(r))
        BY <2>3, CrashCuts DEF Touched
      <3> QED
        BY <2>3, <3>1, CrashCuts, BreakTouchesOwn DEF InFlight
    <2>4. CASE Finished
      BY <2>4 DEF Finished, vars, Touched
    <2> QED
      BY <2>1, <2>2, <2>3, <2>4 DEF Next
  <1>2. [Step]_vars => [\A n \in DOMAIN files :
          ~(n \in DOMAIN files' /\ files'[n] = files[n]) =>
             \E r \in InFlight : pc[r] \in {"update", "delete"} /\ Name(r) = n /\ pc'[r] = "done"]_vars
    BY DEF Touched
  <1> HIDE DEF Step
  <1> QED
    BY <1>1, <1>2, SecretsInvariance, PTL DEF Spec, ClientsValuesStand

--------------------------------------------------------------------------------
(* What the answers say as long as nothing fails *)

\* What a request that moves adds to the answers.
LEMMA AnswersAdd ==
    ASSUME Inv, NEW r \in Requests, NEW label, NEW q, Moves(r, label, q), NEW n
    PROVE  /\ Accepted("create", n, 201)' =
                 Accepted("create", n, 201) \cup (IF Made(label, q, n) THEN {r} ELSE {})
           /\ Accepted("delete", n, 204)' =
                 Accepted("delete", n, 204) \cup (IF Removed(label, q, n) THEN {r} ELSE {})
           /\ r \notin Accepted("create", n, 201) /\ r \notin Accepted("delete", n, 204)
  <1>1. /\ pc'[r] = label /\ req'[r] = q
        /\ \A s \in Requests \ {r} : pc'[s] = pc[s] /\ req'[s] = req[s]
    BY OthersStay DEF Moves
  <1>2. pc[r] # "done"
    BY DEF Moves, InFlight
  <1>3. \A s \in Requests : s \in Accepted("create", n, 201)' <=>
           IF s = r THEN Made(label, q, n) ELSE s \in Accepted("create", n, 201)
    BY <1>1 DEF Accepted, Made, Op, Name
  <1>4. \A s \in Requests : s \in Accepted("delete", n, 204)' <=>
           IF s = r THEN Removed(label, q, n) ELSE s \in Accepted("delete", n, 204)
    BY <1>1 DEF Accepted, Removed, Op, Name
  <1>5. /\ Accepted("create", n, 201) \subseteq Requests /\ Accepted("create", n, 201)' \subseteq Requests
        /\ Accepted("delete", n, 204) \subseteq Requests /\ Accepted("delete", n, 204)' \subseteq Requests
    BY DEF Accepted
  <1>6. r \notin Accepted("create", n, 201) /\ r \notin Accepted("delete", n, 204)
    BY <1>2 DEF Accepted
  <1> QED
    BY <1>3, <1>4, <1>5, <1>6

\* A secret is gone only when a delete of it has been accepted in that step.
LEMMA ExistsStays ==
    ASSUME Inv, NEW r \in Requests, NEW label, NEW q, Moves(r, label, q),
           \/ Creates(r, label, q) \/ Replaces(r, label, q) \/ Deletes(r, label, q)
           \/ Looks(r, q) \/ Fails(r, label),
           faults' = 0, NEW n, n \in DOMAIN files
    PROVE  n \in DOMAIN files' \/ Removed(label, q, n)
  <1>1. faults \in Nat
    BY SecretsAssumption DEF Inv, SecretsTypeOK
  <1>2. CASE Creates(r, label, q)
    BY <1>2 DEF Creates, Puts, With
  <1>3. CASE Replaces(r, label, q)
    BY <1>3 DEF Replaces, Puts, With
  <1>4. CASE Deletes(r, label, q)
    BY <1>4 DEF Deletes, Without
  <1>5. CASE Looks(r, q)
    BY <1>5 DEF Looks
  <1>6. CASE Fails(r, label)
    <2>1. faults' = faults + 1
      BY <1>6 DEF Fails
    <2> QED
      BY <1>1, <2>1
  <1> QED
    BY <1>2, <1>3, <1>4, <1>5, <1>6

LEMMA StillThereInvariance ==
    Spec => []StillThere
  <1>1. Init => StillThere
    BY DEF Init, StillThere, Deploying
  <1>2. ASSUME Inv, StillThere, NEW r \in Requests, Arrive(r)
        PROVE  StillThere'
    <2>1. PICK label, q : /\ Goto(r, label, q) /\ Flow(label, q) /\ q \in Request
                          /\ label \in Labels \ {"idle", "done"}
                          /\ label \in Deploying => label = "exists" /\ q.todo = q.call.secrets
      BY <1>2, ArriveMoves
    <2>2. /\ pc'[r] = label /\ req'[r] = q
          /\ \A s \in Requests \ {r} : pc'[s] = pc[s] /\ req'[s] = req[s]
      BY <1>2, <2>1, OthersStay
    <2>3. UNCHANGED <<files, faults>> /\ pc[r] = "idle" /\ label # "done"
      BY <1>2, <2>1 DEF Arrive
    <2>4. \A n : Accepted("delete", n, 204) \subseteq Accepted("delete", n, 204)'
      BY <2>2, <2>3 DEF Accepted, Op, Name
    <2>5. \A s \in Requests \ {r} : Passed(pc'[s], req'[s]) = Passed(pc[s], req[s])
      BY <2>2
    <2>6. label \in Deploying => Passed(label, q) = {}
      BY <2>1 DEF Passed
    <2>7. ASSUME faults' = 0, NEW s \in Requests, pc'[s] \in Deploying,
                 NEW n \in Passed(pc'[s], req'[s])
          PROVE  n \in DOMAIN files' \/ Accepted("delete", n, 204)' # {}
      <3>1. s # r
        BY <2>2, <2>6, <2>7
      <3>2. n \in DOMAIN files \/ Accepted("delete", n, 204) # {}
        BY <1>2, <2>2, <2>3, <2>5, <2>7, <3>1 DEF StillThere, Exists
      <3> QED
        BY <2>3, <2>4, <3>2
    <2> QED
      BY <2>7 DEF StillThere, Exists
  <1>3. ASSUME Inv, StillThere, NEW r \in Requests, Turn(r)
        PROVE  StillThere'
    <2>1. PICK label, q :
             /\ Moves(r, label, q) /\ Covers(r, label, q)
             /\ \/ Creates(r, label, q) \/ Replaces(r, label, q) \/ Deletes(r, label, q)
                \/ Looks(r, q) \/ Fails(r, label)
      BY <1>3 DEF Turn
    <2>2. /\ pc'[r] = label /\ req'[r] = q
          /\ \A s \in Requests \ {r} : pc'[s] = pc[s] /\ req'[s] = req[s]
      BY <1>3, <2>1, OthersStay DEF Moves
    <2>3. \A n : /\ Accepted("delete", n, 204) \subseteq Accepted("delete", n, 204)'
                 /\ Removed(label, q, n) => Accepted("delete", n, 204)' # {}
      BY <1>3, <2>1, AnswersAdd
    <2>4. ASSUME faults' = 0, NEW n, Exists(n) \/ Accepted("delete", n, 204) # {}
          PROVE  n \in DOMAIN files' \/ Accepted("delete", n, 204)' # {}
      <3>1. CASE Exists(n)
        BY <1>3, <2>1, <2>3, <2>4, <3>1, ExistsStays DEF Exists
      <3>2. CASE Accepted("delete", n, 204) # {}
        BY <2>3, <3>2
      <3> QED
        BY <2>4, <3>1, <3>2
    <2>5. ASSUME faults' = 0, NEW s \in Requests, pc'[s] \in Deploying,
                 NEW n \in Passed(pc'[s], req'[s])
          PROVE  n \in DOMAIN files' \/ Accepted("delete", n, 204)' # {}
      <3>1. faults = 0
        BY <1>3, <2>5, TurnKeepsStore
      <3>2. CASE s # r
        BY <1>3, <2>2, <2>4, <2>5, <3>1, <3>2 DEF StillThere
      <3>3. CASE s = r
        <4>1. label \in Deploying /\ n \in Passed(label, q)
          BY <2>2, <2>5, <3>3
        <4>2. pc[r] \in Deploying /\ (n \in Passed(pc[r], req[r]) \/ n \in DOMAIN files')
          BY <2>1, <2>5, <4>1 DEF Covers, Stands
        <4> QED
          BY <1>3, <2>4, <2>5, <3>1, <4>2 DEF StillThere
      <3> QED
        BY <3>2, <3>3
    <2> QED
      BY <2>5 DEF StillThere, Exists
  <1>4. Inv /\ StillThere /\ [Next]_vars => StillThere'
    <2> SUFFICES ASSUME Inv, StillThere, [Next]_vars
                 PROVE  StillThere'
      OBVIOUS
    <2>1. CASE UNCHANGED vars
      BY <2>1 DEF vars, StillThere, Exists, Accepted, Op, Name, Passed
    <2>2. CASE CrashAndRestart
      BY <2>2, CrashKeeps DEF StillThere
    <2>3. CASE \E r \in Requests : Handle(r)
      BY <1>3, <2>3, HandleTurns
    <2> QED
      BY <1>2, <2>1, <2>2, <2>3 DEF Next, Finished
  <1> QED
    BY <1>1, <1>4, SecretsInvariance, PTL DEF Spec

\* A step that answers a deployment with 500 has found one of its secrets missing.
LEMMA RefusedFor ==
    ASSUME Inv, NEW r \in Requests, Op(r) = "deploy", r \in InFlight, Handle(r),
           req'[r].answer = 500, faults' = 0
    PROVE  \E n \in SecretsOf(r) : n \in Passed(pc[r], req[r]) /\ ~Exists(n) /\ pc[r] \in Deploying
  <1>1. /\ req[r] \in Request /\ Flow(pc[r], req[r]) /\ req[r].answer = NoAnswer
        /\ req \in [Requests -> Request] /\ faults \in Nat
    BY RequestFacts, SecretsAssumption DEF SecretsTypeOK, InFlight
  <1>2. req'[r].answer # NoAnswer
    BY DEF NoAnswer
  <1>3. \A label : ~Goto(r, label, req[r])
    BY <1>1, <1>2 DEF Goto
  <1>4. \A created : ~Proceeds(r, created)
    <2>1. \A created : Proceeds(r, created) => req'[r].answer = req[r].answer
      BY <1>1 DEF Proceeds, Goto, Request
    <2> QED
      BY <1>1, <1>2, <2>1
  <1>5. \/ pc[r] = "again" /\ ~Exists(Current(r))
        \/ /\ pc[r] = "exists" /\ req[r].todo = <<>>
           /\ ~ \A n \in SecretsOf(r) : Exists(n)
        \/ /\ pc[r] = "mount"
           /\ ~ \A n \in SecretsOf(r) : Exists(n)
    <2>1. Deploy(r)
      BY <1>1 DEF Handle, HandleCreateSecret, HandleUpdateSecret, HandleDeleteSecret, Flow, Op
    <2>2. ~Look(r) /\ ~AutoCreate(r)
      BY <1>3, <1>4 DEF Look, AutoCreate
    <2>3. LookAgain(r) => pc[r] = "again" /\ ~Exists(Current(r))
      BY <1>4 DEF LookAgain
    <2>4. ValidateSecrets(r) => /\ pc[r] = "exists" /\ req[r].todo = <<>>
                                /\ ~ \A n \in SecretsOf(r) : Exists(n)
      BY <1>3 DEF ValidateSecrets
    <2>5. MountSecrets(r) => pc[r] = "mount" /\ ~ \A n \in SecretsOf(r) : Exists(n)
      <3>1. SUFFICES ASSUME Answer(r, 202)
                     PROVE  FALSE
        BY DEF MountSecrets
      <3>2. req'[r] = [req[r] EXCEPT !.answer = 202, !.todo = <<>>]
        BY <1>1, <3>1 DEF Answer, Goto
      <3>3. req'[r].answer = 202
        BY <1>1, <3>2 DEF Request
      <3> QED
        BY <3>3
    <2> QED
      BY <2>1, <2>2, <2>3, <2>4, <2>5 DEF Deploy
  <1>6. CASE pc[r] = "again" /\ ~Exists(Current(r))
    <2>1. req[r].todo \in Seq(Names) /\ req[r].todo # <<>>
      BY <1>1, <1>6, RequestFacts DEF Flow, Deploying
    <2>2. Current(r) \in Range(req[r].todo)
      BY <1>1, <2>1, Behead DEF Flow, Current
    <2>3. Current(r) \in SecretsOf(r)
      BY <1>1, <1>6, <2>2 DEF Flow, Deploying, SecretsOf
    <2> QED
      BY <1>6, <2>3 DEF Passed, Current, Deploying
  <1>7. CASE pc[r] \in {"exists", "mount"} /\ req[r].todo = <<>>
    <2>1. Range(req[r].todo) = {}
      BY <1>7 DEF Range
    <2>2. Passed(pc[r], req[r]) = SecretsOf(r)
      BY <1>7, <2>1 DEF Passed, SecretsOf
    <2> QED
      BY <1>5, <1>7, <2>2 DEF Deploying
  <1> QED
    BY <1>1, <1>5, <1>6, <1>7 DEF Flow

\* A deployment is refused only after a delete of one of its secrets was accepted, as
\* long as nothing fails: neither missing secrets nor other calls that create the same
\* ones at the same time make it fail.
THEOREM OnlyDeletesRefuse ==
    Spec => DeploysGetThrough
  <1> DEFINE Step == \A r \in InFlight :
                        Op(r) = "deploy" /\ req'[r].answer = 500 /\ faults' = 0 =>
                           \E n \in SecretsOf(r) : Accepted("delete", n, 204) # {}
  <1>1. Inv /\ StillThere /\ [Next]_vars => [Step]_vars
    <2> SUFFICES ASSUME Inv, StillThere, Next, NEW r \in InFlight, Op(r) = "deploy",
                        req'[r].answer = 500, faults' = 0
                 PROVE  \E n \in SecretsOf(r) : Accepted("delete", n, 204) # {}
      OBVIOUS
    <2>1. r \in Requests /\ req[r].answer = NoAnswer /\ faults \in Nat
      BY RequestFacts, SecretsAssumption DEF InFlight, SecretsTypeOK
    <2>2. req'[r] # req[r]
      BY <2>1 DEF NoAnswer
    <2>3. \A s \in Requests \ {r} : \A label, q : ~Goto(s, label, q)
      BY <2>1, <2>2, OthersStay
    <2>4. CASE \E s \in Requests : Arrive(s)
      <3>1. PICK s \in Requests : Arrive(s)
        BY <2>4
      <3>2. pc[s] = "idle" /\ s # r
        BY <3>1 DEF Arrive, InFlight
      <3> QED
        BY <2>3, <3>1, <3>2, ArriveMoves
    <2>5. CASE \E s \in Requests : Handle(s)
      <3>1. PICK s \in Requests : Handle(s)
        BY <2>5
      <3>2. s = r
        BY <2>1, <2>3, <3>1, HandleTurns DEF Turn, Moves
      <3>3. PICK n \in SecretsOf(r) : n \in Passed(pc[r], req[r]) /\ ~Exists(n) /\ pc[r] \in Deploying
        BY <2>1, <3>1, <3>2, RefusedFor
      <3>4. faults = 0
        BY <3>1, HandleTurns, TurnKeepsStore
      <3> QED
        BY <2>1, <3>3, <3>4 DEF StillThere
    <2>6. CASE CrashAndRestart
      BY <2>6, CrashKeeps
    <2>7. CASE Finished
      BY <2>2, <2>7 DEF Finished, vars
    <2> QED
      BY <2>4, <2>5, <2>6, <2>7 DEF Next
  <1> QED
    BY <1>1, SecretsInvariance, StillThereInvariance, PTL DEF Spec, DeploysGetThrough

--------------------------------------------------------------------------------
(* The ledger *)

\* The deployments that say they created secret n.
Holders(n) == {r \in Requests : n \in req[r].created}

LedgerOf(n) ==
    Cardinality(Accepted("create", n, 201)) + Cardinality(Holders(n))
       = Cardinality(Accepted("delete", n, 204)) + (IF Exists(n) THEN 1 ELSE 0)

LEMMA HoldersAdd ==
    ASSUME Inv, NEW r \in Requests, NEW label, NEW q, Goto(r, label, q)
    PROVE  /\ q.created = req[r].created => \A n : Holders(n)' = Holders(n)
           /\ \A m : q.created = req[r].created \cup {m} /\ m \notin req[r].created =>
                 /\ Holders(m)' = Holders(m) \cup {r} /\ r \notin Holders(m)
                 /\ \A n : n # m => Holders(n)' = Holders(n)
  <1>1. /\ req'[r] = q
        /\ \A s \in Requests \ {r} : req'[s] = req[s]
    BY OthersStay
  <1>2. \A n : /\ Holders(n)' \subseteq Requests /\ Holders(n) \subseteq Requests
               /\ \A s \in Requests : s \in Holders(n)' <=>
                     IF s = r THEN n \in q.created ELSE s \in Holders(n)
               /\ r \in Holders(n) <=> n \in req[r].created
    BY <1>1 DEF Holders
  <1> QED
    BY <1>2

\* Requests are counted one by one.
LEMMA Counted ==
    ASSUME IsFiniteSet(Requests), NEW n
    PROVE  LET A == Accepted("create", n, 201)
               H == Holders(n)
               D == Accepted("delete", n, 204)
           IN  /\ Cardinality(A) \in Nat /\ Cardinality(H) \in Nat /\ Cardinality(D) \in Nat
               /\ \A r : r \notin A => Cardinality(A \cup {r}) = Cardinality(A) + 1
               /\ \A r : r \notin H => Cardinality(H \cup {r}) = Cardinality(H) + 1
               /\ \A r : r \notin D => Cardinality(D \cup {r}) = Cardinality(D) + 1
  <1>1. ASSUME NEW S, S \subseteq Requests
        PROVE  /\ Cardinality(S) \in Nat
               /\ \A r : r \notin S => Cardinality(S \cup {r}) = Cardinality(S) + 1
    <2>1. IsFiniteSet(S)
      BY <1>1, FS_Subset
    <2> QED
      BY <2>1, FS_CardinalityType, FS_AddElement
  <1>2. /\ Accepted("create", n, 201) \subseteq Requests /\ Holders(n) \subseteq Requests
        /\ Accepted("delete", n, 204) \subseteq Requests
    BY DEF Accepted, Holders
  <1> QED
    BY <1>1, <1>2

LEMMA LedgerStays ==
    ASSUME NEW n, LedgerOf(n), Exists(n)' <=> Exists(n),
           Accepted("create", n, 201)' = Accepted("create", n, 201), Holders(n)' = Holders(n),
           Accepted("delete", n, 204)' = Accepted("delete", n, 204)
    PROVE  LedgerOf(n)'
  BY DEF LedgerOf

LEMMA LedgerTurns ==
    ASSUME IsFiniteSet(Requests), Inv, NEW r \in Requests, NEW label, NEW q,
           Moves(r, label, q), NEW n \in Names, LedgerOf(n), faults' = 0,
           \/ Creates(r, label, q) \/ Replaces(r, label, q) \/ Deletes(r, label, q)
           \/ Looks(r, q) \/ Fails(r, label)
    PROVE  LedgerOf(n)'
  <1> DEFINE A == Accepted("create", n, 201)
             H == Holders(n)
             D == Accepted("delete", n, 204)
  <1>1. /\ A' = A \cup (IF Made(label, q, n) THEN {r} ELSE {})
        /\ D' = D \cup (IF Removed(label, q, n) THEN {r} ELSE {})
        /\ r \notin A /\ r \notin D
    BY AnswersAdd
  <1>2. /\ q.created = req[r].created => \A k : Holders(k)' = Holders(k)
        /\ \A m : q.created = req[r].created \cup {m} /\ m \notin req[r].created =>
              /\ Holders(m)' = Holders(m) \cup {r} /\ r \notin Holders(m)
              /\ \A k : k # m => Holders(k)' = Holders(k)
    BY HoldersAdd DEF Moves
  <1>3. CASE Creates(r, label, q)
    <2>1. PICK m \in Names, content \in Contents :
             /\ ~Exists(m) /\ Puts(m, content)
             /\ \/ /\ Made(label, q, m) /\ q.created = req[r].created
                \/ /\ label = "exists" /\ m \notin req[r].created
                   /\ q.created = req[r].created \cup {m}
      BY <1>3 DEF Creates
    <2>2. ~Removed(label, q, n)
      BY <2>1 DEF Made, Removed
    <2>3. DOMAIN files' = DOMAIN files \cup {m}
      BY <2>1 DEF Puts, With
    <2>4. CASE m # n
      <3>1. ~Made(label, q, n)
        BY <2>1, <2>4 DEF Made
      <3>2. H' = H
        BY <1>2, <2>1, <2>4
      <3>3. Exists(n)' <=> Exists(n)
        BY <2>3, <2>4 DEF Exists
      <3> QED
        BY <1>1, <2>2, <3>1, <3>2, <3>3, LedgerStays
    <2>5. CASE m = n
      <3>1. ~Exists(n) /\ Exists(n)'
        BY <2>1, <2>3, <2>5 DEF Exists
      <3>2. CASE Made(label, q, n) /\ q.created = req[r].created
        <4>1. A' = A \cup {r} /\ D' = D /\ H' = H
          BY <1>1, <1>2, <2>2, <3>2
        <4>2. Cardinality(A') = Cardinality(A) + 1
          BY <1>1, <4>1, Counted
        <4> QED
          BY <3>1, <4>1, <4>2, Counted DEF LedgerOf
      <3>3. CASE /\ label = "exists" /\ n \notin req[r].created
                 /\ q.created = req[r].created \cup {n}
        <4>1. ~Made(label, q, n)
          BY <3>3 DEF Made
        <4>2. A' = A /\ D' = D /\ H' = H \cup {r} /\ r \notin H
          BY <1>1, <1>2, <2>2, <3>3, <4>1
        <4>3. Cardinality(H') = Cardinality(H) + 1
          BY <4>2, Counted
        <4> QED
          BY <3>1, <4>2, <4>3, Counted DEF LedgerOf
      <3> QED
        BY <2>1, <2>5, <3>2, <3>3
    <2> QED
      BY <2>4, <2>5
  <1>4. CASE Deletes(r, label, q)
    <2>1. PICK m : m = Name(r)
      OBVIOUS
    <2>2. /\ Removed(label, q, m) /\ Exists(m) /\ q.created = req[r].created
          /\ DOMAIN files' = DOMAIN files \ {m}
      BY <1>4, <2>1 DEF Deletes, Without
    <2>3. ~Made(label, q, n) /\ A' = A /\ H' = H
      BY <1>1, <1>2, <2>2 DEF Made, Removed
    <2>4. CASE m # n
      <3>1. ~Removed(label, q, n)
        BY <2>2, <2>4 DEF Removed
      <3>2. Exists(n)' <=> Exists(n)
        BY <2>2, <2>4 DEF Exists
      <3> QED
        BY <1>1, <2>3, <3>1, <3>2, LedgerStays
    <2>5. CASE m = n
      <3>1. D' = D \cup {r}
        BY <1>1, <2>2, <2>5
      <3>2. Cardinality(D') = Cardinality(D) + 1
        BY <1>1, <3>1, Counted
      <3>3. Exists(n) /\ ~Exists(n)'
        BY <2>2, <2>5 DEF Exists
      <3> QED
        BY <2>3, <3>2, <3>3, Counted DEF LedgerOf
    <2> QED
      BY <2>4, <2>5
  <1>5. CASE Replaces(r, label, q)
    <2>1. ~Made(label, q, n) /\ ~Removed(label, q, n) /\ H' = H
      BY <1>2, <1>5 DEF Replaces, Made, Removed
    <2>2. Exists(n)' <=> Exists(n)
      BY <1>5 DEF Replaces, Puts, With, Exists
    <2> QED
      BY <1>1, <2>1, <2>2, LedgerStays
  <1>6. CASE Looks(r, q)
    <2>1. ~Made(label, q, n) /\ ~Removed(label, q, n) /\ H' = H
      BY <1>2, <1>6 DEF Looks, Made, Removed
    <2>2. Exists(n)' <=> Exists(n)
      BY <1>6 DEF Looks, Exists
    <2> QED
      BY <1>1, <2>1, <2>2, LedgerStays
  <1>7. CASE Fails(r, label)
    <2>1. faults \in Nat /\ faults' = faults + 1
      BY <1>7, SecretsAssumption DEF Inv, SecretsTypeOK, Fails
    <2> QED
      BY <2>1
  <1> QED
    BY <1>3, <1>4, <1>5, <1>6, <1>7

\* As long as nothing fails, and however the calls interleave, the accepted creates of
\* a secret and the deployments that created it are as many as its accepted deletes, and
\* one more exactly if it is there: no two calls are told they made the same secret, and
\* no two that they removed it.
THEOREM SecretsAddUp ==
    ASSUME IsFiniteSet(Requests)
    PROVE  Spec => []SecretLedger
  <1> DEFINE Ledger == faults = 0 => \A n \in Names : LedgerOf(n)
  <1>1. Init => Ledger
    <2> SUFFICES ASSUME Init, NEW n \in Names
                 PROVE  LedgerOf(n)
      OBVIOUS
    <2>1. Accepted("create", n, 201) = {} /\ Accepted("delete", n, 204) = {}
      BY DEF Init, Accepted
    <2>2. \A r \in Requests : n \notin req[r].created
      BY DEF Init
    <2>3. Holders(n) = {}
      BY <2>2 DEF Holders
    <2>4. ~Exists(n)
      BY DEF Init, Exists
    <2> QED
      BY <2>1, <2>3, <2>4, FS_EmptySet DEF LedgerOf
  <1>2. Inv /\ Ledger /\ [Next]_vars => Ledger'
    <2> SUFFICES ASSUME Inv, Ledger, [Next]_vars, faults' = 0, NEW n \in Names
                 PROVE  LedgerOf(n)'
      OBVIOUS
    <2>1. CASE \E r \in Requests : Arrive(r)
      <3>1. PICK r \in Requests : Arrive(r)
        BY <2>1
      <3>2. PICK label, q : Goto(r, label, q) /\ q.created = {} /\ label # "done"
        BY <3>1, ArriveMoves
      <3>3. req[r].created = {} /\ pc[r] = "idle" /\ LedgerOf(n) /\ UNCHANGED files
        BY <2>1, <3>1, RequestFacts DEF Arrive, Flow
      <3>4. /\ pc'[r] = label /\ req'[r] = q
            /\ \A s \in Requests \ {r} : pc'[s] = pc[s] /\ req'[s] = req[s]
        BY <3>2, OthersStay
      <3>5. /\ Accepted("create", n, 201)' = Accepted("create", n, 201)
            /\ Accepted("delete", n, 204)' = Accepted("delete", n, 204)
        BY <3>2, <3>3, <3>4 DEF Accepted, Op, Name
      <3>6. Holders(n)' = Holders(n)
        BY <3>2, <3>3, HoldersAdd
      <3> QED
        BY <3>3, <3>5, <3>6, LedgerStays DEF Exists
    <2>2. CASE \E r \in Requests : Handle(r)
      <3>1. PICK r \in Requests : Turn(r)
        BY <2>2, HandleTurns
      <3>2. LedgerOf(n)
        BY <3>1, TurnKeepsStore
      <3> QED
        BY <3>1, <3>2, LedgerTurns DEF Turn
    <2>3. CASE CrashAndRestart
      BY <2>3, CrashKeeps
    <2>4. CASE UNCHANGED vars
      <3>1. LedgerOf(n)
        BY <2>4 DEF vars
      <3> QED
        BY <2>4, <3>1 DEF vars, LedgerOf, Accepted, Holders, Exists, Op, Name
    <2> QED
      BY <2>1, <2>2, <2>3, <2>4 DEF Next, Finished
  <1>3. Ledger => SecretLedger
    BY DEF SecretLedger, LedgerOf, Holders
  <1> HIDE DEF Ledger
  <1> QED
    BY <1>1, <1>2, <1>3, SecretsInvariance, PTL DEF Spec
================================================================================
