----------------------------- MODULE AdmissionProofs -----------------------------
(***************************************************************************)
(* Admission keeps its types, lets bearers in on live tokens only, turns   *)
(* no live token away, spreads failures and refuses nobody but for them,   *)
(* for every number of requests, addresses and logins, and every token     *)
(* life, window and limit.                                                 *)
(*                                                                         *)
(* The tokens' part follows from Inv: an entry of the token table is its   *)
(* login's reading of the clock plus the life of a token, a revoked token  *)
(* has none, and a login's token without one was revoked or is over.  The  *)
(* limiter's follows from LimiterInv: a bucket stands for the last         *)
(* failures under its key, and failures are divided into windows.          *)
(***************************************************************************)
EXTENDS Admission, SequenceTheorems, TLAPS

\* What a request at this label has and has not been told.
Flow(label, q) ==
    /\ label = "idle" <=> q.call = NoCall
    /\ label # "done" => q.answer = NoAnswer
    /\ label = "issue" => q.call.kind.op = "login"
    /\ label \in {"validate", "invalid", "revoke"} => q.call.kind.cred = "bearer"
    /\ label \in {"validate", "invalid", "allow", "reset"} => q.call.kind.op \in {"logout", "other"}
    /\ label = "revoke" => q.call.kind.op = "logout"
    /\ label = "reset" => q.call.kind.cred \in {"bearer", "good"}

\* No reading is of the future.
ReadingsPast == \A r \in Requests : req[r].reading <= clock

\* Clients know tokens from logins only.
TokensKnown ==
    \A r \in Requests : pc[r] # "idle" => Token(r) \in LoggedIn \cup {NoToken}

\* What a token's entry says, and what the lack of one means.
EntriesLive ==
    \A t \in DOMAIN tokens : t \in LoggedIn /\ ~LoggedOut(t) /\ tokens[t] = LiveUntil(t)

LossExplained ==
    \A t \in LoggedIn : t \in DOMAIN tokens \/ LoggedOut(t) \/ clock > LiveUntil(t)

Inv ==
    /\ AdmissionTypeOK
    /\ \A r \in Requests : Flow(pc[r], req[r])
    /\ ReadingsPast
    /\ TokensKnown
    /\ EntriesLive
    /\ LossExplained

\* A step of request r alone, which keeps its call: where it goes, with what.
Moves(r, label, q) ==
    /\ pc' = [pc EXCEPT ![r] = label]
    /\ req' = [req EXCEPT ![r] = q]
    /\ q \in Request /\ q.call = req[r].call /\ q.reading <= clock
    /\ label \in Labels \ {"idle"} /\ Flow(label, q)

--------------------------------------------------------------------------------
(* Lemmas *)

\* The records of the invariant.
LEMMA Facts ==
    ASSUME Inv, NEW r \in Requests
    PROVE  /\ pc[r] \in Labels /\ req[r] \in Request /\ Flow(pc[r], req[r])
           /\ req[r].reading \in Int /\ clock \in Int /\ req[r].reading <= clock
           /\ TTL \in Nat \ {0} /\ Window \in Nat \ {0} /\ Limit \in Nat \ {0}
           /\ pc[r] # "idle" => req[r].call \in Call /\ req[r].call # NoCall
           /\ pc[r] # "idle" => Key(r) \in Keys
  BY AdmissionAssumption
  DEF Inv, AdmissionTypeOK, Request, ReadingsPast, Flow, Time, Call, Key

\* What the others have stays.
LEMMA OthersStand ==
    ASSUME Inv, NEW r \in Requests, NEW label, NEW q, Moves(r, label, q)
    PROVE  /\ pc' \in [Requests -> Labels] /\ req' \in [Requests -> Request]
           /\ pc'[r] = label /\ req'[r] = q
           /\ \A t \in Requests \ {r} : pc'[t] = pc[t] /\ req'[t] = req[t]
           /\ \A t \in Requests : req'[t].call = req[t].call
  BY DEF Inv, AdmissionTypeOK, Moves

\* A call keeps the token it was made with, and a login's success is for ever.
LEMMA LoginsStand ==
    ASSUME Inv, NEW r \in Requests, NEW label, NEW q, Moves(r, label, q),
           pc[r] \notin {"idle", "done"}
    PROVE  /\ \A t \in Requests \ {r} : t \in LoggedIn' <=> t \in LoggedIn
           /\ r \notin LoggedIn
           /\ r \in LoggedIn' <=> label = "done" /\ Op(r) = "login" /\ q.answer = 200
           /\ LoggedIn \subseteq LoggedIn'
           /\ TokensKnown'
  <1>1. /\ pc'[r] = label /\ req'[r] = q
        /\ \A t \in Requests \ {r} : pc'[t] = pc[t] /\ req'[t] = req[t]
        /\ \A t \in Requests : req'[t].call = req[t].call
    BY OthersStand
  <1>2. \A t \in Requests \ {r} : t \in LoggedIn' <=> t \in LoggedIn
    BY <1>1 DEF LoggedIn, Op
  <1>3. r \notin LoggedIn
    BY DEF LoggedIn
  <1>4. r \in LoggedIn' <=> label = "done" /\ Op(r) = "login" /\ q.answer = 200
    BY <1>1 DEF LoggedIn, Op
  <1>5. LoggedIn \subseteq LoggedIn'
    BY <1>2, <1>3 DEF LoggedIn
  <1>6. \A t \in Requests : pc'[t] # "idle" => req'[t].call.token \in LoggedIn' \cup {NoToken}
    BY <1>1, <1>5 DEF Inv, TokensKnown, Token
  <1>7. TokensKnown'
    BY <1>6 DEF TokensKnown, Token
  <1> QED
    BY <1>2, <1>3, <1>4, <1>5, <1>7

\* So is a logout's.
LEMMA LogoutsStand ==
    ASSUME Inv, NEW r \in Requests, NEW label, NEW q, Moves(r, label, q),
           pc[r] \notin {"idle", "done"}, NEW t
    PROVE  LoggedOut(t)' <=>
              \/ LoggedOut(t)
              \/ label = "done" /\ Op(r) = "logout" /\ q.answer = 204 /\ Token(r) = t
  BY OthersStand DEF LoggedOut, Op, Token

\* A request that is neither logged in nor out, and leaves the tokens alone.
LEMMA MovePreserves ==
    ASSUME Inv, NEW r \in Requests, NEW label, NEW q, Moves(r, label, q),
           pc[r] \notin {"idle", "done"},
           ~(label = "done" /\ Op(r) = "login" /\ q.answer = 200),
           ~(label = "done" /\ Op(r) = "logout" /\ q.answer = 204),
           UNCHANGED <<clock, tokens>>
    PROVE  ReadingsPast' /\ TokensKnown' /\ EntriesLive' /\ LossExplained'
  <1>1. /\ pc'[r] = label /\ req'[r] = q
        /\ \A t \in Requests \ {r} : pc'[t] = pc[t] /\ req'[t] = req[t]
    BY OthersStand
  <1>2. LoggedIn' = LoggedIn /\ TokensKnown' /\ r \notin LoggedIn
    BY LoginsStand DEF LoggedIn
  <1>3. \A t : LoggedOut(t)' <=> LoggedOut(t)
    BY LogoutsStand
  <1>4. \A t \in LoggedIn : t \in Requests \ {r} /\ LiveUntil(t)' = LiveUntil(t)
    BY <1>1, <1>2 DEF LiveUntil, LoggedIn
  <1>5. ReadingsPast'
    BY <1>1 DEF ReadingsPast, Inv, Moves
  <1>6. EntriesLive'
    BY <1>2, <1>3, <1>4 DEF EntriesLive, Inv
  <1>7. LossExplained'
    BY <1>2, <1>3, <1>4 DEF LossExplained, Inv
  <1> QED
    BY <1>2, <1>5, <1>6, <1>7

LEMMA AnswerMoves ==
    ASSUME Inv, NEW r \in Requests, pc[r] \notin {"idle", "done"},
           NEW code \in {200, 204, 401, 429}, Answer(r, code)
    PROVE  \E q : Moves(r, "done", q) /\ q.answer = code /\ q.reading = req[r].reading
  <1> DEFINE q == [req[r] EXCEPT !.answer = code]
  <1>1. req[r] \in Request /\ req[r].call # NoCall /\ req[r].reading <= clock
    BY Facts DEF Flow
  <1>2. /\ q \in Request /\ q.call = req[r].call /\ q.answer = code
        /\ q.reading = req[r].reading
    BY <1>1 DEF Request
  <1>3. pc' = [pc EXCEPT ![r] = "done"] /\ req' = [req EXCEPT ![r] = q]
    BY DEF Answer
  <1> HIDE DEF q
  <1>4. Flow("done", q)
    BY <1>1, <1>2 DEF Flow
  <1>5. Moves(r, "done", q)
    BY <1>1, <1>2, <1>3, <1>4 DEF Moves, Labels
  <1> QED
    BY <1>2, <1>5

LEMMA GotoMoves ==
    ASSUME Inv, NEW r \in Requests, NEW label \in Labels \ {"idle"},
           Flow(label, req[r]), Goto(r, label)
    PROVE  Moves(r, label, req[r])
  <1>1. req[r] \in Request /\ req[r].reading <= clock
    BY Facts
  <1>2. req' = [req EXCEPT ![r] = req[r]]
    BY DEF Goto, Inv, AdmissionTypeOK
  <1> QED
    BY <1>1, <1>2 DEF Moves, Goto

\* The parts of the invariant make it up.
LEMMA MovedInv ==
    ASSUME Inv, NEW r \in Requests, NEW label, NEW q, Moves(r, label, q),
           clock' \in Time,
           DOMAIN tokens' \subseteq Requests,
           \A t \in DOMAIN tokens' : tokens'[t] \in TTL .. MaxTime + TTL,
           DOMAIN bucket' \subseteq Keys,
           \A k \in DOMAIN bucket' : bucket'[k] \in [count : 1 .. Limit,
                                                     reset : Window .. MaxTime + Window],
           failed' \in [Keys -> Seq(Requests)],
           ReadingsPast' /\ TokensKnown' /\ EntriesLive' /\ LossExplained'
    PROVE  Inv'
  <1>1. /\ pc' \in [Requests -> Labels] /\ req' \in [Requests -> Request]
        /\ pc'[r] = label /\ req'[r] = q
        /\ \A t \in Requests \ {r} : pc'[t] = pc[t] /\ req'[t] = req[t]
    BY OthersStand
  <1>2. AdmissionTypeOK'
    BY <1>1 DEF AdmissionTypeOK
  <1>3. \A t \in Requests : Flow(pc'[t], req'[t])
    BY <1>1 DEF Inv, Moves
  <1>4. \A t \in Requests : Flow(pc[t], req[t])'
    BY <1>3 DEF Flow
  <1> QED
    BY <1>2, <1>4 DEF Inv

\* A step that leaves clock, tokens, bucket or failed alone keeps their types.
LEMMA TypesStand ==
    ASSUME Inv
    PROVE  /\ UNCHANGED clock => clock' \in Time
           /\ UNCHANGED tokens => /\ DOMAIN tokens' \subseteq Requests
                                  /\ \A t \in DOMAIN tokens' : tokens'[t] \in TTL .. MaxTime + TTL
           /\ UNCHANGED bucket =>
                 /\ DOMAIN bucket' \subseteq Keys
                 /\ \A k \in DOMAIN bucket' : bucket'[k] \in [count : 1 .. Limit,
                                                     reset : Window .. MaxTime + Window]
           /\ UNCHANGED failed => failed' \in [Keys -> Seq(Requests)]
  BY DEF Inv, AdmissionTypeOK

--------------------------------------------------------------------------------
(* The steps *)

\* A successful login.
LEMMA IssuePreserves ==
    ASSUME Inv, NEW r \in Requests, Issue(r)
    PROVE  Inv'
  <1>1. pc[r] = "issue" /\ UNCHANGED <<clock, bucket, failed>> /\ Op(r) = "login"
    BY Facts DEF Issue, Flow, Op
  <1>2. PICK q : Moves(r, "done", q) /\ q.answer = 200 /\ q.reading = req[r].reading
    <2>1. Answer(r, 200)
      BY DEF Issue
    <2> QED
      BY <1>1, <2>1, AnswerMoves
  <1>3. /\ \A t \in Requests \ {r} : t \in LoggedIn' <=> t \in LoggedIn
        /\ r \in LoggedIn' /\ r \notin LoggedIn /\ LoggedIn \subseteq LoggedIn' /\ TokensKnown'
    BY <1>1, <1>2, LoginsStand
  <1>4. \A t : LoggedOut(t)' <=> LoggedOut(t)
    BY <1>1, <1>2, LogoutsStand
  <1>5. ~LoggedOut(r)
    <2>1. r # NoToken
      BY AdmissionAssumption
    <2>2. \A s \in Requests : pc[s] # "idle" => Token(s) # r
      BY <1>3, <2>1 DEF Inv, TokensKnown
    <2> QED
      BY <2>2 DEF LoggedOut
  <1>6. /\ DOMAIN tokens' = DOMAIN tokens \cup {r}
        /\ tokens'[r] = req[r].reading + TTL
        /\ \A t \in DOMAIN tokens \ {r} : tokens'[t] = tokens[t]
    BY DEF Issue, With
  <1>7. /\ pc'[r] = "done" /\ req'[r] = q
        /\ \A t \in Requests \ {r} : pc'[t] = pc[t] /\ req'[t] = req[t]
    BY <1>2, OthersStand
  <1>8. \A t \in Requests : LiveUntil(t)' = LiveUntil(t)
    BY <1>2, <1>7 DEF LiveUntil
  <1>9. r \notin DOMAIN tokens /\ DOMAIN tokens \subseteq LoggedIn
    BY <1>3 DEF Inv, EntriesLive
  <1>10. ReadingsPast'
    BY <1>1, <1>2, <1>7 DEF ReadingsPast, Inv, Moves
  <1>11. EntriesLive'
    <2> SUFFICES ASSUME NEW t \in DOMAIN tokens'
                 PROVE  t \in LoggedIn' /\ ~LoggedOut(t)' /\ tokens'[t] = LiveUntil(t)'
      BY DEF EntriesLive
    <2>1. CASE t = r
      BY <1>3, <1>4, <1>5, <1>6, <1>8, <2>1 DEF LiveUntil
    <2>2. CASE t # r
      <3>1. t \in DOMAIN tokens /\ t \in LoggedIn /\ t \in Requests
        BY <1>6, <1>9, <2>2 DEF LoggedIn
      <3> QED
        BY <1>3, <1>4, <1>6, <1>8, <2>2, <3>1 DEF Inv, EntriesLive
    <2> QED
      BY <2>1, <2>2
  <1>12. LossExplained'
    <2> SUFFICES ASSUME NEW t \in LoggedIn'
                 PROVE  t \in DOMAIN tokens' \/ LoggedOut(t)' \/ (clock > LiveUntil(t))'
      BY DEF LossExplained
    <2>1. CASE t = r
      BY <1>6, <2>1
    <2>2. CASE t # r
      <3>1. t \in LoggedIn /\ t \in Requests
        BY <1>3, <2>2 DEF LoggedIn
      <3> QED
        BY <1>1, <1>4, <1>6, <1>8, <3>1 DEF Inv, LossExplained
    <2> QED
      BY <2>1, <2>2
  <1>13. req[r].reading \in 0 .. MaxTime
    BY Facts DEF Request, Time
  <1>14. \A t \in DOMAIN tokens' : t \in Requests /\ tokens'[t] \in TTL .. MaxTime + TTL
    BY <1>6, <1>13, AdmissionAssumption DEF Inv, AdmissionTypeOK
  <1> QED
    BY <1>1, <1>2, <1>3, <1>10, <1>11, <1>12, <1>14, TypesStand, MovedInv

\* A token is looked up: it may be found over.
LEMMA ValidatePreserves ==
    ASSUME Inv, NEW r \in Requests, Validate(r)
    PROVE  Inv'
  <1>1. pc[r] = "validate" /\ UNCHANGED <<clock, bucket, failed>>
    BY DEF Validate
  <1>2. PICK label \in {"reset", "invalid"} :
           /\ Goto(r, label)
           /\ \/ UNCHANGED tokens
              \/ /\ tokens' = Without(tokens, Token(r))
                 /\ Token(r) \in DOMAIN tokens => req[r].reading > tokens[Token(r)]
    <2>1. Token(r) \in DOMAIN tokens => tokens[Token(r)] \in Int /\ req[r].reading \in Int
      BY Facts DEF Inv, EntriesLive, LiveUntil, LoggedIn
    <2> QED
      BY <2>1 DEF Validate
  <1>3. Flow(label, req[r])
    BY <1>1, Facts DEF Flow
  <1>4. Moves(r, label, req[r])
    BY <1>2, <1>3, GotoMoves DEF Labels
  <1>5. CASE UNCHANGED tokens
    BY <1>1, <1>2, <1>4, <1>5, MovePreserves, TypesStand, MovedInv
  <1>6. CASE tokens' = Without(tokens, Token(r)) /\
             (Token(r) \in DOMAIN tokens => req[r].reading > tokens[Token(r)])
    <2>1. /\ DOMAIN tokens' = DOMAIN tokens \ {Token(r)}
          /\ \A t \in DOMAIN tokens' : tokens'[t] = tokens[t]
      BY <1>6 DEF Without
    <2>2. LoggedIn' = LoggedIn /\ TokensKnown'
      BY <1>1, <1>2, <1>4, LoginsStand DEF LoggedIn
    <2>3. \A t : LoggedOut(t)' <=> LoggedOut(t)
      BY <1>1, <1>2, <1>4, LogoutsStand
    <2>4. req' = req
      BY <1>2 DEF Goto
    <2>5. \A t : LiveUntil(t)' = LiveUntil(t)
      BY <2>4 DEF LiveUntil
    <2>6. ReadingsPast'
      BY <1>1, <2>4 DEF ReadingsPast, Inv
    <2>7. EntriesLive'
      BY <2>1, <2>2, <2>3, <2>5 DEF EntriesLive, Inv
    <2>8. LossExplained'
      <3> SUFFICES ASSUME NEW t \in LoggedIn, t \notin DOMAIN tokens'
                   PROVE  LoggedOut(t) \/ clock > LiveUntil(t)
        BY <1>1, <2>2, <2>3, <2>5 DEF LossExplained
      <3>1. CASE t \notin DOMAIN tokens
        BY <3>1 DEF Inv, LossExplained
      <3>2. CASE t \in DOMAIN tokens
        <4>1. t = Token(r) /\ tokens[t] = LiveUntil(t) /\ t \in Requests
          BY <2>1, <3>2 DEF Inv, EntriesLive, LoggedIn
        <4>2. req[r].reading > LiveUntil(t)
          BY <1>6, <3>2, <4>1
        <4>3. LiveUntil(t) \in Int
          BY <4>1, Facts DEF LiveUntil
        <4> QED
          BY <4>2, <4>3, Facts
      <3> QED
        BY <3>1, <3>2
    <2>9. \A t \in DOMAIN tokens' : t \in Requests /\ tokens'[t] \in TTL .. MaxTime + TTL
      BY <2>1 DEF Inv, AdmissionTypeOK
    <2> QED
      BY <1>1, <1>4, <2>2, <2>6, <2>7, <2>8, <2>9, TypesStand, MovedInv
  <1> QED
    BY <1>2, <1>5, <1>6

\* A logout.
LEMMA RevokePreserves ==
    ASSUME Inv, NEW r \in Requests, Revoke(r)
    PROVE  Inv'
  <1>1. pc[r] = "revoke" /\ UNCHANGED <<clock, bucket, failed>> /\ Op(r) = "logout"
    BY Facts DEF Revoke, Flow, Op
  <1>2. PICK q : Moves(r, "done", q) /\ q.answer = 204 /\ q.reading = req[r].reading
    <2>1. Answer(r, 204)
      BY DEF Revoke
    <2> QED
      BY <1>1, <2>1, AnswerMoves
  <1>3. LoggedIn' = LoggedIn /\ TokensKnown'
    BY <1>1, <1>2, LoginsStand DEF LoggedIn
  <1>4. \A t : LoggedOut(t)' <=> LoggedOut(t) \/ Token(r) = t
    BY <1>1, <1>2, LogoutsStand
  <1>5. /\ DOMAIN tokens' = DOMAIN tokens \ {Token(r)}
        /\ \A t \in DOMAIN tokens' : tokens'[t] = tokens[t]
    BY DEF Revoke, Without
  <1>6. /\ pc'[r] = "done" /\ req'[r] = q
        /\ \A t \in Requests \ {r} : pc'[t] = pc[t] /\ req'[t] = req[t]
    BY <1>2, OthersStand
  <1>7. \A t \in Requests : LiveUntil(t)' = LiveUntil(t)
    BY <1>2, <1>6 DEF LiveUntil
  <1>8. ReadingsPast'
    BY <1>1, <1>2, <1>6 DEF ReadingsPast, Inv, Moves
  <1>9. EntriesLive'
    BY <1>3, <1>4, <1>5, <1>7 DEF EntriesLive, Inv, LoggedIn
  <1>10. LossExplained'
    BY <1>1, <1>3, <1>4, <1>5, <1>7 DEF LossExplained, Inv, LoggedIn
  <1>11. \A t \in DOMAIN tokens' : t \in Requests /\ tokens'[t] \in TTL .. MaxTime + TTL
    BY <1>5 DEF Inv, AdmissionTypeOK
  <1> QED
    BY <1>1, <1>2, <1>3, <1>8, <1>9, <1>10, <1>11, TypesStand, MovedInv

\* The limiter.
LEMMA AllowPreserves ==
    ASSUME Inv, NEW r \in Requests, Allow(r)
    PROVE  Inv'
  <1> DEFINE b == Current(Key(r), req[r].reading)
             new == IF AtLimit(b) THEN b ELSE [b EXCEPT !.count = @ + 1]
  <1>1. /\ pc[r] = "allow" /\ UNCHANGED <<clock, tokens>>
        /\ failed' = failed \/ failed' = [failed EXCEPT ![Key(r)] = Append(failed[Key(r)], r)]
        /\ bucket' = With(bucket, Key(r), new)
        /\ Answer(r, 401) \/ Answer(r, 429)
    BY DEF Allow
  <1>2. PICK q : Moves(r, "done", q) /\ q.answer \in {401, 429}
    BY <1>1, AnswerMoves
  <1>3. ReadingsPast' /\ TokensKnown' /\ EntriesLive' /\ LossExplained'
    BY <1>1, <1>2, MovePreserves
  <1>4. Key(r) \in Keys /\ req[r].reading \in 0 .. MaxTime
    BY <1>1, Facts DEF Request, Time
  <1>5. /\ b \in [count : 0 .. Limit, reset : Window .. MaxTime + Window]
        /\ ~AtLimit(b) => b.count < Limit
        /\ AtLimit(b) => b.count \in 1 .. Limit
    <2>1. CASE b = Fresh(req[r].reading)
      <3>1. Fresh(req[r].reading) \in [count : {0}, reset : Window .. MaxTime + Window]
        BY <1>4, AdmissionAssumption DEF Fresh
      <3> QED
        BY <2>1, <3>1, AdmissionAssumption DEF AtLimit
    <2>2. CASE Key(r) \in DOMAIN bucket /\ b = bucket[Key(r)]
      <3>1. bucket[Key(r)] \in [count : 1 .. Limit, reset : Window .. MaxTime + Window]
        BY <2>2 DEF Inv, AdmissionTypeOK
      <3> QED
        BY <2>2, <3>1, AdmissionAssumption DEF AtLimit
    <2> QED
      BY <2>1, <2>2 DEF Current
  <1> HIDE DEF b
  <1>6. new \in [count : 1 .. Limit, reset : Window .. MaxTime + Window]
    BY <1>5, AdmissionAssumption
  <1> HIDE DEF new
  <1>7. /\ DOMAIN bucket' \subseteq Keys
        /\ \A k \in DOMAIN bucket' : bucket'[k] \in [count : 1 .. Limit,
                                                     reset : Window .. MaxTime + Window]
    BY <1>1, <1>4, <1>6 DEF With, Inv, AdmissionTypeOK
  <1>8. failed' \in [Keys -> Seq(Requests)]
    <2>1. failed \in [Keys -> Seq(Requests)]
      BY DEF Inv, AdmissionTypeOK
    <2>2. Append(failed[Key(r)], r) \in Seq(Requests)
      BY <1>4, <2>1
    <2> QED
      BY <1>1, <2>1, <2>2
  <1> QED
    BY <1>1, <1>2, <1>3, <1>7, <1>8, TypesStand, MovedInv

\* A success.
LEMMA ServeAnswers ==
    ASSUME Inv, NEW r \in Requests, Reset(r)
    PROVE  \/ Answer(r, 200) /\ Op(r) = "other"
           \/ Goto(r, "revoke") /\ Op(r) = "logout" /\ Cred(r) = "bearer"
           \/ Answer(r, 401)
  <1>1. pc[r] = "reset" /\ Serve(r)
    BY DEF Reset
  <1>2. Op(r) \in {"logout", "other"} /\ Cred(r) \in {"bearer", "good"}
    BY <1>1, Facts DEF Flow, Op, Cred
  <1> QED
    BY <1>1, <1>2 DEF Serve

LEMMA ResetPreserves ==
    ASSUME Inv, NEW r \in Requests, Reset(r)
    PROVE  Inv'
  <1>1. /\ pc[r] = "reset" /\ UNCHANGED <<clock, tokens>>
        /\ failed' = [failed EXCEPT ![Key(r)] = <<>>]
        /\ bucket' = Without(bucket, Key(r))
    BY DEF Reset
  <1>2. /\ Op(r) \in {"logout", "other"} /\ Cred(r) \in {"bearer", "good"}
        /\ req[r].answer = NoAnswer /\ req[r].call # NoCall
    BY <1>1, Facts DEF Flow, Op, Cred
  <1>3. \/ Answer(r, 200) /\ Op(r) = "other"
        \/ Goto(r, "revoke") /\ Op(r) = "logout" /\ Cred(r) = "bearer"
        \/ Answer(r, 401)
    BY ServeAnswers
  <1>4. PICK label, q : /\ Moves(r, label, q)
                        /\ ~(label = "done" /\ Op(r) = "login" /\ q.answer = 200)
                        /\ ~(label = "done" /\ Op(r) = "logout" /\ q.answer = 204)
    <2>1. CASE Answer(r, 200) /\ Op(r) = "other"
      BY <1>1, <2>1, AnswerMoves
    <2>2. CASE Answer(r, 401)
      BY <1>1, <2>2, AnswerMoves
    <2>3. CASE Goto(r, "revoke") /\ Op(r) = "logout" /\ Cred(r) = "bearer"
      <3>1. Flow("revoke", req[r])
        BY <1>2, <2>3 DEF Flow, Op, Cred
      <3> QED
        BY <2>3, <3>1, GotoMoves DEF Labels
    <2> QED
      BY <1>3, <2>1, <2>2, <2>3
  <1>5. ReadingsPast' /\ TokensKnown' /\ EntriesLive' /\ LossExplained'
    BY <1>1, <1>4, MovePreserves
  <1>6. /\ DOMAIN bucket' \subseteq Keys
        /\ \A k \in DOMAIN bucket' : bucket'[k] \in [count : 1 .. Limit,
                                                     reset : Window .. MaxTime + Window]
    BY <1>1 DEF Without, Inv, AdmissionTypeOK
  <1>7. failed' \in [Keys -> Seq(Requests)]
    BY <1>1, EmptySeq DEF Inv, AdmissionTypeOK
  <1> QED
    BY <1>1, <1>4, <1>5, <1>6, <1>7, TypesStand, MovedInv

\* The second reading of the clock.
LEMMA ReadClockPreserves ==
    ASSUME Inv, NEW r \in Requests, ReadClock(r)
    PROVE  Inv'
  <1> DEFINE q == [req[r] EXCEPT !.reading = clock]
  <1>1. /\ pc[r] = "invalid" /\ UNCHANGED <<clock, tokens, bucket, failed>>
        /\ pc' = [pc EXCEPT ![r] = "allow"] /\ req' = [req EXCEPT ![r] = q]
    BY DEF ReadClock
  <1>2. req[r] \in Request /\ clock \in Time
    BY Facts DEF Inv, AdmissionTypeOK
  <1>3. q \in Request /\ q.call = req[r].call /\ q.answer = req[r].answer /\ q.reading = clock
    BY <1>2 DEF Request
  <1> HIDE DEF q
  <1>4. Flow("allow", q)
    BY <1>1, <1>3, Facts DEF Flow
  <1>5. Moves(r, "allow", q)
    BY <1>1, <1>3, <1>4, Facts DEF Moves, Labels
  <1>6. ReadingsPast' /\ TokensKnown' /\ EntriesLive' /\ LossExplained'
    BY <1>1, <1>5, MovePreserves
  <1> QED
    BY <1>1, <1>5, <1>6, TypesStand, MovedInv

\* How a call goes on.
LEMMA TurnsOf ==
    ASSUME NEW kind \in Kind
    PROVE  LET turn == Turns(kind.op, kind.cred)
           IN  \/ turn = <<"done", 200>> /\ kind.op = "public"
               \/ turn = <<"done", 401>>
               \/ turn = <<"issue", NoAnswer>> /\ kind.op = "login"
               \/ turn = <<"validate", NoAnswer>> /\ kind.op \in {"logout", "other"}
                                                  /\ kind.cred = "bearer"
               \/ turn = <<"reset", NoAnswer>> /\ kind.op \in {"logout", "other"}
                                               /\ kind.cred = "good"
               \/ turn = <<"allow", NoAnswer>> /\ kind.op \in {"logout", "other"}
  <1>1. kind.op \in {"login", "logout", "public", "other"} /\ kind.cred \in {"good", "bad", "bearer"}
    BY DEF Kind
  <1>2. CASE kind.op = "public"
    BY <1>2 DEF Turns
  <1>3. CASE kind.op = "login"
    BY <1>3 DEF Turns
  <1>4. CASE kind.op \in {"logout", "other"}
    BY <1>1, <1>4 DEF Turns
  <1> QED
    BY <1>1, <1>2, <1>3, <1>4

LEMMA ArrivePreserves ==
    ASSUME Inv, NEW r \in Requests, Arrive(r)
    PROVE  Inv'
  <1>1. PICK call, turn :
           /\ call \in Sends
           /\ turn = Turns(call.kind.op, call.kind.cred)
           /\ pc' = [pc EXCEPT ![r] = turn[1]]
           /\ req' = [req EXCEPT ![r] =
                 [call |-> call, answer |-> turn[2],
                  reading |-> IF turn[1] \in {"issue", "validate", "allow"} THEN clock ELSE 0]]
    BY DEF Arrive
  <1>2. pc[r] = "idle" /\ UNCHANGED <<clock, tokens, bucket, failed>>
    BY DEF Arrive
  <1>3. /\ call \in Call /\ call.kind \in Kind
        /\ call.token \in LoggedIn \cup {NoToken}
    <2>1. call \in Call /\ call.token \in LoggedIn \cup {NoToken}
      BY <1>1 DEF Sends
    <2>2. call.kind \in Kinds
      BY <2>1 DEF Call
    <2> QED
      BY <2>1, <2>2, AdmissionAssumption
  <1>4. call # NoCall
    BY <1>3, AdmissionAssumption
  <1> DEFINE q == [call |-> call, answer |-> turn[2],
                   reading |-> IF turn[1] \in {"issue", "validate", "allow"} THEN clock ELSE 0]
             label == turn[1]
  <1>5. clock \in Time /\ 0 \in Time /\ 0 <= clock
    BY AdmissionAssumption DEF Inv, AdmissionTypeOK, Time
  <1>6. \/ label = "done" /\ q.answer = 200 /\ call.kind.op = "public"
        \/ label = "done" /\ q.answer = 401
        \/ label = "issue" /\ q.answer = NoAnswer /\ call.kind.op = "login"
        \/ label = "validate" /\ q.answer = NoAnswer /\ call.kind.op \in {"logout", "other"}
              /\ call.kind.cred = "bearer"
        \/ label = "reset" /\ q.answer = NoAnswer /\ call.kind.op \in {"logout", "other"}
              /\ call.kind.cred = "good"
        \/ label = "allow" /\ q.answer = NoAnswer /\ call.kind.op \in {"logout", "other"}
    BY <1>1, <1>3, TurnsOf
  <1>7. q.call = call /\ q.reading \in Time /\ q.reading <= clock
    <2>1. q.call = call
      OBVIOUS
    <2>2. q.reading = IF turn[1] \in {"issue", "validate", "allow"} THEN clock ELSE 0
      OBVIOUS
    <2>3. q.reading \in {clock, 0}
      BY <2>2
    <2> HIDE DEF q
    <2> QED
      BY <1>5, <2>1, <2>3, AdmissionAssumption DEF Time
  <1>8. q \in Request
    BY <1>3, <1>5, <1>6 DEF Request, NoAnswer
  <1> HIDE DEF q, label
  <1>9. pc' = [pc EXCEPT ![r] = label] /\ req' = [req EXCEPT ![r] = q]
    BY <1>1 DEF q, label
  <1>10. /\ pc'[r] = label /\ req'[r] = q
         /\ \A t \in Requests \ {r} : pc'[t] = pc[t] /\ req'[t] = req[t]
         /\ pc' \in [Requests -> Labels] /\ req' \in [Requests -> Request]
    BY <1>6, <1>8, <1>9 DEF Inv, AdmissionTypeOK, Labels
  <1>11. Flow(label, q)
    BY <1>4, <1>6, <1>7 DEF Flow
  <1>12. \A t \in Requests : Flow(pc'[t], req'[t])
    BY <1>10, <1>11 DEF Inv
  <1>13. LoggedIn' = LoggedIn /\ r \notin LoggedIn
    <2>1. r \notin LoggedIn /\ r \notin LoggedIn'
      BY <1>2, <1>6, <1>7, <1>10 DEF LoggedIn, Op, NoAnswer
    <2>2. \A t \in Requests \ {r} : t \in LoggedIn' <=> t \in LoggedIn
      BY <1>10 DEF LoggedIn, Op
    <2> QED
      BY <2>1, <2>2 DEF LoggedIn
  <1>14. \A t : LoggedOut(t)' <=> LoggedOut(t)
    <2>1. pc[r] # "done" /\ q.answer # 204
      BY <1>2, <1>6 DEF NoAnswer
    <2> QED
      BY <1>10, <2>1 DEF LoggedOut, Op, Token
  <1>15. \A t \in LoggedIn : LiveUntil(t)' = LiveUntil(t)
    BY <1>10, <1>13 DEF LiveUntil, LoggedIn
  <1>16. ReadingsPast'
    BY <1>2, <1>7, <1>10 DEF ReadingsPast, Inv
  <1>17. TokensKnown'
    <2>1. \A t \in Requests : pc'[t] # "idle" => req'[t].call.token \in LoggedIn \cup {NoToken}
      BY <1>3, <1>7, <1>10 DEF Inv, TokensKnown, Token
    <2> QED
      BY <1>13, <2>1 DEF TokensKnown, Token
  <1>18. EntriesLive' /\ LossExplained'
    BY <1>2, <1>13, <1>14, <1>15 DEF EntriesLive, LossExplained, Inv
  <1>19. AdmissionTypeOK'
    BY <1>2, <1>10 DEF Inv, AdmissionTypeOK
  <1>20. \A t \in Requests : Flow(pc[t], req[t])'
    BY <1>12 DEF Flow
  <1> QED
    BY <1>16, <1>17, <1>18, <1>19, <1>20 DEF Inv

LEMMA TickPreserves ==
    ASSUME Inv, Tick
    PROVE  Inv'
  <1>1. /\ clock \in Int /\ clock' = clock + 1 /\ clock' \in Time
        /\ UNCHANGED <<tokens, bucket, pc, req, failed>>
    BY AdmissionAssumption DEF Tick, Inv, AdmissionTypeOK, Time
  <1>2. LoggedIn' = LoggedIn /\ \A t : LoggedOut(t)' <=> LoggedOut(t)
    BY <1>1 DEF LoggedIn, LoggedOut, Op, Token
  <1>3. \A t \in Requests : LiveUntil(t)' = LiveUntil(t) /\ LiveUntil(t) \in Int
    BY <1>1, Facts DEF LiveUntil
  <1>4. AdmissionTypeOK'
    BY <1>1 DEF Inv, AdmissionTypeOK
  <1>5. \A t \in Requests : Flow(pc[t], req[t])'
    BY <1>1 DEF Inv, Flow
  <1>6. ReadingsPast'
    BY <1>1, Facts DEF ReadingsPast
  <1>7. TokensKnown'
    BY <1>1, <1>2 DEF Inv, TokensKnown, Token
  <1>8. EntriesLive'
    BY <1>1, <1>2, <1>3 DEF Inv, EntriesLive, LoggedIn
  <1>9. LossExplained'
    BY <1>1, <1>2, <1>3 DEF Inv, LossExplained, LoggedIn
  <1> QED
    BY <1>4, <1>5, <1>6, <1>7, <1>8, <1>9 DEF Inv

LEMMA StutterPreserves ==
    ASSUME Inv, UNCHANGED vars
    PROVE  Inv'
  BY DEF Inv, AdmissionTypeOK, Flow, ReadingsPast, TokensKnown, EntriesLive, LossExplained,
         LoggedIn, LoggedOut, LiveUntil, Op, Token, vars

LEMMA NextInv ==
    ASSUME Inv, [Next]_vars
    PROVE  Inv'
  BY ArrivePreserves, IssuePreserves, ValidatePreserves, RevokePreserves, ReadClockPreserves,
     AllowPreserves, ResetPreserves, TickPreserves, StutterPreserves
  DEF Next, Handle, Finished

LEMMA InitInv ==
    ASSUME Init
    PROVE  Inv
  <1> DEFINE q == [call |-> NoCall, reading |-> 0, answer |-> NoAnswer]
  <1>1. /\ clock = 0 /\ clock \in Time
        /\ DOMAIN tokens = {} /\ DOMAIN bucket = {}
        /\ failed \in [Keys -> Seq(Requests)]
        /\ pc = [r \in Requests |-> "idle"] /\ req = [r \in Requests |-> q]
    BY AdmissionAssumption, EmptySeq DEF Init, Time
  <1>2. q \in Request /\ q.call = NoCall /\ q.reading = 0 /\ q.answer = NoAnswer
    BY AdmissionAssumption DEF Request, NoAnswer, Time
  <1> HIDE DEF q
  <1>3. AdmissionTypeOK
    BY <1>1, <1>2 DEF AdmissionTypeOK, Labels
  <1>4. \A r \in Requests : Flow(pc[r], req[r])
    BY <1>1, <1>2 DEF Flow
  <1>5. ReadingsPast /\ TokensKnown
    BY <1>1, <1>2 DEF ReadingsPast, TokensKnown
  <1>6. LoggedIn = {}
    BY <1>1 DEF LoggedIn
  <1>7. EntriesLive /\ LossExplained
    BY <1>1, <1>6 DEF EntriesLive, LossExplained
  <1> QED
    BY <1>3, <1>4, <1>5, <1>7 DEF Inv

--------------------------------------------------------------------------------
(* Theorems *)

\* The invariant holds in every state of every behaviour.
THEOREM Invariance == Spec => []Inv
  <1>1. Init => Inv
    BY InitInv
  <1>2. Inv /\ [Next]_vars => Inv'
    BY NextInv
  <1> QED
    BY <1>1, <1>2, PTL DEF Spec

\* Every value the manager and the limiter hold has its type; in particular no bucket
\* counts beyond the limit (allow of pkg/middleware/rate_limiter.go).
THEOREM AdmissionTypeCorrect == Spec => []AdmissionTypeOK
  <1>1. Inv => AdmissionTypeOK
    BY DEF Inv
  <1> QED
    BY <1>1, Invariance, PTL

\* Only the step that looks a token up takes a request from there.
LEMMA OnlyValidates ==
    ASSUME Inv, NEW r \in Requests, [Next]_vars, pc[r] = "validate", pc'[r] # "validate"
    PROVE  Validate(r)
  <1>1. ASSUME NEW t \in Requests, t # r, Arrive(t) \/ Handle(t)
        PROVE  pc'[r] = pc[r]
    <2>1. \E label : pc' = [pc EXCEPT ![t] = label]
      <3>1. CASE Arrive(t)
        BY <3>1 DEF Arrive
      <3>2. CASE Reset(t)
        BY <3>2, ServeAnswers DEF Answer, Goto
      <3>3. CASE Issue(t) \/ Revoke(t) \/ ReadClock(t) \/ Allow(t)
        BY <3>3 DEF Issue, Revoke, ReadClock, Allow, Answer
      <3>4. CASE Validate(t)
        BY <3>4 DEF Validate, Goto
      <3> QED
        BY <1>1, <3>1, <3>2, <3>3, <3>4 DEF Handle
    <2> QED
      BY <1>1, <2>1 DEF Inv, AdmissionTypeOK
  <1>2. CASE \E t \in Requests : Arrive(t) \/ Handle(t)
    <2>1. Arrive(r) \/ Handle(r)
      BY <1>1, <1>2
    <2> QED
      BY <2>1 DEF Arrive, Handle, Issue, Revoke, ReadClock, Allow, Reset
  <1>3. CASE Tick \/ UNCHANGED vars
    BY <1>3 DEF Tick, vars
  <1> QED
    BY <1>2, <1>3 DEF Next, Finished

\* A bearer is let in only on a token a login got, that no logout has revoked and that
\* had not expired when the request read the clock (Validate of pkg/auth/manager.go).
THEOREM LiveTokensOnly == Spec => OnlyLiveTokensAdmit
  <1> DEFINE Step == \A r \in Requests : pc[r] = "validate" /\ pc'[r] = "reset" =>
                        LET t == Token(r)
                        IN  t \in LoggedIn /\ ~LoggedOut(t) /\ req[r].reading <= LiveUntil(t)
  <1>1. Inv /\ [Next]_vars => Step
    <2> SUFFICES ASSUME Inv, [Next]_vars, NEW r \in Requests,
                        pc[r] = "validate", pc'[r] = "reset"
                 PROVE  /\ Token(r) \in LoggedIn /\ ~LoggedOut(Token(r))
                        /\ req[r].reading <= LiveUntil(Token(r))
      OBVIOUS
    <2>1. Validate(r)
      BY OnlyValidates
    <2>2. Token(r) \in DOMAIN tokens /\ req[r].reading <= tokens[Token(r)]
      BY <2>1 DEF Validate, Goto, Inv, AdmissionTypeOK
    <2> QED
      BY <2>2 DEF Inv, EntriesLive
  <1>2. OnlyLiveTokensAdmit <=> [][Step]_vars
    BY DEF OnlyLiveTokensAdmit
  <1> QED
    BY <1>1, <1>2, Invariance, PTL DEF Spec

\* A token found invalid by the last moment of its life was revoked, also when Validate
\* deletes it under requests that read the clock earlier.
THEOREM NoLiveTokenRefused == Spec => LiveTokensAdmit
  <1> DEFINE Step == \A r \in Requests :
                        pc[r] = "validate" /\ pc'[r] = "invalid" /\ Token(r) \in LoggedIn =>
                           clock > LiveUntil(Token(r)) \/ LoggedOut(Token(r))
  <1>1. Inv /\ [Next]_vars => Step
    <2> SUFFICES ASSUME Inv, [Next]_vars, NEW r \in Requests, Token(r) \in LoggedIn,
                        pc[r] = "validate", pc'[r] = "invalid"
                 PROVE  clock > LiveUntil(Token(r)) \/ LoggedOut(Token(r))
      OBVIOUS
    <2>1. Validate(r)
      BY OnlyValidates
    <2>2. Token(r) \notin DOMAIN tokens \/ ~(req[r].reading <= tokens[Token(r)])
      BY <2>1 DEF Validate, Goto, Inv, AdmissionTypeOK
    <2>3. CASE Token(r) \notin DOMAIN tokens
      BY <2>3 DEF Inv, LossExplained
    <2>4. CASE Token(r) \in DOMAIN tokens /\ ~(req[r].reading <= tokens[Token(r)])
      <3>1. tokens[Token(r)] = LiveUntil(Token(r)) /\ LiveUntil(Token(r)) \in Int
        BY <2>4, Facts DEF Inv, EntriesLive, LiveUntil, LoggedIn
      <3> QED
        BY <2>4, <3>1, Facts
    <2> QED
      BY <2>2, <2>3, <2>4
  <1>2. LiveTokensAdmit <=> [][Step]_vars
    BY DEF LiveTokensAdmit
  <1> QED
    BY <1>1, <1>2, Invariance, PTL DEF Spec

--------------------------------------------------------------------------------
(* The limiter *)

\* When the failures that count under k read the clock.
ReadBy(list, known) == [i \in 1 .. Len(list) |-> known[list[i]].reading]
Readings(k) == ReadBy(failed[k], req)

\* Failure o opened a window: after a success, or when that of an earlier one was over.
Opens(times, o) ==
    o = 1 \/ \E q \in 1 .. o - 1 : o <= q + Limit /\ times[o] > times[q] + Window

\* Every window has at most Limit failures.
Spaced(times) ==
    \A m \in 1 .. Len(times) : \E o \in 1 .. m : m < o + Limit /\ Opens(times, o)

\* The last count failures are those of a window that ends at reset.
Windowed(times, count, reset) ==
    /\ count <= Len(times)
    /\ Opens(times, Len(times) - count + 1)
    /\ reset = times[Len(times) - count + 1] + Window

LimiterInv ==
    /\ \A k \in Keys : \A i \in 1 .. Len(failed[k]) : pc[failed[k][i]] = "done"
    /\ \A k \in Keys : Spaced(Readings(k))
    /\ \A k \in Keys :
          IF k \in DOMAIN bucket THEN Windowed(Readings(k), bucket[k].count, bucket[k].reset)
          ELSE failed[k] = <<>>

\* A failure that falls into the window that is open counts on it.
LEMMA CountsOn ==
    ASSUME NEW times \in Seq(Int), NEW t \in Int, NEW count \in Nat \ {0}, NEW reset,
           Spaced(times), Windowed(times, count, reset), count < Limit
    PROVE  /\ Spaced(Append(times, t)) /\ Windowed(Append(times, t), count + 1, reset)
  <1>1. PICK more : more = Append(times, t)
    OBVIOUS
  <1>2. /\ Len(more) = Len(times) + 1 /\ Len(times) \in Nat /\ Limit \in Nat
        /\ \A i \in 1 .. Len(times) : more[i] = times[i]
    BY <1>1, AdmissionAssumption
  <1>3. \A o \in 1 .. Len(times) : Opens(times, o) => Opens(more, o)
    BY <1>2 DEF Opens
  <1>4. PICK o : o = Len(times) - count + 1
    OBVIOUS
  <1>5. o \in 1 .. Len(times) /\ Opens(times, o) /\ reset = times[o] + Window /\ count <= Len(times)
    BY <1>2, <1>4 DEF Windowed
  <1>6. o = Len(more) - (count + 1) + 1
    BY <1>2, <1>4
  <1>7. Windowed(more, count + 1, reset)
    BY <1>2, <1>3, <1>5, <1>6 DEF Windowed
  <1>8. Spaced(more)
    <2> SUFFICES ASSUME NEW m \in 1 .. Len(more)
                 PROVE  \E p \in 1 .. m : m < p + Limit /\ Opens(more, p)
      BY DEF Spaced
    <2>1. CASE m \in 1 .. Len(times)
      <3>1. PICK p \in 1 .. m : m < p + Limit /\ Opens(times, p)
        BY <2>1 DEF Spaced
      <3> QED
        BY <1>2, <1>3, <2>1, <3>1
    <2>2. CASE m = Len(more)
      <3>1. o \in 1 .. m /\ m < o + Limit
        BY <1>2, <1>4, <1>5, <2>2
      <3> QED
        BY <1>3, <1>5, <3>1
    <2> QED
      BY <1>2, <2>1, <2>2
  <1> QED
    BY <1>1, <1>7, <1>8

\* One that finds no window, or one that is over, opens the next.
LEMMA OpensNext ==
    ASSUME NEW times \in Seq(Int), NEW t \in Int, Spaced(times),
           \/ times = <<>>
           \/ \E count \in 1 .. Limit, reset \in Int : Windowed(times, count, reset) /\ t > reset
    PROVE  /\ Spaced(Append(times, t)) /\ Windowed(Append(times, t), 1, t + Window)
  <1>1. PICK more : more = Append(times, t)
    OBVIOUS
  <1>2. PICK n : n = Len(more)
    OBVIOUS
  <1>3. /\ n = Len(times) + 1 /\ Len(times) \in Nat /\ Limit \in Nat \ {0}
        /\ \A i \in 1 .. Len(times) : more[i] = times[i]
        /\ more[n] = t
    BY <1>1, <1>2, AdmissionAssumption
  <1>4. \A o \in 1 .. Len(times) : Opens(times, o) => Opens(more, o)
    BY <1>3 DEF Opens
  <1>5. Opens(more, n)
    <2>1. CASE times = <<>>
      BY <1>3, <2>1 DEF Opens
    <2>2. CASE \E count \in 1 .. Limit, reset \in Int : Windowed(times, count, reset) /\ t > reset
      <3>1. PICK count \in 1 .. Limit, reset \in Int : Windowed(times, count, reset) /\ t > reset
        BY <2>2
      <3>2. PICK q : q = Len(times) - count + 1
        OBVIOUS
      <3>3. /\ q \in 1 .. n - 1 /\ n <= q + Limit /\ more[q] = times[q]
            /\ reset = times[q] + Window
        BY <1>3, <3>1, <3>2 DEF Windowed
      <3> QED
        BY <1>3, <3>1, <3>3 DEF Opens
    <2> QED
      BY <2>1, <2>2
  <1>6. Windowed(more, 1, t + Window)
    <2>1. Len(more) - 1 + 1 = n
      BY <1>2, <1>3
    <2> QED
      BY <1>2, <1>3, <1>5, <2>1 DEF Windowed
  <1>7. Spaced(more)
    <2> SUFFICES ASSUME NEW m \in 1 .. n
                 PROVE  \E p \in 1 .. m : m < p + Limit /\ Opens(more, p)
      BY <1>2 DEF Spaced
    <2>1. CASE m \in 1 .. Len(times)
      <3>1. PICK p \in 1 .. m : m < p + Limit /\ Opens(times, p)
        BY <2>1 DEF Spaced
      <3> QED
        BY <1>3, <1>4, <2>1, <3>1
    <2>2. CASE m = n
      BY <1>3, <1>5, <2>2
    <2> QED
      BY <1>3, <2>1, <2>2
  <1> QED
    BY <1>1, <1>6, <1>7

\* Of 2 * Limit + 1 failures the second or a later one opened a window.
LEMMA SpacedApart ==
    ASSUME NEW times \in Seq(Int), Spaced(times), NEW i \in 1 .. Len(times) - 2 * Limit
    PROVE  \E a, b \in i .. i + 2 * Limit : times[b] > times[a] + Window
  <1>1. Limit \in Nat \ {0} /\ Len(times) \in Nat
    BY AdmissionAssumption
  <1>2. PICK m : m = i + 2 * Limit
    OBVIOUS
  <1>3. m \in 1 .. Len(times)
    BY <1>1, <1>2
  <1>4. PICK b \in 1 .. m : m < b + Limit /\ Opens(times, b)
    BY <1>3 DEF Spaced
  <1>5. b \in i .. m /\ b > i + Limit
    BY <1>1, <1>2, <1>4
  <1>6. PICK a \in 1 .. b - 1 : b <= a + Limit /\ times[b] > times[a] + Window
    BY <1>1, <1>4, <1>5 DEF Opens
  <1>7. a \in i .. m
    BY <1>1, <1>2, <1>5, <1>6
  <1> QED
    BY <1>2, <1>5, <1>6, <1>7

LEMMA ReadingsFacts ==
    ASSUME Inv, NEW k \in Keys
    PROVE  /\ Readings(k) \in Seq(Int) /\ Len(Readings(k)) = Len(failed[k])
           /\ \A i \in 1 .. Len(failed[k]) :
                 failed[k][i] \in Requests /\ Readings(k)[i] = req[failed[k][i]].reading
  <1>1. PICK list : list = failed[k]
    OBVIOUS
  <1>2. list \in Seq(Requests) /\ Len(list) \in Nat
    BY <1>1 DEF Inv, AdmissionTypeOK
  <1>3. \A i \in 1 .. Len(list) : list[i] \in Requests /\ req[list[i]].reading \in Int
    BY <1>2, Facts
  <1>4. PICK times : times = [i \in 1 .. Len(list) |-> req[list[i]].reading]
    OBVIOUS
  <1>5. /\ times \in Seq(Int) /\ Len(times) = Len(list)
        /\ \A i \in 1 .. Len(list) : times[i] = req[list[i]].reading
    BY <1>2, <1>3, <1>4
  <1>6. Readings(k) = times
    BY <1>1, <1>4 DEF Readings, ReadBy
  <1> QED
    BY <1>1, <1>3, <1>5, <1>6

\* Requests that are done keep their reading.
LEMMA ReadingsStand ==
    ASSUME Inv, LimiterInv, NEW r \in Requests, pc[r] # "done",
           \A t \in Requests \ {r} : pc'[t] = pc[t] /\ req'[t] = req[t],
           NEW k \in Keys, failed'[k] = failed[k]
    PROVE  Readings(k)' = Readings(k) /\ \A i \in 1 .. Len(failed'[k]) : pc'[failed'[k][i]] = "done"
  <1>1. PICK list : list = failed[k]
    OBVIOUS
  <1>2. \A i \in 1 .. Len(list) : list[i] \in Requests /\ pc[list[i]] = "done"
    BY <1>1, ReadingsFacts DEF LimiterInv
  <1>3. \A i \in 1 .. Len(list) : pc'[list[i]] = "done" /\ req'[list[i]] = req[list[i]]
    BY <1>2
  <1>4. failed'[k] = list
    BY <1>1
  <1>5. Readings(k)' = [i \in 1 .. Len(list) |-> req'[list[i]].reading]
    BY <1>4 DEF Readings, ReadBy
  <1>6. Readings(k) = [i \in 1 .. Len(list) |-> req[list[i]].reading]
    BY <1>1 DEF Readings, ReadBy
  <1> QED
    BY <1>3, <1>4, <1>5, <1>6

\* What the limiter invariant says of one key.
Limits(list, times, known, b) ==
    /\ Spaced(times)
    /\ IF known THEN Windowed(times, b.count, b.reset) ELSE list = <<>>

LEMMA LimitsMakeInv ==
    ASSUME \A k \in Keys : /\ \A i \in 1 .. Len(failed'[k]) : pc'[failed'[k][i]] = "done"
                           /\ Limits(failed'[k], Readings(k)', k \in DOMAIN bucket', bucket'[k])
    PROVE  LimiterInv'
  BY DEF LimiterInv, Limits

LEMMA LimitsHold ==
    ASSUME LimiterInv, NEW k \in Keys
    PROVE  Limits(failed[k], Readings(k), k \in DOMAIN bucket, bucket[k])
  BY DEF LimiterInv, Limits

\* A step that has nothing to do with the limiter.
LEMMA LimiterStands ==
    ASSUME Inv, LimiterInv, NEW r \in Requests, pc[r] # "done",
           \A t \in Requests \ {r} : pc'[t] = pc[t] /\ req'[t] = req[t],
           UNCHANGED <<bucket, failed>>
    PROVE  LimiterInv'
  <1>1. ASSUME NEW k \in Keys
        PROVE  /\ \A i \in 1 .. Len(failed'[k]) : pc'[failed'[k][i]] = "done"
               /\ Limits(failed'[k], Readings(k)', k \in DOMAIN bucket', bucket'[k])
    <2>1. failed'[k] = failed[k] /\ bucket' = bucket
      OBVIOUS
    <2>2. Readings(k)' = Readings(k) /\ \A i \in 1 .. Len(failed'[k]) : pc'[failed'[k][i]] = "done"
      BY <2>1, ReadingsStand
    <2> QED
      BY <2>1, <2>2, LimitsHold
  <1> QED
    BY <1>1, LimitsMakeInv

LEMMA ResetLimits ==
    ASSUME Inv, LimiterInv, NEW r \in Requests, Reset(r)
    PROVE  LimiterInv'
  <1>1. /\ pc[r] = "reset" /\ bucket' = Without(bucket, Key(r))
        /\ failed' = [failed EXCEPT ![Key(r)] = <<>>]
        /\ Key(r) \in Keys /\ failed \in [Keys -> Seq(Requests)]
    BY Facts DEF Reset, Inv, AdmissionTypeOK
  <1>2. \A t \in Requests \ {r} : pc'[t] = pc[t] /\ req'[t] = req[t]
    BY ServeAnswers DEF Answer, Goto, Inv, AdmissionTypeOK
  <1>3. ASSUME NEW k \in Keys
        PROVE  /\ \A i \in 1 .. Len(failed'[k]) : pc'[failed'[k][i]] = "done"
               /\ Limits(failed'[k], Readings(k)', k \in DOMAIN bucket', bucket'[k])
    <2>1. CASE k = Key(r)
      <3>1. PICK none : none = <<>>
        OBVIOUS
      <3>2. PICK times : times = [i \in 1 .. Len(none) |-> req'[none[i]].reading]
        OBVIOUS
      <3>3. Len(none) = 0 /\ Len(times) = 0 /\ failed'[k] = none /\ k \notin DOMAIN bucket'
        BY <1>1, <2>1, <3>1, <3>2 DEF Without
      <3>4. Readings(k)' = times
        BY <3>2, <3>3 DEF Readings, ReadBy
      <3>5. Spaced(times)
        BY <3>3 DEF Spaced
      <3>6. Limits(none, times, FALSE, bucket'[k])
        BY <3>1, <3>5 DEF Limits
      <3> HIDE <3>1, <3>2
      <3>7. Limits(failed'[k], Readings(k)', k \in DOMAIN bucket', bucket'[k])
        BY <3>3, <3>4, <3>6 DEF Limits
      <3>8. \A i \in 1 .. Len(none) : FALSE
        BY <3>3
      <3> QED
        BY <3>3, <3>7, <3>8
    <2>2. CASE k # Key(r)
      <3>1. failed'[k] = failed[k]
        BY <1>1, <2>2
      <3>2. (k \in DOMAIN bucket' <=> k \in DOMAIN bucket)
            /\ (k \in DOMAIN bucket => bucket'[k] = bucket[k])
        BY <1>1, <2>2 DEF Without
      <3>3. Readings(k)' = Readings(k) /\ \A i \in 1 .. Len(failed'[k]) : pc'[failed'[k][i]] = "done"
        BY <1>1, <1>2, <3>1, ReadingsStand
      <3> QED
        BY <3>1, <3>2, <3>3, LimitsHold DEF Limits
    <2> QED
      BY <2>1, <2>2
  <1> QED
    BY <1>3, LimitsMakeInv

\* A failure more is a reading more.
LEMMA ReadingsGrow ==
    ASSUME NEW list \in Seq(Requests), NEW times \in Seq(Int), Len(times) = Len(list),
           NEW r \in Requests, NEW t \in Int, NEW known, known[r].reading = t,
           \A i \in 1 .. Len(list) : known[list[i]].reading = times[i]
    PROVE  ReadBy(Append(list, r), known) = Append(times, t)
  <1>1. PICK list2 : list2 = Append(list, r)
    OBVIOUS
  <1>2. /\ Len(list2) = Len(list) + 1 /\ list2[Len(list) + 1] = r /\ Len(list) \in Nat
        /\ \A i \in 1 .. Len(list) : list2[i] = list[i]
    BY <1>1
  <1>3. PICK more : more = Append(times, t)
    OBVIOUS
  <1>4. /\ more \in Seq(Int) /\ Len(more) = Len(list) + 1 /\ more[Len(list) + 1] = t
        /\ \A i \in 1 .. Len(list) : more[i] = times[i]
    BY <1>3
  <1>5. \A i \in 1 .. Len(list2) : known[list2[i]].reading = more[i] /\ more[i] \in Int
    <2> TAKE i \in 1 .. Len(list2)
    <2>1. CASE i = Len(list) + 1
      BY <1>2, <1>4, <2>1
    <2>2. CASE i \in 1 .. Len(list)
      BY <1>2, <1>4, <2>2
    <2> QED
      BY <1>2, <2>1, <2>2
  <1>6. PICK times2 : times2 = [i \in 1 .. Len(list2) |-> known[list2[i]].reading]
    OBVIOUS
  <1>7. times2 \in Seq(Int) /\ Len(times2) = Len(more) /\ \A i \in 1 .. Len(times2) : times2[i] = more[i]
    BY <1>2, <1>4, <1>5, <1>6
  <1>8. times2 = more
    BY <1>4, <1>7, SeqEqual
  <1>9. ReadBy(list2, known) = times2
    BY <1>6 DEF ReadBy
  <1> QED
    BY <1>1, <1>3, <1>8, <1>9

\* What allow decides on, and what it makes of it.
LEMMA AllowLimits ==
    ASSUME Inv, LimiterInv, NEW r \in Requests, Allow(r)
    PROVE  LimiterInv'
  <1>1. PICK k0 : k0 = Key(r)
    OBVIOUS
  <1>2. PICK b : b = Current(k0, req[r].reading)
    OBVIOUS
  <1>3. PICK b2 : b2 = IF AtLimit(b) THEN b ELSE [b EXCEPT !.count = @ + 1]
    OBVIOUS
  <1>4. PICK t : t = req[r].reading
    OBVIOUS
  <1>5. PICK code : code = IF AtLimit(b) THEN 429 ELSE 401
    OBVIOUS
  <1>6. /\ pc[r] = "allow" /\ bucket' = With(bucket, k0, b2) /\ Answer(r, code)
        /\ failed' = IF AtLimit(b) THEN failed ELSE [failed EXCEPT ![k0] = Append(@, r)]
        /\ k0 \in Keys /\ failed \in [Keys -> Seq(Requests)] /\ t \in Int
    BY <1>1, <1>2, <1>3, <1>4, <1>5, Facts DEF Allow, Inv, AdmissionTypeOK
  <1>7. /\ \A u \in Requests \ {r} : pc'[u] = pc[u] /\ req'[u] = req[u]
        /\ pc'[r] = "done" /\ req'[r].reading = t
    <2>1. /\ pc \in [Requests -> Labels] /\ req \in [Requests -> Request] /\ req[r] \in Request
      BY DEF Inv, AdmissionTypeOK
    <2>2. PICK q : q = [req[r] EXCEPT !.answer = code]
      OBVIOUS
    <2>3. q.reading = t
      BY <1>4, <2>1, <2>2 DEF Request
    <2>4. pc' = [pc EXCEPT ![r] = "done"] /\ req' = [req EXCEPT ![r] = q]
      BY <1>6, <2>2 DEF Answer
    <2> QED
      BY <2>1, <2>3, <2>4
  <1>8. PICK times : times = Readings(k0)
    OBVIOUS
  <1>9. PICK list : list = failed[k0]
    OBVIOUS
  <1>10. /\ times \in Seq(Int) /\ Len(times) = Len(list) /\ list \in Seq(Requests)
         /\ Spaced(times) /\ Len(list) \in Nat
         /\ \A i \in 1 .. Len(list) : list[i] \in Requests \ {r} /\ pc[list[i]] = "done"
                                      /\ times[i] = req[list[i]].reading
    <2>1. Spaced(times) /\ \A i \in 1 .. Len(list) : pc[list[i]] = "done"
      BY <1>6, <1>8, <1>9 DEF LimiterInv
    <2>2. list \in Seq(Requests)
      BY <1>6, <1>9
    <2> QED
      BY <1>6, <1>8, <1>9, <2>1, <2>2, ReadingsFacts
  <1>11. \/ b = bucket[k0] /\ k0 \in DOMAIN bucket /\ ~(t > b.reset)
            /\ Windowed(times, b.count, b.reset)
            /\ b \in [count : 1 .. Limit, reset : Window .. MaxTime + Window]
         \/ b = Fresh(t) /\ times = <<>>
         \/ b = Fresh(t) /\ \E count \in 1 .. Limit, reset \in Int :
                               Windowed(times, count, reset) /\ t > reset
    <2>1. CASE k0 \notin DOMAIN bucket
      <3>1. list = <<>>
        BY <1>6, <1>9, <2>1 DEF LimiterInv
      <3>2. times = <<>>
        <4>1. Len(times) = 0
          BY <1>10, <3>1
        <4> QED
          BY <1>10, <4>1, EmptySeq
      <3> QED
        BY <1>2, <1>4, <2>1, <3>2 DEF Current
    <2>2. CASE k0 \in DOMAIN bucket
      <3>1. PICK d : d = bucket[k0]
        OBVIOUS
      <3>2. /\ d \in [count : 1 .. Limit, reset : Window .. MaxTime + Window]
            /\ Windowed(times, d.count, d.reset)
        BY <1>6, <1>8, <2>2, <3>1 DEF Inv, AdmissionTypeOK, LimiterInv
      <3>3. d.count \in 1 .. Limit /\ d.reset \in Int
        BY <3>2, AdmissionAssumption
      <3>4. b = IF t > d.reset THEN Fresh(t) ELSE d
        BY <1>2, <1>4, <2>2, <3>1 DEF Current
      <3> QED
        BY <2>2, <3>1, <3>2, <3>3, <3>4
    <2> QED
      BY <2>1, <2>2
  <1>12. Limit \in Nat \ {0} /\ Fresh(t).count = 0 /\ Fresh(t).reset = t + Window
    BY AdmissionAssumption DEF Fresh
  <1>13. ASSUME NEW k \in Keys, k # k0
         PROVE  /\ \A i \in 1 .. Len(failed'[k]) : pc'[failed'[k][i]] = "done"
                /\ Limits(failed'[k], Readings(k)', k \in DOMAIN bucket', bucket'[k])
    <2>1. failed'[k] = failed[k]
      BY <1>6, <1>13
    <2>2. (k \in DOMAIN bucket' <=> k \in DOMAIN bucket)
          /\ (k \in DOMAIN bucket => bucket'[k] = bucket[k])
      BY <1>6, <1>13 DEF With
    <2>3. Readings(k)' = Readings(k) /\ \A i \in 1 .. Len(failed'[k]) : pc'[failed'[k][i]] = "done"
      BY <1>6, <1>7, <2>1, ReadingsStand
    <2> QED
      BY <2>1, <2>2, <2>3, LimitsHold DEF Limits
  <1>14. k0 \in DOMAIN bucket' /\ bucket'[k0] = b2
    BY <1>6 DEF With
  <1>15. CASE AtLimit(b)
    <2>1. b2 = b /\ Windowed(times, b.count, b.reset)
      BY <1>3, <1>11, <1>12, <1>15 DEF AtLimit
    <2>2. failed'[k0] = failed[k0]
      BY <1>6, <1>15
    <2>3. Readings(k0)' = times /\ \A i \in 1 .. Len(failed'[k0]) : pc'[failed'[k0][i]] = "done"
      BY <1>6, <1>7, <1>8, <2>2, ReadingsStand
    <2>4. Limits(failed'[k0], Readings(k0)', k0 \in DOMAIN bucket', bucket'[k0])
      BY <1>10, <1>14, <2>1, <2>3 DEF Limits
    <2> QED
      BY <1>13, <2>3, <2>4, LimitsMakeInv
  <1>16. CASE ~AtLimit(b)
    <2>1. PICK list2 : list2 = Append(list, r)
      OBVIOUS
    <2>2. /\ Len(list2) = Len(list) + 1 /\ list2[Len(list) + 1] = r
          /\ \A i \in 1 .. Len(list) : list2[i] = list[i]
      BY <1>10, <2>1
    <2>3. failed'[k0] = list2
      BY <1>6, <1>9, <1>16, <2>1
    <2>4. \A i \in 1 .. Len(list2) : i = Len(list) + 1 \/ i \in 1 .. Len(list)
      BY <1>10, <2>2
    <2>5. \A i \in 1 .. Len(list2) : pc'[list2[i]] = "done"
      BY <1>7, <1>10, <2>2, <2>4
    <2>6. Readings(k0)' = Append(times, t)
      <3>1. PICK known : known = req'
        OBVIOUS
      <3>2. Readings(k0)' = ReadBy(list2, known)
        BY <2>3, <3>1 DEF Readings
      <3>3. known[r].reading = t /\ \A i \in 1 .. Len(list) : known[list[i]].reading = times[i]
        BY <1>7, <1>10, <3>1
      <3> QED
        <4>1. list \in Seq(Requests) /\ times \in Seq(Int) /\ Len(times) = Len(list) /\ t \in Int
          BY <1>6, <1>10
        <4>2. ReadBy(Append(list, r), known) = Append(times, t)
          BY <3>3, <4>1, ReadingsGrow
        <4> QED
          BY <2>1, <3>2, <4>2
    <2>7. Spaced(Append(times, t)) /\ Windowed(Append(times, t), b2.count, b2.reset)
      <3>1. CASE /\ Windowed(times, b.count, b.reset)
                 /\ b \in [count : 1 .. Limit, reset : Window .. MaxTime + Window]
        <4>1. b.count \in Nat \ {0} /\ b.count < Limit
          BY <1>12, <1>16, <3>1 DEF AtLimit
        <4>2. b2.count = b.count + 1 /\ b2.reset = b.reset
          BY <1>3, <1>16, <3>1
        <4> QED
          BY <1>6, <1>10, <3>1, <4>1, <4>2, CountsOn
      <3>2. CASE /\ b = Fresh(t)
                 /\ \/ times = <<>>
                    \/ \E count \in 1 .. Limit, reset \in Int :
                          Windowed(times, count, reset) /\ t > reset
        <4>1. b2.count = 1 /\ b2.reset = t + Window
          BY <1>3, <1>16, <3>2 DEF Fresh
        <4>2. Spaced(Append(times, t)) /\ Windowed(Append(times, t), 1, t + Window)
          BY <1>6, <1>10, <3>2, OpensNext
        <4> QED
          BY <4>1, <4>2
      <3> QED
        BY <1>11, <3>1, <3>2
    <2>8. Limits(failed'[k0], Readings(k0)', k0 \in DOMAIN bucket', bucket'[k0])
      BY <1>14, <2>6, <2>7 DEF Limits
    <2> QED
      BY <1>13, <2>3, <2>5, <2>8, LimitsMakeInv
  <1> QED
    BY <1>15, <1>16

LEMMA NextLimits ==
    ASSUME Inv, LimiterInv, [Next]_vars
    PROVE  LimiterInv'
  <1>1. ASSUME NEW r \in Requests,
               Arrive(r) \/ Issue(r) \/ Validate(r) \/ Revoke(r) \/ ReadClock(r)
        PROVE  LimiterInv'
    <2>1. pc[r] # "done" /\ UNCHANGED <<bucket, failed>>
      BY <1>1 DEF Arrive, Issue, Validate, Revoke, ReadClock
    <2>2. \A t \in Requests \ {r} : pc'[t] = pc[t] /\ req'[t] = req[t]
      BY <1>1 DEF Arrive, Issue, Validate, Revoke, ReadClock, Answer, Goto, Inv, AdmissionTypeOK
    <2> QED
      BY <2>1, <2>2, LimiterStands
  <1>2. CASE Tick \/ UNCHANGED vars
    <2>1. UNCHANGED <<bucket, failed, pc, req>>
      BY <1>2 DEF Tick, vars
    <2> QED
      BY <2>1 DEF LimiterInv, Readings
  <1> QED
    BY <1>1, <1>2, AllowLimits, ResetLimits DEF Next, Handle, Finished

LEMMA InitLimits ==
    ASSUME Init
    PROVE  LimiterInv
  <1>1. ASSUME NEW k \in Keys
        PROVE  /\ \A i \in 1 .. Len(failed[k]) : pc[failed[k][i]] = "done"
               /\ Spaced(Readings(k))
               /\ k \notin DOMAIN bucket /\ failed[k] = <<>>
    <2>1. PICK none : none = <<>>
      OBVIOUS
    <2>2. PICK times : times = ReadBy(none, req)
      OBVIOUS
    <2>3. failed[k] = none /\ Len(none) = 0 /\ k \notin DOMAIN bucket /\ Len(times) = 0
      BY <2>1, <2>2 DEF Init, ReadBy
    <2>4. Readings(k) = times
      BY <2>2, <2>3 DEF Readings
    <2>5. Spaced(times)
      BY <2>3 DEF Spaced
    <2>6. \A i \in 1 .. Len(none) : FALSE
      BY <2>3
    <2> QED
      BY <2>1, <2>3, <2>4, <2>5, <2>6
  <1> QED
    BY <1>1 DEF LimiterInv

\* In every reachable state the failures under a key are divided into windows.
THEOREM LimiterInvariance == Spec => []LimiterInv
  BY Invariance, InitLimits, NextLimits, PTL DEF Spec

\* Fixed windows and stale readings let through at most twice the limit: of 2 * Limit + 1
\* failures in a row under one key two are more than a window apart, however many requests
\* read the clock before others are counted (allow of pkg/middleware/rate_limiter.go).
THEOREM FailuresAreSpread == Spec => []TwiceLimitPerWindow
  <1>1. Inv /\ LimiterInv => TwiceLimitPerWindow
    <2> SUFFICES ASSUME Inv, LimiterInv, NEW k \in Keys,
                        NEW i \in 1 .. Len(failed[k]) - 2 * Limit
                 PROVE  \E a, b \in i .. i + 2 * Limit :
                           req[failed[k][b]].reading > req[failed[k][a]].reading + Window
      BY DEF TwiceLimitPerWindow
    <2>1. PICK times : times = Readings(k)
      OBVIOUS
    <2>2. PICK n : n = Len(failed[k])
      OBVIOUS
    <2>3. /\ times \in Seq(Int) /\ Len(times) = n /\ Spaced(times) /\ n \in Nat
          /\ \A j \in 1 .. n : times[j] = req[failed[k][j]].reading
      <3>1. times \in Seq(Int) /\ Len(times) = n
        BY <2>1, <2>2, ReadingsFacts
      <3>2. Spaced(times)
        BY <2>1 DEF LimiterInv
      <3>3. \A j \in 1 .. n : times[j] = req[failed[k][j]].reading
        BY <2>1, <2>2, ReadingsFacts
      <3> QED
        BY <3>1, <3>2, <3>3
    <2>4. i \in 1 .. n - 2 * Limit
      BY <2>2
    <2>5. PICK a, b \in i .. i + 2 * Limit : times[b] > times[a] + Window
      BY <2>3, <2>4, SpacedApart
    <2>6. a \in 1 .. n /\ b \in 1 .. n
      BY <2>3, <2>4, AdmissionAssumption
    <2> QED
      BY <2>3, <2>5, <2>6
  <1> QED
    BY <1>1, Invariance, LimiterInvariance, PTL

\* Nobody is refused for another key's failures, for failures before a success, or for those
\* of a window that is over: a request answered 429 follows Limit failures under its key, the
\* first of which opened a window it falls into.
THEOREM RefusalsAreDue == Spec => RefusedInFullWindow
  <1> DEFINE Step == \A r \in Requests : pc[r] = "allow" /\ req'[r].answer = 429 =>
                        LET fails == failed[Key(r)]
                            n     == Len(fails)
                        IN  n >= Limit /\ req[r].reading <= req[fails[n - Limit + 1]].reading + Window
  <1>1. Inv /\ LimiterInv /\ [Next]_vars => Step
    <2> SUFFICES ASSUME Inv, LimiterInv, [Next]_vars, NEW r \in Requests,
                        pc[r] = "allow", req'[r].answer = 429
                 PROVE  /\ Len(failed[Key(r)]) >= Limit
                        /\ req[r].reading <=
                              req[failed[Key(r)][Len(failed[Key(r)]) - Limit + 1]].reading + Window
      OBVIOUS
    <2>1. Allow(r)
      <3>1. req[r].answer # 429 /\ req[r] \in Request
        BY Facts DEF Flow, NoAnswer
      <3>2. req'[r] # req[r]
        BY <3>1
      <3>3. \A t \in Requests : t # r /\ (Arrive(t) \/ Handle(t)) => req'[r] = req[r]
        BY ServeAnswers
        DEF Arrive, Handle, Issue, Validate, Revoke, ReadClock, Allow, Reset, Answer, Goto,
            Inv, AdmissionTypeOK
      <3>4. ~Tick /\ ~UNCHANGED vars
        BY <3>2 DEF Tick, vars
      <3>5. Arrive(r) \/ Handle(r)
        BY <3>2, <3>3, <3>4 DEF Next, Finished
      <3> QED
        BY <3>5 DEF Arrive, Handle, Issue, Validate, Revoke, ReadClock, Reset
    <2>2. PICK k : k = Key(r)
      OBVIOUS
    <2>3. PICK t : t = req[r].reading
      OBVIOUS
    <2>4. PICK d : d = bucket[k]
      OBVIOUS
    <2>5. k \in Keys /\ t \in Int /\ Limit \in Nat \ {0} /\ Window \in Nat
      BY <2>2, <2>3, Facts
    <2>6. AtLimit(Current(k, t))
      <3>1. req \in [Requests -> Request]
        BY DEF Inv, AdmissionTypeOK
      <3>2. req' = [req EXCEPT ![r].answer = IF AtLimit(Current(k, t)) THEN 429 ELSE 401]
        BY <2>1, <2>2, <2>3 DEF Allow, Answer
      <3> QED
        BY <3>1, <3>2 DEF Request
    <2>7. ~AtLimit(Fresh(t))
      BY <2>5 DEF AtLimit, Fresh
    <2>8. k \in DOMAIN bucket /\ AtLimit(d) /\ ~(t > d.reset)
      BY <2>4, <2>6, <2>7 DEF Current
    <2>9. PICK times : times = Readings(k)
      OBVIOUS
    <2>10. /\ d \in [count : 1 .. Limit, reset : Window .. MaxTime + Window]
           /\ Windowed(times, d.count, d.reset)
      BY <2>4, <2>5, <2>8, <2>9 DEF Inv, AdmissionTypeOK, LimiterInv
    <2>11. d.count = Limit /\ d.reset \in Int
      BY <2>5, <2>8, <2>10, AdmissionAssumption DEF AtLimit
    <2>12. PICK n : n = Len(failed[k])
      OBVIOUS
    <2>13. PICK o : o = n - Limit + 1
      OBVIOUS
    <2>14. times \in Seq(Int) /\ Len(times) = n
      BY <2>5, <2>9, <2>12, ReadingsFacts
    <2>15. n \in Nat /\ Limit <= n /\ o \in 1 .. n /\ d.reset = times[o] + Window
      BY <2>5, <2>10, <2>11, <2>13, <2>14 DEF Windowed
    <2>16. times[o] = req[failed[k][o]].reading
      BY <2>5, <2>9, <2>12, <2>15, ReadingsFacts
    <2>17. times[o] \in Int
      BY <2>14, <2>15
    <2>18. n >= Limit /\ t <= req[failed[k][o]].reading + Window
      BY <2>5, <2>8, <2>11, <2>15, <2>16, <2>17
    <2> QED
      BY <2>2, <2>3, <2>12, <2>13, <2>18
  <1>2. RefusedInFullWindow <=> [][Step]_vars
    BY DEF RefusedInFullWindow
  <1> QED
    BY <1>1, <1>2, Invariance, LimiterInvariance, PTL DEF Spec
================================================================================
