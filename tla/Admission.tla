-------------------------------- MODULE Admission --------------------------------
(***************************************************************************)
(* Who is let in: the token manager (pkg/auth), the rate limiter and the   *)
(* basic-auth middleware (pkg/middleware) and the login and logout         *)
(* handlers (pkg/gateway/auth_handlers.go).                                *)
(*                                                                         *)
(* Each method of the manager and of the limiter is one step under its     *)
(* mutex.  Issue, Validate and allow read the clock BEFORE they lock, so   *)
(* time passes and other requests are served between the reading a         *)
(* decision rests on and the decision.  A token is named by the login that *)
(* got it.  lastSeen is written and never read, and left out; so are the   *)
(* configurations without a limiter or a manager, which decide nothing.    *)
(***************************************************************************)
EXTENDS Integers, Sequences, FiniteSets

CONSTANTS Requests,      \* request ids, each used for one call
          Keys,          \* clientKey: what the limiter counts by
          Kinds,         \* the kinds of calls clients make
          NoToken, NoCall,
          TTL, Window, Limit,
          MaxTime,       \* bound: the clock stops there
          MaxInFlight    \* bound: requests handled at the same time

\* "public" stands for the paths the middleware lets through (health checks, and
\* invocations unless they need credentials), "other" for those it guards.
Kind == [op : {"login", "logout", "public", "other"}, cred : {"good", "bad", "bearer"}]

Call == [kind : Kinds, key : Keys, token : Requests \cup {NoToken}]

ASSUME AdmissionAssumption ==
    /\ Kinds \subseteq Kind
    /\ {TTL, Window, Limit} \subseteq Nat \ {0}
    /\ MaxTime \in Nat /\ MaxInFlight \in Nat
    /\ NoToken \notin Requests
    /\ NoCall \notin Call

VARIABLES clock,
          tokens,        \* Manager.tokens: token -> expiresAt
          bucket,        \* authRateLimiter.bucket: key -> count and reset
          pc, req,       \* the request's next step, and what its handlers know
          failed         \* history: under each key the requests answered 401 by the
                         \* limiter since the last success, in the order it served them

vars == <<clock, tokens, bucket, pc, req, failed>>

Time == 0 .. MaxTime

Labels == {"idle", "issue", "validate", "invalid", "allow", "reset", "revoke", "done"}

NoAnswer == 0

Request == [call : Call \cup {NoCall}, reading : Time,
            answer : {NoAnswer, 200, 204, 401, 429}]

\* No bucket counts beyond the limit.
AdmissionTypeOK ==
    /\ clock \in Time
    /\ DOMAIN tokens \subseteq Requests
    /\ \A t \in DOMAIN tokens : tokens[t] \in TTL .. MaxTime + TTL
    /\ DOMAIN bucket \subseteq Keys
    /\ \A k \in DOMAIN bucket : bucket[k] \in [count : 1 .. Limit,
                                               reset : Window .. MaxTime + Window]
    /\ pc \in [Requests -> Labels]
    /\ req \in [Requests -> Request]
    /\ failed \in [Keys -> Seq(Requests)]

Init ==
    /\ clock = 0
    /\ tokens = [t \in {} |-> 0]
    /\ bucket = [k \in {} |-> 0]
    /\ pc = [r \in Requests |-> "idle"]
    /\ req = [r \in Requests |-> [call |-> NoCall, reading |-> 0, answer |-> NoAnswer]]
    /\ failed = [k \in Keys |-> <<>>]

--------------------------------------------------------------------------------

Op(r)    == req[r].call.kind.op
Cred(r)  == req[r].call.kind.cred
Key(r)   == req[r].call.key
Token(r) == req[r].call.token

Goto(r, label) == pc' = [pc EXCEPT ![r] = label] /\ UNCHANGED req

Answer(r, code) ==
    /\ pc' = [pc EXCEPT ![r] = "done"]
    /\ req' = [req EXCEPT ![r].answer = code]

\* A successful login told the client its token.
LoggedIn == {t \in Requests : pc[t] = "done" /\ Op(t) = "login" /\ req[t].answer = 200}

InFlight == {r \in Requests : pc[r] \notin {"idle", "done"}}

\* What a client can send: credentials, or as a bearer a token it was given or
\* something else.
Sends ==
    {call \in Call :
       IF call.kind.cred = "bearer" THEN call.token \in LoggedIn \cup {NoToken}
       ELSE call.token = NoToken}

\* The middleware up to its first lock, with HandleLogin for the login path: how it
\* goes on, and the answer when that is at once.
Turns(op, cred) ==
    CASE op = "public"                      -> <<"done", 200>>
      [] op = "login" /\ cred = "good"      -> <<"issue", NoAnswer>>
      [] op = "login" /\ cred # "good"      -> <<"done", 401>>
      [] op \in {"logout", "other"} ->
            CASE cred = "bearer" -> <<"validate", NoAnswer>>
              [] cred = "good"   -> <<"reset", NoAnswer>>
              [] cred = "bad"    -> <<"allow", NoAnswer>>

Arrive(r) ==
    /\ pc[r] = "idle" /\ Cardinality(InFlight) < MaxInFlight
    /\ \E call \in Sends :
          LET turn == Turns(call.kind.op, call.kind.cred)
          IN  /\ pc' = [pc EXCEPT ![r] = turn[1]]
              /\ req' = [req EXCEPT ![r] =
                    [call |-> call, answer |-> turn[2],
                     reading |-> IF turn[1] \in {"issue", "validate", "allow"} THEN clock ELSE 0]]
    /\ UNCHANGED <<clock, tokens, bucket, failed>>

--------------------------------------------------------------------------------
(* Manager *)

Without(f, x) == [y \in DOMAIN f \ {x} |-> f[y]]
With(f, x, v) == [y \in DOMAIN f \cup {x} |-> IF y = x THEN v ELSE f[y]]

Issue(r) ==
    /\ pc[r] = "issue"
    /\ tokens' = With(tokens, r, req[r].reading + TTL)
    /\ Answer(r, 200)
    /\ UNCHANGED <<clock, bucket, failed>>

\* Mutants of Validate: using a token renews it; a token ends at its expiry.
ValidateRenews(r) ==
    /\ pc[r] = "validate"
    /\ IF Token(r) \in DOMAIN tokens /\ req[r].reading <= tokens[Token(r)]
       THEN tokens' = With(tokens, Token(r), req[r].reading + TTL) /\ Goto(r, "reset")
       ELSE tokens' = Without(tokens, Token(r)) /\ Goto(r, "invalid")
    /\ UNCHANGED <<clock, bucket, failed>>
ValidateBefore(r) ==
    /\ pc[r] = "validate"
    /\ IF Token(r) \in DOMAIN tokens /\ req[r].reading < tokens[Token(r)]
       THEN UNCHANGED tokens /\ Goto(r, "reset")
       ELSE tokens' = Without(tokens, Token(r)) /\ Goto(r, "invalid")
    /\ UNCHANGED <<clock, bucket, failed>>

\* An expired token is deleted when it is next used.
Validate(r) ==
    /\ pc[r] = "validate"
    /\ IF Token(r) \in DOMAIN tokens /\ req[r].reading <= tokens[Token(r)]
       THEN UNCHANGED tokens /\ Goto(r, "reset")
       ELSE tokens' = Without(tokens, Token(r)) /\ Goto(r, "invalid")
    /\ UNCHANGED <<clock, bucket, failed>>

Revoke(r) ==
    /\ pc[r] = "revoke"
    /\ tokens' = Without(tokens, Token(r))
    /\ Answer(r, 204)
    /\ UNCHANGED <<clock, bucket, failed>>

--------------------------------------------------------------------------------
(* The rate limiter *)

\* A request whose token is not valid turns to the limiter, which reads the clock.
ReadClock(r) ==
    /\ pc[r] = "invalid"
    /\ pc' = [pc EXCEPT ![r] = "allow"]
    /\ req' = [req EXCEPT ![r].reading = clock]
    /\ UNCHANGED <<clock, tokens, bucket, failed>>

\* The bucket of a key as allow takes it: the one there is, unless its window is over.
Fresh(now) == [count |-> 0, reset |-> now + Window]

\* Mutant of Current: the comparison is the wrong way round.
CurrentBefore(k, now) ==
    IF k \notin DOMAIN bucket \/ now < bucket[k].reset THEN Fresh(now) ELSE bucket[k]
Current(k, now) ==
    IF k \notin DOMAIN bucket \/ now > bucket[k].reset THEN Fresh(now) ELSE bucket[k]

\* Mutant of AtLimit: one more than the limit.
AboveLimit(b) == b.count > Limit

AtLimit(b) == b.count >= Limit

\* allow, and the answer the middleware gives: 429 at the limit, else 401.
Allow(r) ==
    LET b == Current(Key(r), req[r].reading)
    IN  /\ pc[r] = "allow"
        /\ bucket' = With(bucket, Key(r), IF AtLimit(b) THEN b ELSE [b EXCEPT !.count = @ + 1])
        /\ Answer(r, IF AtLimit(b) THEN 429 ELSE 401)
        /\ failed' = IF AtLimit(b) THEN failed ELSE [failed EXCEPT ![Key(r)] = Append(@, r)]
        /\ UNCHANGED <<clock, tokens>>

\* next.ServeHTTP: HandleLogout wants a bearer token, the other handlers succeed.
Serve(r) ==
    CASE Op(r) = "other"                       -> Answer(r, 200)
      [] Op(r) = "logout" /\ Cred(r) = "bearer" -> Goto(r, "revoke")
      [] Op(r) = "logout" /\ Cred(r) = "good"   -> Answer(r, 401)

\* Mutant of Reset: a success leaves the bucket.
ResetNothing(r) ==
    /\ pc[r] = "reset"
    /\ Serve(r)
    /\ failed' = [failed EXCEPT ![Key(r)] = <<>>]
    /\ UNCHANGED <<clock, tokens, bucket>>

\* Success: the bucket of the key is deleted, whoever filled it.
Reset(r) ==
    /\ pc[r] = "reset"
    /\ bucket' = Without(bucket, Key(r))
    /\ Serve(r)
    /\ failed' = [failed EXCEPT ![Key(r)] = <<>>]
    /\ UNCHANGED <<clock, tokens>>

--------------------------------------------------------------------------------

Tick ==
    /\ clock < MaxTime
    /\ clock' = clock + 1
    /\ UNCHANGED <<tokens, bucket, pc, req, failed>>

Handle(r) ==
    Issue(r) \/ Validate(r) \/ Revoke(r) \/ ReadClock(r) \/ Allow(r) \/ Reset(r)

Finished == (\A r \in Requests : pc[r] = "done") /\ clock = MaxTime /\ UNCHANGED vars

Next == (\E r \in Requests : Arrive(r) \/ Handle(r)) \/ Tick \/ Finished

Spec == Init /\ [][Next]_vars

--------------------------------------------------------------------------------
(* Properties *)

\* The reading a token ends at, and whether a logout has ended it.
LiveUntil(t) == req[t].reading + TTL
LoggedOut(t) ==
    \E r \in Requests : pc[r] = "done" /\ Op(r) = "logout" /\ req[r].answer = 204 /\ Token(r) = t

\* However validations, logouts and the clock interleave, a bearer is let in only on
\* a token that a login got, that no logout has revoked, and that had not expired
\* when its request read the clock; using it earlier has not prolonged it.
OnlyLiveTokensAdmit ==
    [][\A r \in Requests : pc[r] = "validate" /\ pc'[r] = "reset" =>
          LET t == Token(r)
          IN  t \in LoggedIn /\ ~LoggedOut(t) /\ req[r].reading <= LiveUntil(t)]_vars

\* A client that logged in is not turned away before its token's time: a token found
\* invalid by the last moment of its life was revoked.  (Validate deletes what it
\* finds expired, also under requests that read the clock before it.)
LiveTokensAdmit ==
    [][\A r \in Requests : pc[r] = "validate" /\ pc'[r] = "invalid" /\ Token(r) \in LoggedIn =>
          clock > LiveUntil(Token(r)) \/ LoggedOut(Token(r))]_vars

\* What the limiter limits, although windows are fixed and readings stale: of any
\* 2 * Limit + 1 failures in a row under one key, with no success between them, two
\* are more than a window apart.
TwiceLimitPerWindow ==
    \A k \in Keys : \A i \in 1 .. Len(failed[k]) - 2 * Limit :
       \E a, b \in i .. i + 2 * Limit :
          req[failed[k][b]].reading > req[failed[k][a]].reading + Window

\* Nobody is refused for another key's failures, for failures before a success or
\* for those of a window that is over: an attempt answered 429 follows Limit
\* failures, the first of which opened a window it falls into.
RefusedInFullWindow ==
    [][\A r \in Requests : pc[r] = "allow" /\ req'[r].answer = 429 =>
          LET fails == failed[Key(r)]
              n     == Len(fails)
          IN  n >= Limit /\ req[r].reading <= req[fails[n - Limit + 1]].reading + Window]_vars
================================================================================
