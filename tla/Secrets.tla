--------------------------------- MODULE Secrets ---------------------------------
(***************************************************************************)
(* The secrets of functions: one file each under the base path             *)
(* (pkg/secrets), written by the secret handlers                           *)
(* (pkg/gateway/secrets_handlers.go) and by deployments, which create the  *)
(* ones they miss, empty, before they mount them (createContainer).        *)
(*                                                                         *)
(* A method of the SecretManager is one step under its mutex.              *)
(* EnsureSecrets takes the mutex anew for every look and every creation.   *)
(* Of a deployment only the part that concerns its secrets is modelled.    *)
(* Secret names are neither blank nor listed twice by a deployment.        *)
(*                                                                         *)
(* MaxFaults times, a file operation may fail, or the gateway may stop, in *)
(* the middle of a method too.                                             *)
(***************************************************************************)
EXTENDS Integers, Sequences, FiniteSets, Functions

CONSTANTS Requests,      \* request ids, each used for one call
          Names,
          Values,        \* what clients send
          Contents,      \* what files hold
          Decode,        \* value -> content: decoded if it is base64, else as it is
          Empty,         \* the content of the value ""
          Torn,          \* the content of a file whose writing was cut short
          NoCall,
          Calls,         \* the calls clients make
          Faults,        \* the kinds of faults that may happen
          MaxFaults      \* bound: how many of them

\* What a deployment lists.
NameLists == UNION {Injection(1 .. n, Names) : n \in 1 .. Cardinality(Names)}

Call == [op : {"create", "update"}, name : Names, value : Values] \cup
        [op : {"delete"}, name : Names] \cup
        [op : {"deploy"}, secrets : NameLists]

ASSUME SecretsAssumption ==
    /\ Calls \subseteq Call
    /\ NoCall \notin Call
    /\ Empty \in Contents /\ Torn \notin Contents
    /\ Decode \in [Values -> Contents]
    /\ Faults \subseteq {"write", "crash"}
    /\ MaxFaults \in Nat

VARIABLES files,         \* name -> content, for the secrets that exist
          pc, req,       \* the request's next step, and what its handler knows
          faults,        \* how many faults have happened
          meant,         \* history: name -> content, as the answers to clients tell it
          doubt          \* history: the names whose last write was not completed

vars == <<files, pc, req, faults, meant, doubt>>

Labels == {"idle", "create", "update", "delete", "exists", "autocreate", "again", "mount",
           "done"}

NoAnswer == 0

Request == [call : Call \cup {NoCall},
            todo : Seq(Names),        \* EnsureSecrets: the names it has not got to
            created : SUBSET Names,   \* ... and those it created
            answer : {NoAnswer, 200, 201, 202, 204, 404, 500}]

SecretsTypeOK ==
    /\ DOMAIN files \subseteq Names
    /\ \A n \in DOMAIN files : files[n] \in Contents \cup {Torn}
    /\ pc \in [Requests -> Labels]
    /\ req \in [Requests -> Request]
    /\ faults \in 0 .. MaxFaults
    /\ DOMAIN meant \subseteq Names
    /\ \A n \in DOMAIN meant : meant[n] \in Contents
    /\ doubt \subseteq Names

Init ==
    /\ files = [n \in {} |-> Empty]
    /\ pc = [r \in Requests |-> "idle"]
    /\ req = [r \in Requests |->
                [call |-> NoCall, todo |-> <<>>, created |-> {}, answer |-> NoAnswer]]
    /\ faults = 0
    /\ meant = files
    /\ doubt = {}

--------------------------------------------------------------------------------

Op(r)    == req[r].call.op
Name(r)  == req[r].call.name

\* Mutant of Value: what the client sent is stored as it is.
ValueRaw(r) == req[r].call.value

Value(r) == Decode[req[r].call.value]

Exists(n) == n \in DOMAIN files

With(f, n, content) == [m \in DOMAIN f \cup {n} |-> IF m = n THEN content ELSE f[m]]
Without(f, n)       == [m \in DOMAIN f \ {n} |-> f[m]]

Goto(r, label, local) ==
    /\ pc' = [pc EXCEPT ![r] = label]
    /\ req' = [req EXCEPT ![r] = local]

Answer(r, code) == Goto(r, "done", [req[r] EXCEPT !.answer = code, !.todo = <<>>])

Fault(kind) == kind \in Faults /\ faults < MaxFaults /\ faults' = faults + 1

\* What a client may conclude: a write answered with success is what is stored, and
\* one that failed half-way leaves the name in doubt until a later one succeeds.
Concludes(n, contents) == meant' = contents /\ doubt' = doubt \ {n} /\ UNCHANGED faults
Doubts(n) == UNCHANGED meant /\ doubt' = doubt \cup {n}

Arrive(r) ==
    /\ pc[r] = "idle"
    /\ \E call \in Calls :
          Goto(r, IF call.op = "deploy" THEN "exists" ELSE call.op,
               [req[r] EXCEPT !.call = call,
                              !.todo = IF call.op = "deploy" THEN call.secrets ELSE <<>>])
    /\ UNCHANGED <<files, faults, meant, doubt>>

--------------------------------------------------------------------------------
(* The secret handlers *)

\* Mutant of CreateSecret: a secret that exists is written over.
CreateSecretAnyway(n, content) == files' = With(files, n, content)

CreateSecret(n, content) == ~Exists(n) /\ files' = With(files, n, content)
UpdateSecret(n, content) == Exists(n) /\ files' = With(files, n, content)
DeleteSecret(n)          == Exists(n) /\ files' = Without(files, n)

\* What a write of n that fails or is cut short may leave behind: the file may not
\* be there or be incomplete, a removal may not have happened.
LeftBy(label, n) ==
    CASE label = "create" -> {files, With(files, n, Torn)}
      [] label = "update" -> {files, Without(files, n), With(files, n, Torn)}
      [] label = "delete" -> {files}

\* ... and what the method leaves when it is carried out.
Completed(r) ==
    IF pc[r] = "delete" THEN Without(files, Name(r)) ELSE With(files, Name(r), Value(r))

\* The write is not completed and the handler answers with an error.
WriteFails(r, code) ==
    /\ Fault("write")
    /\ files' \in LeftBy(pc[r], Name(r))
    /\ Doubts(Name(r))
    /\ Answer(r, code)

HandleCreateSecret(r) ==
    /\ pc[r] = "create"
    /\ \/ /\ CreateSecret(Name(r), Value(r))
          /\ Answer(r, 201)
          /\ Concludes(Name(r), With(meant, Name(r), Value(r)))
       \/ /\ Exists(Name(r))
          /\ Answer(r, 500)
          /\ UNCHANGED <<files, faults, meant, doubt>>
       \/ ~Exists(Name(r)) /\ WriteFails(r, 500)

\* Mutant of HandleUpdateSecret: the error of the write is not looked at.
HandleUpdateSecretBlindly(r) ==
    /\ pc[r] = "update" /\ Exists(Name(r))
    /\ files' \in {With(files, Name(r), Value(r)), Without(files, Name(r))}
    /\ Answer(r, 200)
    /\ Concludes(Name(r), With(meant, Name(r), Value(r)))

\* UpdateSecret removes the file before it writes the new one, whose error it returns.
HandleUpdateSecret(r) ==
    /\ pc[r] = "update"
    /\ \/ /\ UpdateSecret(Name(r), Value(r))
          /\ Answer(r, 200)
          /\ Concludes(Name(r), With(meant, Name(r), Value(r)))
       \/ /\ ~Exists(Name(r))
          /\ Answer(r, 404)
          /\ UNCHANGED <<files, faults, meant, doubt>>
       \/ Exists(Name(r)) /\ WriteFails(r, 404)

\* Mutant of HandleDeleteSecret: no file is no error.
HandleDeleteSecretIfAny(r) ==
    /\ pc[r] = "delete"
    /\ files' = Without(files, Name(r))
    /\ Answer(r, 204)
    /\ Concludes(Name(r), Without(meant, Name(r)))

HandleDeleteSecret(r) ==
    /\ pc[r] = "delete"
    /\ \/ /\ DeleteSecret(Name(r))
          /\ Answer(r, 204)
          /\ Concludes(Name(r), Without(meant, Name(r)))
       \/ /\ ~Exists(Name(r))
          /\ Answer(r, 404)
          /\ UNCHANGED <<files, faults, meant, doubt>>
       \/ Exists(Name(r)) /\ WriteFails(r, 404)

--------------------------------------------------------------------------------
(* A deployment with secrets: EnsureSecrets name by name ... *)

Current(r) == Head(req[r].todo)

\* The loop is done with its name and turns to the next one.
Proceeds(r, created) ==
    Goto(r, "exists", [req[r] EXCEPT !.todo = Tail(@), !.created = @ \cup created])

Look(r) ==
    /\ pc[r] = "exists" /\ req[r].todo # <<>>
    /\ IF Exists(Current(r)) THEN Proceeds(r, {}) ELSE Goto(r, "autocreate", req[r])
    /\ UNCHANGED <<files, faults, meant, doubt>>

\* CreateSecret(name, "").  A secret created for a deployment is meant by no client
\* until one updates it; nothing can be missing from an empty file.
AutoCreate(r) ==
    LET n == Current(r)
    IN  /\ pc[r] = "autocreate"
        /\ \/ /\ CreateSecret(n, Empty)
              /\ Proceeds(r, {n})
              /\ Concludes(n, With(meant, n, Empty))
           \/ /\ Exists(n)
              /\ Goto(r, "again", req[r])
              /\ UNCHANGED <<files, faults, meant, doubt>>
           \/ /\ ~Exists(n) /\ Fault("write")
              /\ \/ files' = With(files, n, Empty) /\ meant' = With(meant, n, Empty)
                 \/ UNCHANGED <<files, meant>>
              /\ Goto(r, "again", req[r])
              /\ UNCHANGED doubt

\* Mutant of LookAgain: a creation that fails is an error.
LookAgainNever(r) ==
    pc[r] = "again" /\ Answer(r, 500) /\ UNCHANGED <<files, faults, meant, doubt>>

\* Its creation failed: somebody else's may have been faster.
LookAgain(r) ==
    /\ pc[r] = "again"
    /\ IF Exists(Current(r)) THEN Proceeds(r, {}) ELSE Answer(r, 500)
    /\ UNCHANGED <<files, faults, meant, doubt>>

SecretsOf(r) == Range(req[r].call.secrets)

\* ... then ValidateSecrets for all of them, once the loop is over ...
ValidateSecrets(r) ==
    /\ pc[r] = "exists" /\ req[r].todo = <<>>
    /\ IF \A n \in SecretsOf(r) : Exists(n) THEN Goto(r, "mount", req[r]) ELSE Answer(r, 500)
    /\ UNCHANGED <<files, faults, meant, doubt>>

\* ... and the engine, which refuses a container with a mount whose source is not there.
MountSecrets(r) ==
    /\ pc[r] = "mount"
    /\ Answer(r, IF \A n \in SecretsOf(r) : Exists(n) THEN 202 ELSE 500)
    /\ UNCHANGED <<files, faults, meant, doubt>>

--------------------------------------------------------------------------------

InFlight == {r \in Requests : pc[r] \notin {"idle", "done"}}

\* The gateway stops, perhaps in the middle of one method, and comes back; the
\* requests in flight get no answer.
CrashAndRestart ==
    /\ Fault("crash")
    /\ pc' = [r \in Requests |-> IF r \in InFlight THEN "done" ELSE pc[r]]
    /\ req' = [r \in Requests |-> IF r \in InFlight THEN [req[r] EXCEPT !.todo = <<>>]
                                  ELSE req[r]]
    /\ \/ UNCHANGED <<files, meant, doubt>>
       \/ \E r \in InFlight :
             /\ pc[r] \in {"create", "update", "delete"}
             /\ Exists(Name(r)) <=> pc[r] # "create"
             /\ files' \in LeftBy(pc[r], Name(r)) \cup {Completed(r)}
             /\ Doubts(Name(r))

Deploy(r) == Look(r) \/ AutoCreate(r) \/ LookAgain(r) \/ ValidateSecrets(r) \/ MountSecrets(r)

Handle(r) ==
    HandleCreateSecret(r) \/ HandleUpdateSecret(r) \/ HandleDeleteSecret(r) \/ Deploy(r)

Finished == (\A r \in Requests : pc[r] = "done") /\ UNCHANGED vars

Next == (\E r \in Requests : Arrive(r) \/ Handle(r)) \/ CrashAndRestart \/ Finished

Spec == Init /\ [][Next]_vars

--------------------------------------------------------------------------------
(* Properties *)

\* What a client has stored changes only by an update or a delete of that secret:
\* neither a second create nor a deployment that missed the secret when it looked,
\* and creates it now, writes it over.
ClientsValuesStand ==
    [][\A n \in DOMAIN files :
          ~(n \in DOMAIN files' /\ files'[n] = files[n]) =>
             \E r \in InFlight : pc[r] \in {"update", "delete"} /\ Name(r) = n /\ pc'[r] = "done"]_vars

\* Failing writes and crashes in the middle of one, UpdateSecret's after it removed
\* the old file included, damage the secret being written and no other, and never
\* under an answer that says it was stored: every secret not in doubt holds what the
\* answers so far say, and is there exactly if they say so.
LossIsTold ==
    \A n \in Names \ doubt :
       /\ Exists(n) <=> n \in DOMAIN meant
       /\ Exists(n) => files[n] = meant[n]

Accepted(op, n, code) ==
    {r \in Requests : pc[r] = "done" /\ Op(r) = op /\ Name(r) = n /\ req[r].answer = code}

\* However calls race, the answers add up as long as nothing fails: a secret was made
\* by each create that was accepted and by each deployment that says it created it,
\* and removed by each accepted delete.
SecretLedger ==
    faults = 0 =>
       \A n \in Names :
          Cardinality(Accepted("create", n, 201)) + Cardinality({r \in Requests : n \in req[r].created})
             = Cardinality(Accepted("delete", n, 204)) + (IF Exists(n) THEN 1 ELSE 0)

\* Missing secrets are no reason for a deployment to fail, nor is another deployment
\* or a client that creates the same ones at the same time; only a delete is.
DeploysGetThrough ==
    [][\A r \in InFlight : Op(r) = "deploy" /\ req'[r].answer = 500 /\ faults' = 0 =>
          \E n \in SecretsOf(r) : Accepted("delete", n, 204) # {}]_vars
================================================================================
