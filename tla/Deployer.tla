------------------------------ MODULE Deployer ------------------------------
(***************************************************************************)
(* The one-shot Kubernetes job that deploys the connector: each pod reads  *)
(* its environment, writes the connector configuration to a temporary      *)
(* file, runs `fivetran deploy`, looks up the ids of the destination and   *)
(* the connection, and reports.  A pod that fails, or is killed, is        *)
(* replaced by a new one up to the backoff limit of the job.               *)
(*                                                                         *)
(* External: Fivetran's account, which other deployments change too, the   *)
(* CLI, which creates the connection or updates the one of that name, and  *)
(* Kubernetes.                                                             *)
(***************************************************************************)
EXTENDS Integers, FiniteSets

CONSTANTS
  Groups,         \* ids of the groups of the account
  Ids,            \* bound: ids of connections
  BackoffLimit    \* backoffLimit of the job

ASSUME DeployerAssumption == BackoffLimit \in Nat

Nothing == "none"

(* What a page of the API lists is finite, and each item has an id.        *)
ASSUME AccountAssumption ==
  IsFiniteSet(Groups) /\ IsFiniteSet(Ids) /\ Nothing \notin Groups

VARIABLES
  named,        \* the groups that carry DESTINATION_NAME
  connections,  \* those named CONNECTION_NAME: [id, group]
  deployed,     \* ids of the connections this job's configuration went to
  pc,           \* where the pod is, "none" between pods
  pods,         \* pods started
  file,         \* the temporary file: "none", "partial" or "whole"
  group,        \* destination_id, once looked up
  printed,      \* results the pod has printed to stdout
  log,          \* the results in its termination log
  exit          \* its exit code, "signal" if it was killed

pod  == <<pc, pods, file, group, printed, log, exit>>
vars == <<named, connections, deployed, pod>>

Connection == [id : Ids, group : Groups]

(* Codes of DeployerError, and the one for other exceptions main expects.  *)
ConfigCodes == {"missing_env", "invalid_config", "missing_pyproject", "invalid_pyproject",
                "connector_version_mismatch", "runtime_error"}
ApiCodes    == {"fivetran_http_error", "fivetran_network_error", "fivetran_api_error",
                "runtime_error"}
LookupCodes == {"destination_not_found", "destination_ambiguous",
                "connection_not_found", "connection_ambiguous"}

Failed(code)  == [status |-> "failed", code |-> code]
Succeeded(id) == [status |-> "succeeded", id |-> id]
Results == {Failed(c) : c \in ConfigCodes \cup ApiCodes \cup LookupCodes \cup {"deploy_failed"}}
             \cup {Succeeded(id) : id \in Ids}

Running == {"config", "file", "deploy", "group", "connection"}

TypeOk ==
  /\ named \subseteq Groups
  /\ connections \subseteq Connection
  /\ deployed \subseteq Ids
  /\ pc \in Running \cup {"none", "report", "write", "exited"}
  /\ pods \in 0 .. BackoffLimit + 1
  /\ file \in {"none", "partial", "whole"}
  /\ group \in Groups \cup {Nothing}
  /\ printed \subseteq Results /\ Cardinality(printed) <= 1
  /\ log \subseteq printed
  /\ exit \in {"none", "0", "1", "signal"}
  /\ pc = "connection" => group # Nothing

Init ==
  /\ named \in SUBSET Groups
  /\ connections \in {c \in SUBSET Connection : \A x, y \in c : x.id = y.id => x = y}
  /\ Cardinality(connections) <= 1
  /\ deployed = {}
  /\ pc = "none"
  /\ pods = 0
  /\ file = "none" /\ group = Nothing
  /\ printed = {} /\ log = {} /\ exit = "none"

account == <<named, connections, deployed>>

-----------------------------------------------------------------------------
(* Somebody else makes a connection of the same name, in any group.        *)
Elsewhere ==
  /\ \E c \in Connection :
       /\ \A x \in connections : x.id # c.id
       /\ connections' = connections \cup {c}
  /\ UNCHANGED <<named, deployed, pod>>

(* Each pod has a file system of its own.                                  *)
StartPod ==
  /\ \/ pc = "none"
     \/ pc = "exited" /\ exit # "0"
  /\ pods <= BackoffLimit
  /\ pods' = pods + 1
  /\ pc' = "config"
  /\ file' = "none" /\ group' = Nothing
  /\ printed' = {} /\ log' = {} /\ exit' = "none"
  /\ UNCHANGED account

(* main catches the exception and goes on to report it.                    *)
Fail(code) ==
  /\ pc' = "report"
  /\ printed' = {Failed(code)}

(* An exception main does not expect ends the pod with a traceback.        *)
Escape ==
  /\ pc' = "exited"
  /\ exit' = "1"

ReadConfig ==
  /\ pc = "config"
  /\ \/ pc' = "file" /\ UNCHANGED printed
     \/ \E code \in ConfigCodes : Fail(code)
  /\ UNCHANGED <<account, pods, file, group, log, exit>>

(* Nothing removes the file when writing it fails.                         *)
WriteConfig ==
  /\ pc = "file"
  /\ \/ pc' = "deploy" /\ file' = "whole" /\ UNCHANGED printed
     \/ file' \in {"none", "partial"} /\ Fail("runtime_error")
  /\ UNCHANGED <<account, pods, group, log, exit>>

-----------------------------------------------------------------------------
(* The operators named Fault_... are plausible mistakes in the definition  *)
(* that follows them; the specification does not use them.                 *)

(* The file is left behind.                                                *)
Fault_Unlink == UNCHANGED file

Unlink == file' = "none"

(* The CLI updates a connection of that name in the destination, or makes  *)
(* one; it may fail after that, or before.                                 *)
Deploy(g) ==
  /\ pc = "deploy"
  /\ \E c \in Connection :
       /\ c.group = g
       /\ \/ c \in connections
          \/ \A x \in connections : x.id # c.id /\ x.group # g
       /\ connections' = connections \cup {c}
       /\ deployed' = deployed \cup {c.id}
  /\ \/ pc' = "group" /\ UNCHANGED <<printed, file>>
     \/ Fail("deploy_failed") /\ Unlink
  /\ UNCHANGED <<named, pods, group, log, exit>>

DeployFails ==
  /\ pc = "deploy"
  /\ \E code \in {"deploy_failed", "runtime_error"} : Fail(code)
  /\ Unlink
  /\ UNCHANGED <<account, pods, group, log, exit>>

-----------------------------------------------------------------------------
(* The first of several matches is taken.                                  *)
Fault_Resolved(matches, missing, several) ==
  IF matches = {} THEN Failed(missing) ELSE Succeeded(CHOOSE id \in matches : TRUE)

(* No match is taken for a match.                                          *)
Fault_ResolvedNone(matches, missing, several) ==
  IF matches = {} THEN Succeeded(Nothing) ELSE Succeeded(CHOOSE id \in matches : TRUE)

(* A name stands for an id if exactly one item carries it.                 *)
Resolved(matches, missing, several) ==
  CASE matches = {} -> Failed(missing)
    [] Cardinality(matches) = 1 -> Succeeded(CHOOSE id \in matches : TRUE)
    [] OTHER -> Failed(several)

LookUpGroup ==
  LET r == Resolved(named, "destination_not_found", "destination_ambiguous")
  IN /\ pc = "group"
     /\ IF r.status = "succeeded"
        THEN pc' = "connection" /\ group' = r.id /\ UNCHANGED <<printed, file>>
        ELSE Fail(r.code) /\ Unlink /\ UNCHANGED group
     /\ UNCHANGED <<account, pods, log, exit>>

Matches == {c.id : c \in {x \in connections : x.group = group}}

LookUpConnection ==
  LET r == Resolved(Matches, "connection_not_found", "connection_ambiguous")
  IN /\ pc = "connection"
     /\ pc' = "report"
     /\ printed' = {r}
     /\ Unlink
     /\ UNCHANGED <<account, pods, group, log, exit>>

(* The API cannot be reached, or answers with an error.                    *)
ApiFails ==
  /\ pc \in {"group", "connection"}
  /\ \E code \in ApiCodes : Fail(code)
  /\ Unlink
  /\ UNCHANGED <<account, pods, group, log, exit>>

(* The answer is cut short, or has no list of items: IncompleteRead and    *)
(* KeyError are none of the exceptions main expects.                       *)
AnswerUnexpected ==
  /\ pc \in {"group", "connection"}
  /\ Escape
  /\ Unlink
  /\ UNCHANGED <<account, pods, group, printed, log>>

-----------------------------------------------------------------------------
(* The result has been printed; now the termination log is written.        *)
Report ==
  /\ pc = "report"
  /\ \/ log' = printed /\ pc' = "write" /\ UNCHANGED exit
     \/ Escape /\ UNCHANGED log
  /\ UNCHANGED <<account, pods, file, group, printed>>

ExitCode == IF \E r \in printed : r.status = "succeeded" THEN "0" ELSE "1"

Exit ==
  /\ pc = "write"
  /\ pc' = "exited"
  /\ exit' = ExitCode
  /\ UNCHANGED <<account, pods, file, group, printed, log>>

Kill ==
  /\ pc \in Running \cup {"report", "write"}
  /\ pc' = "exited"
  /\ exit' = "signal"
  /\ UNCHANGED <<account, pods, file, group, printed, log>>

(* The job has succeeded or has used up its pods.                          *)
Over == pc = "exited" /\ (exit = "0" \/ pods > BackoffLimit) /\ UNCHANGED vars

Next ==
  \/ Elsewhere
  \/ StartPod
  \/ ReadConfig
  \/ WriteConfig
  \/ \E g \in named : Deploy(g)
  \/ DeployFails
  \/ LookUpGroup
  \/ LookUpConnection
  \/ ApiFails
  \/ AnswerUnexpected
  \/ Report
  \/ Exit
  \/ Kill
  \/ Over

Spec == Init /\ [][Next]_vars

-----------------------------------------------------------------------------
(***************************************************************************)
(* Properties.                                                             *)
(***************************************************************************)
(* A job that succeeds has deployed to the connection it names, which is   *)
(* in the only destination of the name asked for, whoever else made a      *)
(* connection of that name meanwhile.                                      *)
SuccessIsDeployed ==
  exit = "0" =>
    \E c \in connections :
      c.id \in deployed /\ log = {Succeeded(c.id)} /\ named = {c.group}

(* A configuration file that has been written whole is removed again by    *)
(* every way out of the pod but a kill.  One that a failing write left     *)
(* behind is not: the write comes before the try.                          *)
ConfigRemoved == pc = "exited" /\ exit # "signal" => file # "whole"
=============================================================================
