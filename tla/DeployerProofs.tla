--------------------------- MODULE DeployerProofs ---------------------------
(***************************************************************************)
(* Proofs about Deployer, for every account, whoever else changes it, and  *)
(* every backoff limit.                                                    *)
(***************************************************************************)
EXTENDS Deployer, FiniteSetTheorems, TLAPS

(* A pod that has come to look its destination up has deployed to a        *)
(* connection in a group of that name.                                     *)
DeployedBefore ==
  pc \in {"group", "connection"} =>
    \E c \in connections : c.id \in deployed /\ c.group \in named

(* The destination, once looked up, is the only group of the name.         *)
OnlyGroup == group # Nothing => named = {group}

(* What a pod prints of success is true of the account.                    *)
PrintedIsTrue ==
  (\E r \in printed : r.status = "succeeded") =>
    \E c \in connections :
      c.id \in deployed /\ printed = {Succeeded(c.id)} /\ named = {c.group}

(* The log repeats what was printed before the pod can exit with 0.        *)
LogIsPrinted ==
  /\ pc = "write" => log = printed
  /\ exit = "0" => log = printed /\ \E r \in printed : r.status = "succeeded"

(* A written configuration is there only while it is in use, or for ever   *)
(* when the pod was killed.                                                *)
InUse == file = "whole" => pc \in {"deploy", "group", "connection"} \/ exit = "signal"

(* What makes SuccessIsDeployed and ConfigRemoved inductive.               *)
Inv ==
  /\ TypeOk
  /\ DeployedBefore
  /\ OnlyGroup
  /\ PrintedIsTrue
  /\ LogIsPrinted
  /\ InUse
  /\ exit # "none" => pc = "exited"
  /\ pc \in Running => printed = {}

-----------------------------------------------------------------------------
(* A name is resolved to an id only if it is the one id that carries it.   *)
LEMMA ResolvedIsOnly ==
  ASSUME NEW matches, IsFiniteSet(matches), NEW missing, NEW several
  PROVE  \/ \E id : matches = {id} /\ Resolved(matches, missing, several) = Succeeded(id)
         \/ Resolved(matches, missing, several) \in {Failed(missing), Failed(several)}
<1>1. CASE matches = {}
  BY <1>1, FS_EmptySet DEF Resolved
<1>2. CASE matches # {} /\ Cardinality(matches) = 1
  <2>1. PICK id : matches = {id}
    BY <1>2, FS_Singleton
  <2>2. (CHOOSE x \in matches : TRUE) = id
    BY <2>1
  <2>3. QED
    BY <1>2, <2>1, <2>2 DEF Resolved
<1>3. CASE matches # {} /\ Cardinality(matches) # 1
  BY <1>3 DEF Resolved
<1>4. QED
  BY <1>1, <1>2, <1>3

(* The connections a look-up finds are finitely many.                      *)
LEMMA MatchesFinite == TypeOk => IsFiniteSet(Matches) /\ Matches \subseteq Ids
<1>1. TypeOk => Matches \subseteq Ids
  BY DEF TypeOk, Matches, Connection
<1>2. QED
  BY <1>1, AccountAssumption, FS_Subset

(* No result, or one.                                                      *)
LEMMA OneResult ==
  /\ Cardinality({}) <= 1
  /\ \A r : Cardinality({r}) <= 1
BY FS_EmptySet, FS_Singleton

(* The initial states satisfy the invariant.                               *)
LEMMA InitInv == Init => Inv
BY OneResult, DeployerAssumption
   DEF Init, Inv, TypeOk, Running, DeployedBefore, OnlyGroup, PrintedIsTrue, LogIsPrinted, InUse

(* Another connection of the name does not disturb what is true of one.    *)
LEMMA ElsewhereInv == Inv /\ Elsewhere => Inv'
BY DEF Elsewhere, pod, Inv, TypeOk, Running, DeployedBefore, OnlyGroup, PrintedIsTrue, LogIsPrinted, InUse

(* A new pod starts with nothing of the one before.                        *)
LEMMA StartPodInv == Inv /\ StartPod => Inv'
BY OneResult, DeployerAssumption
   DEF StartPod, account, Inv, TypeOk, Running, DeployedBefore, OnlyGroup, PrintedIsTrue,
       LogIsPrinted, InUse

(* The failures main reports are results, and no successes.                *)
LEMMA FailedLemma ==
  ASSUME NEW code \in ConfigCodes \cup ApiCodes \cup LookupCodes \cup {"deploy_failed"}
  PROVE  /\ Failed(code) \in Results
         /\ Failed(code).status # "succeeded"
         /\ Cardinality({Failed(code)}) <= 1
BY OneResult DEF Failed, Results

(* A pod that reports a failure, its configuration removed.                *)
LEMMA FailInv ==
  ASSUME Inv, pc \in Running,
         NEW code \in ConfigCodes \cup ApiCodes \cup LookupCodes \cup {"deploy_failed"},
         Fail(code), file' \in {"none", "partial"},
         connections \subseteq connections', connections' \subseteq Connection,
         deployed \subseteq deployed', deployed' \subseteq Ids,
         UNCHANGED <<named, pods, group, log, exit>>
  PROVE  Inv'
BY FailedLemma
   DEF Fail, Inv, TypeOk, Running, DeployedBefore, OnlyGroup, PrintedIsTrue, LogIsPrinted, InUse

(* The configuration is written to a file, or part of it.                  *)
LEMMA WriteConfigInv == Inv /\ WriteConfig => Inv'
<1> SUFFICES ASSUME Inv, WriteConfig PROVE Inv'
  OBVIOUS
<1>1. CASE pc' = "deploy"
  BY <1>1 DEF WriteConfig, Fail, account, Inv, TypeOk, Running, DeployedBefore, OnlyGroup,
              PrintedIsTrue, LogIsPrinted, InUse
<1>2. CASE Fail("runtime_error")
  <2>1. /\ pc \in Running /\ file' \in {"none", "partial"}
        /\ UNCHANGED <<named, connections, deployed, pods, group, log, exit>>
    BY <1>2 DEF WriteConfig, Fail, account, Running
  <2>2. "runtime_error" \in ApiCodes /\ connections \subseteq Connection /\ deployed \subseteq Ids
    BY DEF ApiCodes, Inv, TypeOk
  <2>3. QED
    BY <1>2, <2>1, <2>2, FailInv
<1>3. QED
  BY <1>1, <1>2 DEF WriteConfig

(* The environment is read; the file is not there yet.                     *)
LEMMA ReadConfigInv == Inv /\ ReadConfig => Inv'
<1> SUFFICES ASSUME Inv, ReadConfig PROVE Inv'
  OBVIOUS
<1>1. CASE pc' = "file"
  BY <1>1 DEF ReadConfig, Fail, account, Inv, TypeOk, Running, DeployedBefore, OnlyGroup,
              PrintedIsTrue, LogIsPrinted, InUse
<1>2. ASSUME NEW code \in ConfigCodes, Fail(code) PROVE Inv'
  <2>1. /\ pc \in Running /\ file' \in {"none", "partial"}
        /\ UNCHANGED <<named, connections, deployed, pods, group, log, exit>>
    BY <1>2 DEF ReadConfig, Fail, account, Running, Inv, TypeOk, InUse
  <2>2. connections \subseteq Connection /\ deployed \subseteq Ids
    BY DEF Inv, TypeOk
  <2>3. QED
    BY <1>2, <2>1, <2>2, FailInv
<1>3. QED
  BY <1>1, <1>2 DEF ReadConfig

(* The CLI has deployed to a connection in a group of the name.            *)
LEMMA DeployInv == ASSUME NEW g \in named, Inv, Deploy(g) PROVE Inv'
<1>1. PICK c \in Connection : /\ c.group = g
                              /\ connections' = connections \cup {c}
                              /\ deployed' = deployed \cup {c.id}
  BY DEF Deploy
<1>2. /\ connections' \subseteq Connection /\ deployed' \subseteq Ids /\ named' = named
      /\ connections \subseteq connections' /\ deployed \subseteq deployed'
      /\ c \in connections' /\ c.id \in deployed' /\ c.group \in named
      /\ pc \in Running
  BY <1>1 DEF Deploy, Inv, TypeOk, Connection, Running
<1>3. CASE pc' = "group" /\ UNCHANGED <<printed, file>>
  BY <1>2, <1>3 DEF Deploy, Inv, TypeOk, Running, DeployedBefore, OnlyGroup, PrintedIsTrue,
                    LogIsPrinted, InUse
<1>4. CASE Fail("deploy_failed") /\ Unlink
  BY <1>2, <1>4, FailInv DEF Deploy, Unlink
<1>5. QED
  BY <1>3, <1>4 DEF Deploy

(* The failures after the file is written, each of which removes it.       *)
LEMMA FailStepInv == Inv /\ (DeployFails \/ ApiFails) => Inv'
<1> SUFFICES ASSUME Inv, DeployFails \/ ApiFails PROVE Inv'
  OBVIOUS
<1>1. PICK code \in ApiCodes \cup {"deploy_failed"} : Fail(code)
  BY DEF DeployFails, ApiFails, ApiCodes
<1>2. /\ pc \in Running /\ file' = "none"
      /\ UNCHANGED <<named, connections, deployed, pods, group, log, exit>>
      /\ connections \subseteq Connection /\ deployed \subseteq Ids
  BY DEF DeployFails, ApiFails, Running, Unlink, account, Inv, TypeOk
<1>3. QED
  BY <1>1, <1>2, FailInv

(* The destination is the one group of the name.                           *)
LEMMA LookUpGroupInv == Inv /\ LookUpGroup => Inv'
<1> SUFFICES ASSUME Inv, LookUpGroup PROVE Inv'
  OBVIOUS
<1> DEFINE r == Resolved(named, "destination_not_found", "destination_ambiguous")
<1>0. /\ IsFiniteSet(named) /\ pc \in Running /\ pc = "group"
      /\ UNCHANGED <<named, connections, deployed, pods, log, exit>>
      /\ connections \subseteq Connection /\ deployed \subseteq Ids
  BY AccountAssumption, FS_Subset DEF Inv, TypeOk, LookUpGroup, Running, account
<1>1. ASSUME NEW id, named = {id}, r = Succeeded(id) PROVE Inv'
  <2>1. pc' = "connection" /\ group' = id /\ UNCHANGED <<printed, file>>
    BY <1>1 DEF LookUpGroup, Succeeded
  <2>2. id \in Groups /\ id # Nothing
    BY <1>1, AccountAssumption DEF Inv, TypeOk
  <2>3. QED
    BY <1>0, <1>1, <2>1, <2>2
       DEF Inv, TypeOk, Running, DeployedBefore, OnlyGroup, PrintedIsTrue, LogIsPrinted, InUse
<1>2. ASSUME NEW code \in LookupCodes, r = Failed(code) PROVE Inv'
  <2>1. Fail(code) /\ file' = "none" /\ UNCHANGED group
    BY <1>2 DEF LookUpGroup, Failed, Unlink
  <2>2. QED
    BY <1>0, <2>1, FailInv
<1>3. QED
  <2>1. {"destination_not_found", "destination_ambiguous"} \subseteq LookupCodes
    BY DEF LookupCodes
  <2>2. QED
    BY <1>0, <1>1, <1>2, <2>1, ResolvedIsOnly

(* The connection is the one of the name in that group, so it is the one   *)
(* this job has deployed to.                                               *)
LEMMA LookUpConnectionInv == Inv /\ LookUpConnection => Inv'
<1> SUFFICES ASSUME Inv, LookUpConnection PROVE Inv'
  OBVIOUS
<1> DEFINE r == Resolved(Matches, "connection_not_found", "connection_ambiguous")
<1>0. /\ pc \in Running /\ pc = "connection" /\ pc' = "report" /\ printed' = {r} /\ file' = "none"
      /\ UNCHANGED <<named, connections, deployed, pods, group, log, exit>>
      /\ connections \subseteq Connection /\ deployed \subseteq Ids
  BY DEF Inv, TypeOk, LookUpConnection, Running, account, Unlink
<1>1. ASSUME NEW id, Matches = {id}, r = Succeeded(id) PROVE Inv'
  <2>1. PICK c \in connections : c.id \in deployed /\ c.group \in named
    BY <1>0 DEF Inv, DeployedBefore
  <2>2. named = {group}
    BY <1>0 DEF Inv, TypeOk, OnlyGroup
  <2>3. c.id \in Matches
    BY <2>1, <2>2 DEF Matches
  <2>4. c.id = id /\ id \in Ids /\ named = {c.group}
    BY <1>1, <2>1, <2>2, <2>3, MatchesFinite DEF Inv
  <2>5. Succeeded(id) \in Results /\ Succeeded(id).status = "succeeded"
        /\ Cardinality({Succeeded(id)}) <= 1
    BY <2>4, OneResult DEF Succeeded, Results
  <2>6. QED
    BY <1>0, <1>1, <2>1, <2>4, <2>5
       DEF Inv, TypeOk, Running, DeployedBefore, OnlyGroup, PrintedIsTrue, LogIsPrinted, InUse
<1>2. ASSUME NEW code \in LookupCodes, r = Failed(code) PROVE Inv'
  BY <1>0, <1>2, FailInv DEF Fail
<1>3. QED
  <2>1. {"connection_not_found", "connection_ambiguous"} \subseteq LookupCodes
    BY DEF LookupCodes
  <2>2. IsFiniteSet(Matches)
    BY MatchesFinite DEF Inv
  <2>3. QED
    BY <1>1, <1>2, <2>1, <2>2, ResolvedIsOnly

(* The ways out of a pod.                                                  *)
LEMMA WayOutInv == Inv /\ (AnswerUnexpected \/ Report \/ Exit \/ Kill) => Inv'
BY DEF AnswerUnexpected, Escape, Unlink, Report, Exit, ExitCode, Kill, account, Inv, TypeOk,
       Running, DeployedBefore, OnlyGroup, PrintedIsTrue, LogIsPrinted, InUse

-----------------------------------------------------------------------------
(* Every step preserves the invariant.                                     *)
LEMMA NextInv == Inv /\ [Next]_vars => Inv'
<1> SUFFICES ASSUME Inv, [Next]_vars PROVE Inv'
  OBVIOUS
<1>1. CASE UNCHANGED vars
  BY <1>1 DEF vars, pod, Inv, TypeOk, Running, DeployedBefore, OnlyGroup, PrintedIsTrue,
              LogIsPrinted, InUse
<1>2. CASE Next
  BY <1>1, <1>2, ElsewhereInv, StartPodInv, ReadConfigInv, WriteConfigInv, DeployInv,
     FailStepInv, LookUpGroupInv, LookUpConnectionInv, WayOutInv
     DEF Next, Over
<1>3. QED
  BY <1>1, <1>2

(* The invariant holds in every reachable state.                           *)
THEOREM DeployerInvariance == Spec => []Inv
<1>1. Init => Inv
  BY InitInv
<1>2. Inv /\ [Next]_vars => Inv'
  BY NextInv
<1>3. QED
  BY <1>1, <1>2, PTL DEF Spec

(* The states of the deployer job have the types the module declares.      *)
THEOREM DeployerTypeOk == Spec => []TypeOk
<1>1. Inv => TypeOk
  BY DEF Inv
<1>2. QED
  BY <1>1, DeployerInvariance, PTL

(* A job that exits with 0 has deployed to the connection its termination  *)
(* log names, in the only destination of the name, whatever others do to   *)
(* the account meanwhile.                                                  *)
THEOREM DeployerSuccess == Spec => []SuccessIsDeployed
<1>1. Inv => SuccessIsDeployed
  BY DEF Inv, LogIsPrinted, PrintedIsTrue, SuccessIsDeployed
<1>2. QED
  BY <1>1, DeployerInvariance, PTL

(* No pod but a killed one leaves a written configuration behind.          *)
THEOREM DeployerConfigRemoved == Spec => []ConfigRemoved
<1>1. Inv => ConfigRemoved
  BY DEF Inv, InUse, ConfigRemoved
<1>2. QED
  BY <1>1, DeployerInvariance, PTL
=============================================================================
