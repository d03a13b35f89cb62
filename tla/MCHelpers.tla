------------------------------ MODULE MCHelpers ------------------------------
(***************************************************************************)
(* The small components for TLC.  Each behaviour is one of a single        *)
(* component, chosen at first; the variables of the others stay as they    *)
(* are.                                                                    *)
(***************************************************************************)
EXTENDS MCDefer, MemcacheLock, ModelDocument, LocknessMonster, Secrets, TaskEnvironment,
        Batches, Sandbox, KeyRanges, TLC

CONSTANTS t1, t2, t3, t4, v1, v2, i1, i2, i3, p1, p2, p3

---------------------------------------------------------------------------
\* Two numbers for three threads: a draw may repeat another's.
TwoValues == {v1, v2}
Hasty == [wait |-> FALSE, steal |-> 0]
Thief == [wait |-> TRUE, steal |-> 1]
Callers == {Hasty, Thief}

\* Two threads call a decorated function, the others use "with".
WithAndDecorated == t1 :> i1 @@ t2 :> i1 @@ t3 :> i2 @@ t4 :> i3
\* The emulator of Cloud Tasks is not waited for.
TwoEmulators == <<"tasks", "storage">>
\* Keys on both sides of 0.
SomeKeys == {-2, 0, 1, 2, 3, 5}

VARIABLES behaviour, listed, unqueued, tasks, failures, runner
Runner == INSTANCE TaskRunner
  WITH Jobs <- {1, 2, 3}, FirstJobs <- {1, 2}, MaxTaskRetries <- 3, queued <- listed
---------------------------------------------------------------------------
VARIABLE part
runnerVars == <<behaviour, listed, unqueued, tasks, failures, runner>>
allVars == <<part, vars, weakVars, monsterVars, secretsVars, taskEnvVars, runnerVars,
             batchVars, sandboxVars, rangesVars, documentVars>>

Only(p) == part = p /\ UNCHANGED part
HelpersInit ==
  /\ part \in {"defer", "weak", "monster", "secrets", "environment", "runner", "batches",
               "sandbox", "ranges", "model"}
  /\ Init /\ WeakInit /\ MonsterInit /\ SecretsInit /\ TaskEnvInit
  /\ Runner!Init /\ BatchInit /\ SandboxInit /\ RangesInit /\ ModelInit
  /\ part # "defer" =>
       call = [large |-> TRUE, small |-> TRUE, arg |-> "none", atomic |-> TRUE]
  /\ part # "secrets" => backend = "gsm"
  /\ part # "runner" => behaviour = "DO_NOTHING" /\ tasks = <<1, 2>>
  /\ part # "batches" => reading = "pages"
  /\ part # "sandbox" => explicit
  /\ part # "ranges" => getter = "random" /\ wanted = 1 /\ table = {}

NotDefer == UNCHANGED vars
NotWeak == UNCHANGED weakVars
NotMonster == UNCHANGED monsterVars
NotSecrets == UNCHANGED secretsVars
NotEnvironment == UNCHANGED taskEnvVars
NotRunner == UNCHANGED runnerVars
NotBatches == UNCHANGED batchVars
NotSandbox == UNCHANGED sandboxVars
NotRanges == UNCHANGED rangesVars
NotModel == UNCHANGED documentVars

HelpersNext ==
  \/ /\ Only("defer") /\ Next
     /\ NotWeak /\ NotMonster /\ NotSecrets /\ NotEnvironment
     /\ NotRunner /\ NotBatches /\ NotSandbox /\ NotRanges /\ NotModel
  \/ /\ Only("weak") /\ WeakNext
     /\ NotDefer /\ NotMonster /\ NotSecrets /\ NotEnvironment
     /\ NotRunner /\ NotBatches /\ NotSandbox /\ NotRanges /\ NotModel
  \/ /\ Only("monster") /\ MonsterNext
     /\ NotDefer /\ NotWeak /\ NotSecrets /\ NotEnvironment
     /\ NotRunner /\ NotBatches /\ NotSandbox /\ NotRanges /\ NotModel
  \/ /\ Only("secrets") /\ SecretsNext
     /\ NotDefer /\ NotWeak /\ NotMonster /\ NotEnvironment
     /\ NotRunner /\ NotBatches /\ NotSandbox /\ NotRanges /\ NotModel
  \/ /\ Only("environment") /\ TaskEnvNext
     /\ NotDefer /\ NotWeak /\ NotMonster /\ NotSecrets
     /\ NotRunner /\ NotBatches /\ NotSandbox /\ NotRanges /\ NotModel
  \/ /\ Only("runner") /\ Runner!Next
     /\ NotDefer /\ NotWeak /\ NotMonster /\ NotSecrets
     /\ NotEnvironment /\ NotBatches /\ NotSandbox /\ NotRanges /\ NotModel
  \/ /\ Only("batches") /\ BatchNext
     /\ NotDefer /\ NotWeak /\ NotMonster /\ NotSecrets
     /\ NotEnvironment /\ NotRunner /\ NotSandbox /\ NotRanges /\ NotModel
  \/ /\ Only("sandbox") /\ SandboxNext
     /\ NotDefer /\ NotWeak /\ NotMonster /\ NotSecrets
     /\ NotEnvironment /\ NotRunner /\ NotBatches /\ NotRanges /\ NotModel
  \/ /\ Only("ranges") /\ RangesNext
     /\ NotDefer /\ NotWeak /\ NotMonster /\ NotSecrets
     /\ NotEnvironment /\ NotRunner /\ NotBatches /\ NotSandbox /\ NotModel
  \/ /\ Only("model") /\ ModelNext
     /\ NotDefer /\ NotWeak /\ NotMonster /\ NotSecrets
     /\ NotEnvironment /\ NotRunner /\ NotBatches /\ NotSandbox /\ NotRanges

HelpersSpec ==
  /\ HelpersInit /\ [][HelpersNext]_allVars
  /\ WF_vars(Only("defer") /\ (CallDefer \/ Schedule))
  /\ WF_vars(Only("defer") /\ Handle)
  /\ SF_vars(Only("defer") /\ Returns)
  /\ WF_weakVars(Only("weak") /\ Tick)
  /\ \A t \in Threads : WF_weakVars(Only("weak") /\ Step(t))
  /\ WF_runnerVars(Only("runner") /\ Runner!Loop)
  /\ WF_sandboxVars(/\ Only("sandbox")
                    /\ \E p \in Programs, e \in Names : Boot(p, e))
  /\ \A p \in Programs : WF_sandboxVars(Only("sandbox") /\ ProgramStep(p))
---------------------------------------------------------------------------
\* See TaskRunner.
RunnerDrains == Runner!RunnerDrains
=============================================================================
