------------------------------ MODULE Services ------------------------------
(***************************************************************************)
(* Two parts of the gateway and eight services of the kernel.  They share  *)
(* no state: a behaviour of this specification is a behaviour of the       *)
(* component chosen at the start, beside the initial states of the others, *)
(* which never move.                                                       *)
(***************************************************************************)
EXTENDS Gateway, GatewayQueue, ExecutorRegistry, CapabilityTokens,
        ThreadManager, ParallelWork, TraceLog, PromptCache, Composer, SkillCalls

VARIABLE part

vars == <<part, gatewayVars, queueVars, registryVars, tokenVars, managerVars,
          workVars, traceVars, cacheVars, composerVars, skillVars>>

\* What a step of each part leaves alone.
notGateway == <<part, queueVars, registryVars, tokenVars, managerVars,
                workVars, traceVars, cacheVars, composerVars, skillVars>>
notQueue == <<part, gatewayVars, registryVars, tokenVars, managerVars,
              workVars, traceVars, cacheVars, composerVars, skillVars>>
notRegistry == <<part, gatewayVars, queueVars, tokenVars, managerVars,
                 workVars, traceVars, cacheVars, composerVars, skillVars>>
notTokens == <<part, gatewayVars, queueVars, registryVars, managerVars,
               workVars, traceVars, cacheVars, composerVars, skillVars>>
notThreads == <<part, gatewayVars, queueVars, registryVars, tokenVars,
                workVars, traceVars, cacheVars, composerVars, skillVars>>
notParallel == <<part, gatewayVars, queueVars, registryVars, tokenVars,
                 managerVars, traceVars, cacheVars, composerVars, skillVars>>
notTraces == <<part, gatewayVars, queueVars, registryVars, tokenVars,
               managerVars, workVars, cacheVars, composerVars, skillVars>>
notPrompts == <<part, gatewayVars, queueVars, registryVars, tokenVars,
                managerVars, workVars, traceVars, composerVars, skillVars>>
notComposer == <<part, gatewayVars, queueVars, registryVars, tokenVars,
                 managerVars, workVars, traceVars, cacheVars, skillVars>>
notSkills == <<part, gatewayVars, queueVars, registryVars, tokenVars, managerVars,
               workVars, traceVars, cacheVars, composerVars>>

Init ==
  /\ part \in {"gateway", "queue", "registry", "tokens", "threads", "parallel",
               "traces", "prompts", "composer", "skills"}
  /\ GatewayInit /\ QueueInit /\ RegistryInit /\ TokensInit /\ ManagerInit
  /\ WorkInit /\ TraceInit /\ CacheInit /\ ComposerInit
  /\ SkillInit

Next ==
  \/ part = "gateway"  /\ GatewayNext  /\ UNCHANGED notGateway
  \/ part = "queue"    /\ QueueNext    /\ UNCHANGED notQueue
  \/ part = "registry" /\ RegistryNext /\ UNCHANGED notRegistry
  \/ part = "tokens"   /\ TokensNext   /\ UNCHANGED notTokens
  \/ part = "threads"  /\ ManagerNext  /\ UNCHANGED notThreads
  \/ part = "parallel" /\ WorkNext     /\ UNCHANGED notParallel
  \/ part = "traces"   /\ TraceNext    /\ UNCHANGED notTraces
  \/ part = "prompts"  /\ CacheNext    /\ UNCHANGED notPrompts
  \/ part = "composer" /\ ComposerNext /\ UNCHANGED notComposer
  \/ part = "skills"   /\ SkillNext    /\ UNCHANGED notSkills

\* GatewayFairness, QueueFairness, RegistryFairness and SkillFairness, each for its part.
Fairness ==
  /\ WF_gatewayVars(part = "gateway" /\ Poll)
  /\ \A h \in Sends :
       WF_gatewayVars(part = "gateway" /\ (FileWritten(h) \/ IndexAndAnnounce(h)))
  /\ \A s \in Lanes : WF_queueVars(part = "queue" /\ FinishItem(s))
  /\ \A c \in Calls : WF_registryVars(part = "registry" /\ CallStep(c))
  /\ \A c \in Callers :
       /\ WF_skillVars(part = "skills" /\ SkillStep(c))
       /\ WF_skillVars(part = "skills" /\ LockTimesOut(c))
       /\ WF_skillVars(part = "skills" /\ CommandTimesOut(c))

Spec == Init /\ [][Next]_vars /\ Fairness

\* The values of the variables, and the bounds, of the component that moves.
TypeOK ==
  /\ part = "gateway"  => GatewayTypeOK
  /\ part = "queue"    => QueueTypeOK
  /\ part = "registry" => RegistryTypeOK
  /\ part = "tokens"   => TokensTypeOK
  /\ part = "threads"  => ManagerTypeOK
  /\ part = "parallel" => WorkTypeOK
  /\ part = "traces"   => TraceTypeOK
  /\ part = "prompts"  => CacheTypeOK
  /\ part = "composer" => ComposerTypeOK
  /\ part = "skills"   => SkillTypeOK
=============================================================================
