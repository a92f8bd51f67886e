---- MODULE MCComponents ----
\* Finite instances for TLC of the components that share no state with each other: a
\* behaviour is one of a single component, which is chosen in its initial state.  The
\* fairness of a component is asked for only where it is the chosen one.
EXTENDS A2AExchange, EventStream, RunScheduling, ToolGate, TaskBranch, VerifySandbox,
        FixPlanning, ImpactScope, ReviewInput

CONSTANT Parts   \* the components to check
VARIABLE part

allVars == <<part, vars, eventVars, schedulingVars, toolVars, branchVars, sandboxVars,
             planningVars, impactVars, inputVars>>

ComponentsInit ==
  /\ part \in Parts
  /\ Init /\ EventInit /\ SchedulingInit /\ ToolInit /\ BranchInit /\ SandboxInit
  /\ PlanningInit /\ ImpactInit /\ InputInit

NotExchange == UNCHANGED vars
NotEvents == UNCHANGED eventVars
NotScheduling == UNCHANGED schedulingVars
NotTools == UNCHANGED toolVars
NotBranch == UNCHANGED branchVars
NotSandbox == UNCHANGED sandboxVars
NotPlanning == UNCHANGED planningVars
NotImpact == UNCHANGED impactVars
NotInput == UNCHANGED inputVars

ComponentsNext ==
  /\ part' = part
  /\ (part = "exchange" /\ Next) \/ (part # "exchange" /\ NotExchange)
  /\ (part = "events" /\ EventNext) \/ (part # "events" /\ NotEvents)
  /\ (part = "scheduling" /\ SchedulingNext) \/ (part # "scheduling" /\ NotScheduling)
  /\ (part = "tools" /\ ToolNext) \/ (part # "tools" /\ NotTools)
  /\ (part = "branch" /\ BranchNext) \/ (part # "branch" /\ NotBranch)
  /\ (part = "sandbox" /\ SandboxNext) \/ (part # "sandbox" /\ NotSandbox)
  /\ (part = "planning" /\ PlanningNext) \/ (part # "planning" /\ NotPlanning)
  /\ (part = "impact" /\ ImpactNext) \/ (part # "impact" /\ NotImpact)
  /\ (part = "input" /\ InputNext) \/ (part # "input" /\ NotInput)

ComponentsSpec ==
  /\ ComponentsInit /\ [][ComponentsNext]_allVars
  /\ WF_vars(part = "exchange" /\ DeadlinePasses)
  /\ \A t \in Trackers : WF_vars(part = "exchange" /\ TrackerStep(t))
  /\ WF_eventVars(part = "events" /\ StreamStep)
  /\ WF_eventVars(part = "events" /\ Connect)
  /\ WF_schedulingVars(part = "scheduling" /\ Acquire)
  /\ WF_schedulingVars(part = "scheduling" /\ RecoverNext)
  /\ \A x \in Workers : WF_schedulingVars(part = "scheduling" /\ RunStep(x))
  /\ WF_sandboxVars(part = "sandbox" /\ SandboxStep)
====
