---- MODULE ToolGate ----
\* The one way to the tools (tools/registry.py, domain/budget.py, agents/base.py), as
\* the handler of a child uses it: it calls what it likes, also after a refusal.  The
\* same child may be executed again, in a new session, with a new gateway and budget.
\* An operator whose name extends the one after it is a faulty variant of it.
EXTENDS Naturals, FiniteSets

CONSTANTS
  CallingAgents, \* agents whose handler calls tools
  ToolsCalled,   \* the tools they try
  CallParams,    \* parameters, told apart by their hash; "bad" fails the validation
  CallLimit,     \* tool_calls_limit, 30 in the code
  LoopLimit,     \* loop_detection_threshold
  MaxExecutions, \* bound: executions of a handler
  MaxCalls       \* bound: calls in one execution

VARIABLES
  executions,  \* the keys of the committed rows of tool_execution
  handler,     \* the open session: its rows, the counter of the gateway, the budget
  opened

toolVars == <<executions, handler, opened>>

ASSUME BudgetAssumption == CallLimit \in Nat /\ LoopLimit \in Nat

\* -- policies ---------------------------------------------------------------
Browse == {"read_file", "search_code", "get_diff", "list_files"}
ReadTools == Browse \cup {"run_lint", "get_test_result"}
WriteTools == {"write_patch", "run_tests"}
Registered == ReadTools \cup WriteTools
PolicyAgents == {"review-agent", "impact-agent", "fix-agent", "verify-agent"}

\* AGENT_POLICIES: which tools an agent may call, and which are ruled out by name.
AllowedTools ==
  [a \in PolicyAgents |->
     CASE a = "impact-agent" -> Browse
       [] a = "fix-agent" -> Browse \cup {"get_test_result"}
       [] OTHER -> ReadTools]
ForbiddenTools ==
  [a \in PolicyAgents |->
     {"apply_patch", "merge_branch", "write_file"} \cup
     CASE a = "review-agent" -> WriteTools
       [] a = "impact-agent" -> WriteTools \cup {"run_lint"}
       [] a = "verify-agent" -> {"write_patch"}
       [] a = "fix-agent" -> {}]

\* authorize, for an agent.  A writing tool is refused whatever the policy says.
Authorized(agent, tool) ==
  /\ agent \in PolicyAgents
  /\ tool \in AllowedTools[agent] \ ForbiddenTools[agent]
  /\ tool \notin WriteTools

\* -- calls ------------------------------------------------------------------
Signatures == ToolsCalled \X CallParams
None == [s \in Signatures |-> 0]
Closed == [agent |-> "none", count |-> 0, used |-> 0, tried |-> None, ran |-> {}, rows |-> {}]

ToolInit == executions = {} /\ handler = Closed /\ opened = 0

\* A child is executed: the calls are numbered from the start again.
OpenHandler ==
  /\ handler = Closed
  /\ opened < MaxExecutions
  /\ opened' = opened + 1
  /\ \E a \in CallingAgents : handler' = [Closed EXCEPT !.agent = a]
  /\ UNCHANGED executions

\* charge_tool: a call is counted first, and refused beyond the limit or as a loop.
\* The arguments are the budget with this call counted, and the signature.
ChargedOnce(h, s) == h.used <= CallLimit /\ h.tried[s] <= LoopLimit
Charged(h, s) == h.used <= CallLimit /\ h.tried[s] < LoopLimit

\* call.  The number of the call goes into its key.  A recorded key is answered from
\* its row, or a conflict; a refusal by policy or validation is recorded like an
\* execution, one beyond the budget is not; a tool that fails has been recorded.
CallTool(tool, params) ==
  LET n == handler.count + 1
      key == <<handler.agent, tool, n>>
      found == key \in executions \cup handler.rows
      s == <<tool, params>>
      counted == [handler EXCEPT !.count = n]
      recorded == [counted EXCEPT !.rows = @ \cup {key}]
      charged == [counted EXCEPT
        !.used = @ + 1,
        !.tried[s] = IF handler.used < CallLimit THEN @ + 1 ELSE @]
      refused == ~Authorized(handler.agent, tool) \/ params = "bad"
  IN  /\ handler.agent # "none"
      /\ handler.count < MaxCalls
      /\ \/ /\ tool \notin Registered \/ found
            /\ handler' = counted
         \/ /\ tool \in Registered /\ ~found /\ refused
            /\ handler' = recorded
         \/ /\ tool \in Registered /\ ~found /\ ~refused
            /\ handler' = IF Charged(charged, s)
                            THEN [charged EXCEPT !.ran = @ \cup {<<n, s>>}, !.rows = @ \cup {key}]
                            ELSE charged
      /\ UNCHANGED <<executions, opened>>

\* The session of the child commits with its artifacts, or is rolled back.
CloseHandler ==
  /\ handler.agent # "none"
  /\ executions' \in {executions, executions \cup handler.rows}
  /\ handler' = Closed
  /\ UNCHANGED opened

ToolNext ==
  \/ OpenHandler
  \/ CloseHandler
  \/ \E tool \in ToolsCalled, params \in CallParams : CallTool(tool, params)
ToolSpec == ToolInit /\ [][ToolNext]_toolVars

\* -- properties -------------------------------------------------------------
\* The calls of this execution that ran with a signature.
RanWith(s) == {c \in handler.ran : c[2] = s}

\* Whatever a handler does with the answers it gets, in one execution no tool runs
\* as often as the loop limit with the same parameters, all tools together not more
\* often than the budget allows, and none that writes or lies outside the policy.
CallsContained ==
  /\ Cardinality(handler.ran) <= CallLimit
  /\ \A c \in handler.ran :
       /\ Cardinality(RanWith(c[2])) < LoopLimit
       /\ c[2][1] \in AllowedTools[handler.agent] \ WriteTools
====
