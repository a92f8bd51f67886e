---- MODULE CommandLedgerProofs ----
\* What the ledger keeps, for any number of processes, aggregates and payloads:
\* a command that has not failed is executed once, by one process, and every
\* client that repeats it gets that one answer.
EXTENDS CommandLedger, TLAPS

\* What a process knows about the row it works on: the row has its payload, and the
\* answer it is about to record is that of an execution which took place.
WorkerKnows ==
  \A w \in Workers : Executing(w) =>
    /\ ~Absent(worker[w].aggregate)
    /\ record[worker[w].aggregate].payload = worker[w].payload
    /\ At(w, "complete") =>
         /\ worker[w].answer \in Answers
         /\ worker[w].answer.payload = worker[w].payload
         /\ worker[w].answer.nth \in 1..executed[worker[w].aggregate]

\* What a row, and a client, know about the execution that answered.
RowKnows ==
  \A a \in Aggregates :
    /\ record[a].status = "completed" =>
         /\ record[a].answer \in Answers
         /\ record[a].answer.payload = record[a].payload
         /\ record[a].answer.nth \in 1..executed[a]
    /\ \A x \in Payloads : \A r \in given[a][x] : r.payload = x /\ r.nth \in 1..executed[a]

\* While no failure was recorded, the row is in one of three phases, and the one
\* process at work, if there is one, is in the same.
Works(w, a) == Executing(w) /\ worker[w].aggregate = a

FirstExecution(a) ==
  /\ record[a].status \in {"none", "in_progress", "completed"}
  /\ record[a].status = "none" => executed[a] = 0
  /\ record[a].status # "in_progress" => \A w \in Workers : ~Works(w, a)
  /\ \A v, w \in Workers : Works(v, a) /\ Works(w, a) => v = w
  /\ \A w \in Workers : Works(w, a) => executed[a] = IF At(w, "complete") THEN 1 ELSE 0
  /\ executed[a] <= 1
  /\ record[a].status = "in_progress" /\ "lost" \notin history[a] =>
       \E w \in Workers : Works(w, a)

FirstTime == \A a \in Aggregates : "failed" \notin history[a] => FirstExecution(a)

\* Afterwards the row is never in progress again.
AfterFailure ==
  \A a \in Aggregates : "failed" \in history[a] => record[a].status \in {"failed", "completed"}

LedgerInv == TypeOK /\ WorkerKnows /\ RowKnows /\ FirstTime /\ AfterFailure

\* The answers and the bounds are what they are declared to be.
LEMMA AnswerFacts ==
  /\ NoAnswer.nth = 0 /\ NoAnswer \notin Answers
  /\ \A r \in Answers : r.payload \in Payloads /\ r.nth \in 1..MaxExecutions
<1> QED
  BY DEF NoAnswer, Answers

\* Initially nothing is in the ledger.
LEMMA LedgerInit == Init => LedgerInv
<1> SUFFICES ASSUME Init PROVE LedgerInv
  OBVIOUS
<1>1. TypeOK
  BY LedgerAssumption DEF Init, TypeOK, Rows, NoRecord, Idle
<1>2. \A w \in Workers : ~Executing(w)
  BY DEF Init, Executing, Idle
<1>3. \A a \in Aggregates : record[a].status = "none" /\ executed[a] = 0 /\ history[a] = {}
                            /\ \A x \in Payloads : given[a][x] = {}
  BY DEF Init, NoRecord
<1> QED
  BY <1>1, <1>2, <1>3
  DEF LedgerInv, WorkerKnows, RowKnows, FirstTime, FirstExecution, AfterFailure, Works

\* What is left alone by a step that only starts to serve, or refuses, a request.
LEMMA LookSteps ==
  ASSUME LedgerInv, NEW w \in Workers, NEW a \in Aggregates, NEW x \in Payloads,
         Reserve(w, a, x) \/ Refuse(w, a, x)
  PROVE  LedgerInv'
<1>1. CASE Refuse(w, a, x)
  BY <1>1 DEF Refuse, vars, LedgerInv, TypeOK, WorkerKnows, RowKnows, FirstTime, FirstExecution, AfterFailure,
              Works, Executing, At, Absent
<1>2. CASE Reserve(w, a, x)
  <2>1. UNCHANGED <<record, executed, given, history, crashes>>
    BY <1>2 DEF Reserve
  <2>2. /\ worker' = [worker EXCEPT ![w] = [pc |-> "insert", aggregate |-> a, payload |-> x,
                                            answer |-> NoAnswer]]
        /\ ~Executing(w) /\ ~Executing(w)'
    BY <1>2 DEF Reserve, Serve, At, Executing, LedgerInv, TypeOK
  <2>3. \A v \in Workers \ {w} : worker'[v] = worker[v]
    BY <2>2 DEF LedgerInv, TypeOK
  <2>4. TypeOK'
    BY <2>1, <2>2 DEF LedgerInv, TypeOK, Requests
  <2>5. WorkerKnows' /\ FirstTime'
    BY <2>1, <2>2, <2>3 DEF LedgerInv, WorkerKnows, FirstTime, FirstExecution, Works, Executing, At, Absent
  <2> QED
    BY <2>1, <2>4, <2>5 DEF LedgerInv, RowKnows, AfterFailure
<1> QED
  BY <1>1, <1>2

\* A failed command is taken up again: nothing is claimed of it any more.
LEMMA RetrySteps ==
  ASSUME LedgerInv, NEW w \in Workers, NEW a \in Aggregates, NEW x \in Payloads, Retry(w, a, x)
  PROVE  LedgerInv'
<1>1. UNCHANGED <<record, executed, given, history, crashes>>
  BY DEF Retry
<1>2. /\ worker' = [worker EXCEPT ![w] = [pc |-> "work", aggregate |-> a, payload |-> x,
                                          answer |-> NoAnswer]]
      /\ record[a].status = "failed" /\ record[a].payload = x
  BY DEF Retry, Serve
<1>3. worker'[w] = [pc |-> "work", aggregate |-> a, payload |-> x, answer |-> NoAnswer]
      /\ \A v \in Workers \ {w} : worker'[v] = worker[v]
  BY <1>2 DEF LedgerInv, TypeOK
<1>4. "failed" \in history[a]
  BY <1>2 DEF LedgerInv, FirstTime, FirstExecution
<1>5. TypeOK'
  BY <1>1, <1>2 DEF LedgerInv, TypeOK, Requests
<1>6. WorkerKnows'
  BY <1>1, <1>2, <1>3 DEF LedgerInv, WorkerKnows, Executing, At, Absent
<1>7. \A b \in Aggregates \ {a}, v \in Workers : Works(v, b)' => Works(v, b) /\ v # w
  BY <1>3 DEF Works, Executing
<1>8. ~Executing(w)
  BY DEF Retry, At, Executing
<1>9. FirstTime'
  <2> SUFFICES ASSUME NEW b \in Aggregates, "failed" \notin history'[b]
               PROVE  FirstExecution(b)'
    BY DEF FirstTime
  <2> QED
    BY <1>1, <1>3, <1>4, <1>7, <1>8 DEF LedgerInv, FirstTime, FirstExecution, Works, Executing, At
<1> QED
  BY <1>1, <1>5, <1>6, <1>9 DEF LedgerInv, RowKnows, AfterFailure

\* A replay tells one more client what the row knows.
LEMMA ReplaySteps ==
  ASSUME LedgerInv, NEW w \in Workers, NEW a \in Aggregates, NEW x \in Payloads, Replay(w, a, x)
  PROVE  LedgerInv'
<1>1. UNCHANGED <<record, worker, executed, history, crashes>>
  BY DEF Replay
<1>2. /\ record[a].answer \in Answers
      /\ record[a].answer.payload = x
      /\ record[a].answer.nth \in 1..executed[a]
  BY DEF Replay, LedgerInv, RowKnows
<1>3. given' = [given EXCEPT ![a][x] = @ \cup {record[a].answer}]
  BY DEF Replay
<1>4. TypeOK'
  BY <1>1, <1>2, <1>3 DEF LedgerInv, TypeOK
<1>5. RowKnows'
  <2>1. ASSUME NEW b \in Aggregates, NEW y \in Payloads, NEW r \in given'[b][y]
        PROVE  r \in given[b][y] \/ (b = a /\ y = x /\ r = record[a].answer)
    BY <2>1, <1>3 DEF LedgerInv, TypeOK
  <2> QED
    BY <2>1, <1>1, <1>2 DEF LedgerInv, RowKnows
<1> QED
  BY <1>1, <1>4, <1>5
  DEF LedgerInv, WorkerKnows, FirstTime, FirstExecution, AfterFailure, Works, Executing, At, Absent

\* Nobody works on an aggregate that has no row.
LEMMA AbsentFacts ==
  ASSUME LedgerInv, NEW a \in Aggregates, Absent(a)
  PROVE  "failed" \notin history[a] /\ executed[a] = 0 /\ \A w \in Workers : ~Works(w, a)
<1> QED
  BY DEF LedgerInv, FirstTime, FirstExecution, AfterFailure, Absent

\* A process that executes, executes a request.
LEMMA ExecutingTypes ==
  ASSUME LedgerInv
  PROVE  \A w \in Workers : Executing(w) =>
           /\ worker[w] \in Requests
           /\ worker[w].aggregate \in Aggregates
           /\ worker[w].payload \in Payloads
<1> QED
  BY DEF LedgerInv, TypeOK, Requests, Executing, Idle

\* An insert makes its process the only one at work.
LEMMA InsertSteps ==
  ASSUME LedgerInv, NEW w \in Workers, Insert(w)
  PROVE  LedgerInv'
<1>1. PICK a \in Aggregates, x \in Payloads :
        /\ worker[w].aggregate = a /\ worker[w].payload = x /\ worker[w].pc = "insert"
        /\ ~Executing(w)
  BY DEF Insert, At, LedgerInv, TypeOK, Requests, Idle, Executing
<1>2. UNCHANGED <<executed, given, history, crashes>>
  BY DEF Insert
<1>3. CASE /\ UNCHANGED record
           /\ worker' = [worker EXCEPT ![w] = Idle]
  <2>1. /\ worker'[w] = Idle
        /\ \A v \in Workers \ {w} : worker'[v] = worker[v]
    BY <1>3 DEF LedgerInv, TypeOK
  <2>2. TypeOK'
    BY <1>2, <1>3 DEF LedgerInv, TypeOK
  <2>3. WorkerKnows' /\ FirstTime'
    BY <2>1, <1>1, <1>2, <1>3
    DEF LedgerInv, WorkerKnows, FirstTime, FirstExecution, Works, Executing, At, Absent, Idle
  <2> QED
    BY <2>2, <2>3, <1>2, <1>3 DEF LedgerInv, RowKnows, AfterFailure
<1>4. CASE /\ Absent(a)
           /\ record' = [record EXCEPT ![a] = [status |-> "in_progress", payload |-> x,
                                               answer |-> NoAnswer]]
           /\ Serve(w, "work", a, x, NoAnswer)
  <2>1. /\ worker'[w] = [pc |-> "work", aggregate |-> a, payload |-> x, answer |-> NoAnswer]
        /\ \A v \in Workers \ {w} : worker'[v] = worker[v]
    BY <1>4, <1>1 DEF LedgerInv, TypeOK, Serve
  <2>2. /\ record'[a] = [status |-> "in_progress", payload |-> x, answer |-> NoAnswer]
        /\ \A b \in Aggregates \ {a} : record'[b] = record[b]
    BY <1>4, <1>1 DEF LedgerInv, TypeOK
  <2>3. "failed" \notin history[a] /\ executed[a] = 0 /\ \A v \in Workers : ~Works(v, a)
    BY <1>4, <1>1, AbsentFacts
  <2>4. TypeOK'
    BY <1>4, <1>1, <1>2 DEF LedgerInv, TypeOK, Rows, Requests, Serve
  <2>5. WorkerKnows'
    BY <2>1, <2>2, <2>3, <1>1, <1>2, ExecutingTypes
    DEF LedgerInv, WorkerKnows, Works, Executing, At, Absent
  <2>6. FirstTime'
    <3>1. FirstExecution(a)'
      BY <2>1, <2>2, <2>3, <1>1, <1>2 DEF FirstExecution, Works, Executing, At
    <3>2. ASSUME NEW b \in Aggregates \ {a}, "failed" \notin history'[b]
          PROVE  FirstExecution(b)'
      BY <3>2, <2>1, <2>2, <1>1, <1>2 DEF LedgerInv, FirstTime, FirstExecution, Works, Executing, At
    <3> QED
      BY <3>1, <3>2 DEF FirstTime
  <2>7. RowKnows' /\ AfterFailure'
    BY <2>2, <2>3, <1>1, <1>2 DEF LedgerInv, RowKnows, AfterFailure
  <2> QED
    BY <2>4, <2>5, <2>6, <2>7 DEF LedgerInv
<1> QED
  BY <1>1, <1>3, <1>4 DEF Insert

\* A success raises the count of executions, and the answer is of the last one.
LEMMA SucceedSteps ==
  ASSUME LedgerInv, NEW w \in Workers, Succeed(w)
  PROVE  LedgerInv'
<1>1. PICK a \in Aggregates, x \in Payloads :
        /\ worker[w].aggregate = a /\ worker[w].payload = x /\ worker[w].pc = "work"
        /\ Executing(w)
  BY ExecutingTypes DEF Succeed, At, Executing
<1> DEFINE answer == [payload |-> x, nth |-> executed[a] + 1]
<1>2. UNCHANGED <<record, given, history, crashes>>
  BY DEF Succeed
<1>3. /\ executed[a] \in 0..MaxExecutions /\ executed[a] < MaxExecutions
      /\ executed' = [executed EXCEPT ![a] = @ + 1]
      /\ worker' = [worker EXCEPT ![w] = [pc |-> "complete", aggregate |-> a, payload |-> x,
                                          answer |-> answer]]
  BY <1>1 DEF Succeed, Serve, LedgerInv, TypeOK
<1>4. /\ worker'[w] = [pc |-> "complete", aggregate |-> a, payload |-> x, answer |-> answer]
      /\ \A v \in Workers \ {w} : worker'[v] = worker[v]
      /\ executed'[a] = executed[a] + 1
      /\ \A b \in Aggregates \ {a} : executed'[b] = executed[b]
      /\ \A b \in Aggregates : executed[b] \in 0..MaxExecutions
  BY <1>3 DEF LedgerInv, TypeOK
<1>5. answer \in Answers /\ answer.payload = x /\ answer.nth \in 1..executed'[a]
  BY <1>3, <1>4, LedgerAssumption DEF Answers
<1> HIDE DEF answer
<1>6. TypeOK'
  BY <1>2, <1>3, <1>5, LedgerAssumption DEF LedgerInv, TypeOK, Requests
<1>7. \A b \in Aggregates : 1..executed[b] \subseteq 1..executed'[b]
  BY <1>4, LedgerAssumption
<1>8. WorkerKnows'
  BY <1>1, <1>2, <1>4, <1>5, <1>7, ExecutingTypes DEF LedgerInv, WorkerKnows, Executing, At, Absent
<1>9. RowKnows'
  BY <1>2, <1>7 DEF LedgerInv, RowKnows
<1>10. FirstTime'
  <2>1. ASSUME "failed" \notin history'[a] PROVE FirstExecution(a)'
    BY <2>1, <1>1, <1>2, <1>4 DEF LedgerInv, FirstTime, FirstExecution, Works, Executing, At
  <2>2. ASSUME NEW b \in Aggregates \ {a}, "failed" \notin history'[b] PROVE FirstExecution(b)'
    BY <2>2, <1>1, <1>2, <1>4 DEF LedgerInv, FirstTime, FirstExecution, Works, Executing, At
  <2> QED
    BY <2>1, <2>2 DEF FirstTime
<1> QED
  BY <1>2, <1>6, <1>8, <1>9, <1>10 DEF LedgerInv, AfterFailure

\* A failure that is not recorded yet changes nothing.
LEMMA FailSteps ==
  ASSUME LedgerInv, NEW w \in Workers, Fail(w)
  PROVE  LedgerInv'
<1>1. PICK a \in Aggregates, x \in Payloads :
        /\ worker[w].aggregate = a /\ worker[w].payload = x /\ worker[w].pc = "work"
        /\ Executing(w)
  BY ExecutingTypes DEF Fail, At, Executing
<1>2. UNCHANGED <<record, executed, given, history, crashes>>
  BY DEF Fail
<1>3. worker' = [worker EXCEPT ![w] = [pc |-> "fail", aggregate |-> a, payload |-> x,
                                       answer |-> NoAnswer]]
  BY <1>1 DEF Fail, Serve
<1>4. /\ worker'[w] = [pc |-> "fail", aggregate |-> a, payload |-> x, answer |-> NoAnswer]
      /\ \A v \in Workers \ {w} : worker'[v] = worker[v]
  BY <1>3 DEF LedgerInv, TypeOK
<1>5. TypeOK'
  BY <1>2, <1>3 DEF LedgerInv, TypeOK, Requests
<1>6. WorkerKnows' /\ FirstTime'
  BY <1>1, <1>2, <1>4
  DEF LedgerInv, WorkerKnows, FirstTime, FirstExecution, Works, Executing, At, Absent
<1> QED
  BY <1>2, <1>5, <1>6 DEF LedgerInv, RowKnows, AfterFailure

\* What completes a row was executed.
LEMMA CompleteSteps ==
  ASSUME LedgerInv, NEW w \in Workers, Complete(w)
  PROVE  LedgerInv'
<1>1. PICK a \in Aggregates, x \in Payloads :
        /\ worker[w].aggregate = a /\ worker[w].payload = x /\ worker[w].pc = "complete"
        /\ Executing(w)
  BY ExecutingTypes DEF Complete, At, Executing
<1> DEFINE answer == worker[w].answer
<1>2. UNCHANGED <<executed, history, crashes>>
  BY DEF Complete
<1>3. /\ record' = [record EXCEPT ![a].status = "completed", ![a].answer = answer]
      /\ given' = [given EXCEPT ![a][x] = @ \cup {answer}]
      /\ worker' = [worker EXCEPT ![w] = Idle]
  BY <1>1 DEF Complete
<1>4. /\ answer \in Answers /\ answer.payload = x /\ answer.nth \in 1..executed[a]
      /\ record[a].payload = x
  BY <1>1 DEF LedgerInv, WorkerKnows, At
<1>5. /\ worker'[w] = Idle
      /\ \A v \in Workers \ {w} : worker'[v] = worker[v]
      /\ record'[a].status = "completed" /\ record'[a].answer = answer /\ record'[a].payload = x
      /\ \A b \in Aggregates \ {a} : record'[b] = record[b]
  BY <1>3, <1>4 DEF LedgerInv, TypeOK
<1>6. \A b \in Aggregates, y \in Payloads : \A r \in given'[b][y] :
        r \in given[b][y] \/ (b = a /\ y = x /\ r = answer)
  BY <1>3 DEF LedgerInv, TypeOK
<1> HIDE DEF answer
<1>7. TypeOK'
  <2>1. given[a] \in [Payloads -> SUBSET Answers] /\ given[a][x] \cup {answer} \in SUBSET Answers
    BY <1>4 DEF LedgerInv, TypeOK
  <2>2. given' \in [Aggregates -> [Payloads -> SUBSET Answers]]
    BY <2>1, <1>3 DEF LedgerInv, TypeOK
  <2>3. record' \in [Aggregates -> Rows]
    <3>1. [record[a] EXCEPT !.status = "completed", !.answer = answer] \in Rows
      BY <1>4 DEF LedgerInv, TypeOK, Rows
    <3>2. record' = [record EXCEPT ![a] = [record[a] EXCEPT !.status = "completed", !.answer = answer]]
      BY <1>3 DEF LedgerInv, TypeOK
    <3> QED
      BY <3>1, <3>2 DEF LedgerInv, TypeOK
  <2>4. worker' \in [Workers -> Requests \cup {Idle}]
    BY <1>3 DEF LedgerInv, TypeOK
  <2> QED
    BY <2>2, <2>3, <2>4, <1>2 DEF LedgerInv, TypeOK
<1>8. WorkerKnows'
  BY <1>1, <1>2, <1>4, <1>5, ExecutingTypes DEF LedgerInv, WorkerKnows, Executing, At, Absent, Idle
<1>9. RowKnows'
  BY <1>2, <1>4, <1>5, <1>6 DEF LedgerInv, RowKnows
<1>10. FirstTime'
  <2>1. ASSUME "failed" \notin history'[a] PROVE FirstExecution(a)'
    BY <2>1, <1>1, <1>2, <1>5 DEF LedgerInv, FirstTime, FirstExecution, Works, Executing, At, Idle
  <2>2. ASSUME NEW b \in Aggregates \ {a}, "failed" \notin history'[b] PROVE FirstExecution(b)'
    BY <2>2, <1>1, <1>2, <1>5 DEF LedgerInv, FirstTime, FirstExecution, Works, Executing, At, Idle
  <2> QED
    BY <2>1, <2>2 DEF FirstTime
<1> QED
  BY <1>2, <1>5, <1>7, <1>8, <1>9, <1>10 DEF LedgerInv, AfterFailure

\* A recorded failure ends what is claimed of the first execution.
LEMMA FailureSteps ==
  ASSUME LedgerInv, NEW w \in Workers, RecordFailure(w)
  PROVE  LedgerInv'
<1>1. PICK a \in Aggregates :
        /\ worker[w].aggregate = a /\ worker[w].pc = "fail" /\ Executing(w)
  BY ExecutingTypes DEF RecordFailure, At, Executing
<1>2. UNCHANGED <<executed, given, crashes>>
  BY DEF RecordFailure
<1>3. /\ record' = [record EXCEPT ![a].status = "failed"]
      /\ history' = [history EXCEPT ![a] = @ \cup {"failed"}]
      /\ worker' = [worker EXCEPT ![w] = Idle]
  BY <1>1 DEF RecordFailure
<1>4. /\ worker'[w] = Idle
      /\ \A v \in Workers \ {w} : worker'[v] = worker[v]
      /\ record'[a].status = "failed" /\ record'[a].payload = record[a].payload
      /\ \A b \in Aggregates \ {a} : record'[b] = record[b] /\ history'[b] = history[b]
      /\ "failed" \in history'[a]
  BY <1>3 DEF LedgerInv, TypeOK
<1>5. TypeOK'
  <2>1. record[a] \in Rows /\ record'[a] = [record[a] EXCEPT !.status = "failed"]
    BY <1>3 DEF LedgerInv, TypeOK
  <2>2. record'[a] \in Rows
    BY <2>1 DEF Rows
  <2>3. record' \in [Aggregates -> Rows]
    BY <1>3, <2>2 DEF LedgerInv, TypeOK
  <2>4. history' \in [Aggregates -> SUBSET {"failed", "lost"}]
    BY <1>3 DEF LedgerInv, TypeOK
  <2>5. worker' \in [Workers -> Requests \cup {Idle}]
    BY <1>3 DEF LedgerInv, TypeOK
  <2> QED
    BY <1>2, <2>3, <2>4, <2>5 DEF LedgerInv, TypeOK
<1>6. WorkerKnows'
  BY <1>1, <1>2, <1>4, ExecutingTypes DEF LedgerInv, WorkerKnows, Executing, At, Absent, Idle
<1>7. ASSUME NEW b \in Aggregates, "failed" \notin history'[b] PROVE FirstExecution(b)'
  BY <1>7, <1>1, <1>2, <1>4 DEF LedgerInv, FirstTime, FirstExecution, Works, Executing, At, Idle
<1> QED
  BY <1>2, <1>4, <1>5, <1>6, <1>7 DEF LedgerInv, RowKnows, AfterFailure, FirstTime

\* A crash loses the execution of one process, and says so.
LEMMA CrashSteps ==
  ASSUME LedgerInv, NEW w \in Workers, Crash(w)
  PROVE  LedgerInv'
<1>1. UNCHANGED <<record, executed, given>>
  BY DEF Crash
<1>2. /\ worker' = [worker EXCEPT ![w] = Idle]
      /\ history' = [a \in Aggregates |->
           IF Works(w, a) THEN history[a] \cup {"lost"} ELSE history[a]]
      /\ crashes < MaxCrashes /\ crashes' = crashes + 1
  BY DEF Crash, Works
<1>3. /\ worker'[w] = Idle
      /\ \A v \in Workers \ {w} : worker'[v] = worker[v]
      /\ \A a \in Aggregates : /\ "failed" \in history'[a] <=> "failed" \in history[a]
                               /\ Works(w, a) \/ "lost" \in history[a] => "lost" \in history'[a]
  BY <1>2 DEF LedgerInv, TypeOK
<1>4. TypeOK'
  BY <1>1, <1>2, LedgerAssumption DEF LedgerInv, TypeOK
<1>5. WorkerKnows'
  BY <1>1, <1>3 DEF LedgerInv, WorkerKnows, Executing, At, Absent, Idle
<1>6. ASSUME NEW a \in Aggregates, "failed" \notin history'[a] PROVE FirstExecution(a)'
  BY <1>6, <1>1, <1>3 DEF LedgerInv, FirstTime, FirstExecution, Works, Executing, At, Idle
<1> QED
  BY <1>1, <1>3, <1>4, <1>5, <1>6 DEF LedgerInv, RowKnows, AfterFailure, FirstTime

\* -- Theorems ---------------------------------------------------------------
\* The invariant of the ledger is inductive.
THEOREM LedgerCorrect == Spec => []LedgerInv
<1>1. LedgerInv /\ [Next]_vars => LedgerInv'
  <2> SUFFICES ASSUME LedgerInv, [Next]_vars PROVE LedgerInv'
    OBVIOUS
  <2>1. CASE Next
    BY <2>1, LookSteps, RetrySteps, ReplaySteps, InsertSteps, SucceedSteps, FailSteps,
       CompleteSteps, FailureSteps, CrashSteps DEF Next
  <2>2. CASE UNCHANGED vars
    BY <2>2 DEF vars, LedgerInv, TypeOK, WorkerKnows, RowKnows, FirstTime, FirstExecution,
                AfterFailure, Works, Executing, At, Absent
  <2> QED
    BY <2>1, <2>2
<1> QED
  BY <1>1, LedgerInit, PTL DEF Spec

\* A command is executed once, by one process at a time, unless it failed before.
THEOREM ExecutionExclusive == Spec => []OnceUnlessFailed
<1>1. LedgerInv => OnceUnlessFailed
  BY DEF LedgerInv, FirstTime, FirstExecution, OnceUnlessFailed, Works
<1> QED
  BY <1>1, LedgerCorrect, PTL

\* The ledger, and what every process and client holds, stay in their ranges.
THEOREM LedgerTypeCorrect == Spec => []TypeOK
<1>1. LedgerInv => TypeOK
  BY DEF LedgerInv
<1> QED
  BY <1>1, LedgerCorrect, PTL

\* Clients that repeat a command get the answer of its execution.
THEOREM AnswersCorrect == Spec => []AnswersAgree
<1>1. ASSUME LedgerInv PROVE AnswersAgree
  <2>1. ASSUME NEW a \in Aggregates, NEW x \in Payloads, NEW r \in given[a][x]
        PROVE  /\ r.payload = x /\ r.nth \in 1..executed[a] /\ executed[a] \in Nat
               /\ r = [payload |-> r.payload, nth |-> r.nth]
    BY <1>1, <2>1, LedgerAssumption DEF LedgerInv, TypeOK, RowKnows, Answers
  <2>2. ASSUME NEW a \in Aggregates, NEW x \in Payloads, "failed" \notin history[a],
               NEW r \in given[a][x], NEW q \in given[a][x]
        PROVE  r = q
    <3>1. executed[a] <= 1
      BY <1>1, <2>2 DEF LedgerInv, FirstTime, FirstExecution
    <3>2. r.nth = 1 /\ q.nth = 1 /\ r.payload = x /\ q.payload = x
      BY <2>1, <3>1
    <3> QED
      BY <2>1, <3>2
  <2> QED
    BY <2>1, <2>2 DEF AnswersAgree
<1> QED
  BY <1>1, LedgerCorrect, PTL

\* Only a crash leaves a row in progress with nobody at work on it.
THEOREM ProgressCorrect == Spec => []InProgressIsServed
<1>1. LedgerInv => InProgressIsServed
  BY DEF LedgerInv, FirstTime, FirstExecution, AfterFailure, InProgressIsServed, Works
<1> QED
  BY <1>1, LedgerCorrect, PTL
====
