---- MODULE A2AExchangeProofs ----
\* Proofs about A2AExchange, for any number of trackers, threads, crashes and
\* cancellations: first about the agent alone, then about both sides.
EXTENDS A2AExchange, FiniteSetTheorems, TLAPS

\* -- types ------------------------------------------------------------------
LockIds == 0..(Cardinality(Threads) + 2)
ThreadPlaces == {"idle", "queued", "acquire", "begin", "start", "handling",
                 "release", "drop", "abort", "abandon", "failing", "done"}
ThreadStates == [pc : ThreadPlaces, key : Keys, lock : LockIds]
Commands == [state : {"none", "in_progress", "completed", "failed"},
             created : BOOLEAN, status : {"absent", "submitted", "canceled"}]

AgentTypes ==
  /\ remote \in [Keys -> RemoteRows]
  /\ ledger \in [Keys -> Commands]
  /\ running \in [Keys -> Threads \cup {"none"}]
  /\ thread \in [Threads -> ThreadStates]
  /\ lock \in [Keys -> LockIds]
  /\ executed \in [Keys -> Nat]
  /\ late \in BOOLEAN
  /\ agentCrashes \in 0..MaxAgentCrashes
  /\ cancels \in 0..MaxCancels

\* -- the agent --------------------------------------------------------------
Open(k) == remote[k].status \notin Terminal
Of(x) == thread[x].key

\* Locks of different rows are different objects, and a thread that may hold one has one.
LocksApart ==
  /\ \A x \in Threads :
       thread[x].pc \in {"acquire", "begin", "start", "handling", "release", "abort"} =>
         thread[x].lock # 0
  /\ \A x, y \in Threads : thread[x].lock # 0 /\ thread[x].lock = thread[y].lock => Of(x) = Of(y)
  /\ \A x \in Threads, k \in Keys : thread[x].lock # 0 /\ lock[k] = thread[x].lock => Of(x) = k
  /\ lock[1] = lock[2] => lock[1] = 0

\* Nobody else has anything to do with the row of x, and the scheduler knows x.
Sole(x) ==
  /\ running[Of(x)] = x
  /\ \A y \in Threads : ~At(y, "idle") /\ Of(y) = Of(x) => y = x

\* While a row is open, or its handler may run, one execution exists.  When the row is
\* terminal a second one may come: it finds nothing to do.
SoleExecution ==
  \A x \in Threads :
    \/ thread[x].pc \in {"start", "handling"}
    \/ ~At(x, "idle") /\ Open(Of(x))
    => Sole(x)

\* What the place of an execution says of its row.
RowsKnown ==
  \A x \in Threads :
    /\ ~At(x, "idle") => remote[Of(x)].status # "absent"
    /\ thread[x].pc \in {"start", "handling"} => remote[Of(x)].status \in {"working", "canceled"}
    /\ thread[x].pc \in {"release", "drop", "done"} => ~Open(Of(x))

\* An execution is scheduled when its submission is on record, not before; a record that
\* says "created" has its row.
Unscheduled ==
  \A k \in Keys :
    /\ ledger[k].created => remote[k].status # "absent"
    /\ ledger[k].state # "completed" =>
         /\ remote[k].status \in {"absent", "submitted", "canceled"}
         /\ \A x \in Threads : Of(x) = k => At(x, "idle")

\* The handler of row k may still be started in this life of the process.
Startable(k) ==
  \/ \E x \in Threads : At(x, "start") /\ Of(x) = k
  \/ /\ Open(k)
     /\ \A x \in Threads : Of(x) = k => thread[x].pc \in {"idle", "queued", "acquire", "begin", "start"}
StartsCounted ==
  \A k \in Keys :
    /\ executed[k] <= 1 + agentCrashes
    /\ Startable(k) => executed[k] <= agentCrashes

AgentInv == AgentTypes /\ LocksApart /\ SoleExecution /\ RowsKnown /\ Unscheduled /\ StartsCounted

\* What threads and cancellations do to the rows: a terminal one stays as it is, none is
\* inserted, and an open one moves along the protocol.
RowsMove ==
  \A k \in Keys :
    /\ remote[k].status \in Terminal \cup {"absent"} => remote'[k] = remote[k]
    /\ remote[k].status = "submitted" =>
         remote'[k].status \in {"submitted", "working", "failed", "canceled"}
    /\ remote[k].status = "working" => remote'[k].status \in {"working"} \cup Terminal

\* -- helpers ----------------------------------------------------------------
\* A thread goes on to another place, perhaps with another lock.
LEMMA ThreadMoves ==
  ASSUME AgentTypes, NEW x \in Threads, NEW p \in ThreadPlaces, NEW l \in LockIds,
         thread' = [thread EXCEPT ![x].pc = p, ![x].lock = l]
  PROVE  /\ thread' \in [Threads -> ThreadStates]
         /\ thread'[x].pc = p /\ thread'[x].lock = l /\ thread'[x].key = thread[x].key
         /\ \A y \in Threads \ {x} : thread'[y] = thread[y]
<1>1. thread[x] \in ThreadStates
  BY DEF AgentTypes
<1>2. [thread[x] EXCEPT !.pc = p, !.lock = l] \in ThreadStates
  BY <1>1 DEF ThreadStates
<1> QED
  BY <1>1, <1>2 DEF AgentTypes, ThreadStates

\* The same without a new lock.
LEMMA ThreadGoes ==
  ASSUME AgentTypes, NEW x \in Threads, NEW p \in ThreadPlaces, Go(x, p)
  PROVE  /\ thread' \in [Threads -> ThreadStates]
         /\ thread'[x].pc = p /\ thread'[x].lock = thread[x].lock /\ thread'[x].key = thread[x].key
         /\ \A y \in Threads \ {x} : thread'[y] = thread[y]
<1>1. thread[x] \in ThreadStates
  BY DEF AgentTypes
<1>2. [thread[x] EXCEPT !.pc = p] \in ThreadStates
  BY <1>1 DEF ThreadStates
<1> QED
  BY <1>1, <1>2 DEF AgentTypes, ThreadStates, Go

\* There is always a lock object that is not in use.
LEMMA FreshLockExists ==
  ASSUME AgentTypes, NEW x \in Threads, NEW k \in Keys, lock[k] = 0
  PROVE  /\ FreshLock \in LockIds \ {0}
         /\ \A y \in Threads : thread[y].lock # FreshLock
         /\ \A j \in Keys : lock[j] # FreshLock
<1> DEFINE f == [y \in Threads |-> thread[y].lock]
<1> DEFINE used == {f[y] : y \in Threads}
<1> DEFINE other == 3 - k
<1> DEFINE ids == 1..(Cardinality(Threads) + 2)
<1>1. Cardinality(Threads) \in Nat
  BY AgentAssumption, FS_CardinalityType
<1>2. f \in Surjection(Threads, used)
  BY DEF Surjection
<1>3. IsFiniteSet(used) /\ Cardinality(used) <= Cardinality(Threads)
  BY <1>2, AgentAssumption, FS_Surjection
<1> HIDE DEF f, used
<1>4. /\ IsFiniteSet(used \cup {lock[other]})
      /\ Cardinality(used \cup {lock[other]}) <= Cardinality(Threads) + 1
      /\ Cardinality(used \cup {lock[other]}) \in Nat
  <2>1. /\ IsFiniteSet(used \cup {lock[other]})
        /\ Cardinality(used \cup {lock[other]}) =
             IF lock[other] \in used THEN Cardinality(used) ELSE Cardinality(used) + 1
    BY <1>3, FS_AddElement
  <2>2. Cardinality(used) \in Nat /\ Cardinality(used \cup {lock[other]}) \in Nat
    BY <1>3, <2>1, FS_CardinalityType
  <2> QED
    BY <1>1, <1>3, <2>1, <2>2
<1>5. IsFiniteSet(ids) /\ Cardinality(ids) = Cardinality(Threads) + 2
  BY <1>1, FS_Interval
<1>6. \E l \in ids : l \notin used \cup {lock[other]}
  <2> SUFFICES ASSUME ids \subseteq used \cup {lock[other]} PROVE FALSE
    OBVIOUS
  <2>1. Cardinality(ids) <= Cardinality(used \cup {lock[other]})
    BY <1>4, FS_Subset
  <2> QED
    BY <1>1, <1>4, <1>5, <2>1
<1>7. PICK l \in ids : l \notin used \cup {lock[other]}
  BY <1>6
<1>8. \A y \in Threads, j \in Keys : thread[y].lock # l /\ lock[j] # l
  <2>1. \A y \in Threads : thread[y].lock # l
    BY <1>7 DEF used, f
  <2>2. l # 0 /\ \A j \in Keys : j = k \/ j = other
    BY <1>1, <1>7 DEF Keys
  <2> QED
    BY <1>7, <2>1, <2>2
<1>9. /\ FreshLock \in ids
      /\ \A y \in Threads, j \in Keys : thread[y].lock # FreshLock /\ lock[j] # FreshLock
  BY <1>7, <1>8 DEF FreshLock
<1>10. ids \subseteq LockIds \ {0}
  BY <1>1 DEF LockIds
<1> QED
  BY <1>9, <1>10

\* Thread x is at place q now, with the same row; the other threads stand still.
Moves(x, q) ==
  /\ thread' \in [Threads -> ThreadStates]
  /\ thread'[x].pc = q /\ thread'[x].key = thread[x].key
  /\ \A y \in Threads \ {x} : thread'[y] = thread[y]

\* An execution that keeps its lock, or gives it up, keeps the locks apart.
LEMMA LocksStay ==
  ASSUME AgentInv, NEW x \in Threads, NEW q \in ThreadPlaces, Moves(x, q), lock' = lock,
         thread'[x].lock \in {thread[x].lock, 0},
         q \in {"acquire", "begin", "start", "handling", "release", "abort"} => thread'[x].lock # 0
  PROVE  LocksApart'
  BY DEF AgentInv, LocksApart, Moves, Of

\* The conditions under which a step of thread x, which goes on to place q and touches no
\* row but its own, keeps the invariant of the agent.
LEMMA ThreadKeepsInv ==
  ASSUME AgentInv, NEW x \in Threads, NEW q \in ThreadPlaces \ {"idle"}, Moves(x, q),
         ~At(x, "idle"), UNCHANGED <<ledger, running, executed, late, agentCrashes, cancels>>,
         lock' \in [Keys -> LockIds], LocksApart',
         remote' \in [Keys -> RemoteRows],
         \A k \in Keys \ {Of(x)} : remote'[k] = remote[k],
         remote'[Of(x)].status # "absent", ~Open(Of(x)) => ~Open(Of(x))',
         q \in {"start", "handling"} =>
           /\ remote'[Of(x)].status \in {"working", "canceled"}
           /\ Open(Of(x)) \/ thread[x].pc \in {"start", "handling"},
         q \in {"release", "drop", "done"} => ~Open(Of(x))',
         q = "start" => At(x, "begin") /\ Open(Of(x)),
         q \in {"queued", "acquire", "begin"} => thread[x].pc \in {"queued", "acquire", "begin"}
  PROVE  AgentInv'
<1>1. /\ Of(x) \in Keys /\ Of(x)' = Of(x)
      /\ \A y \in Threads \ {x} : Of(y)' = Of(y) /\ thread'[y].pc = thread[y].pc
      /\ \A k \in Keys : Open(k)' => Open(k)
  BY DEF AgentInv, AgentTypes, ThreadStates, Moves, Of, Open
<1>2. AgentTypes'
  BY DEF AgentInv, AgentTypes, Moves
<1>3. SoleExecution'
  <2> SUFFICES ASSUME NEW y \in Threads,
                      \/ thread'[y].pc \in {"start", "handling"}
                      \/ ~At(y, "idle")' /\ Open(Of(y))'
               PROVE  Sole(y)'
    BY DEF SoleExecution
  <2>1. Sole(y)
    <3>1. CASE y = x
      BY <1>1, <3>1 DEF AgentInv, SoleExecution, Moves
    <3>2. CASE y # x
      BY <1>1, <3>2 DEF AgentInv, AgentTypes, ThreadStates, SoleExecution, At, Of, Open
    <3> QED
      BY <3>1, <3>2
  <2> QED
    BY <1>1, <2>1 DEF Sole, At, Moves
<1>4. RowsKnown'
  <2> SUFFICES ASSUME NEW y \in Threads, y # x
               PROVE  /\ ~At(y, "idle")' => remote'[Of(y)].status # "absent"
                      /\ thread'[y].pc \in {"start", "handling"} =>
                           remote'[Of(y)].status \in {"working", "canceled"}
                      /\ thread'[y].pc \in {"release", "drop", "done"} => ~Open(Of(y))'
    BY <1>1 DEF RowsKnown, At, Moves
  <2>1. Of(y) \in Keys
    BY DEF AgentInv, AgentTypes, ThreadStates, Of
  <2>2. CASE Of(y) # Of(x)
    BY <1>1, <2>1, <2>2 DEF AgentInv, RowsKnown, At, Open
  <2>3. CASE Of(y) = Of(x)
    <3>1. thread[y].pc \notin {"start", "handling"}
      BY <2>3 DEF AgentInv, SoleExecution, Sole
    <3> QED
      BY <1>1, <2>3, <3>1 DEF AgentInv, RowsKnown, At
  <2> QED
    BY <2>2, <2>3
<1>5. Unscheduled'
  <2>1. ledger[Of(x)].state = "completed"
    BY <1>1 DEF AgentInv, Unscheduled
  <2> QED
    BY <1>1, <2>1 DEF AgentInv, Unscheduled, At
<1>6. StartsCounted'
  <2> SUFFICES ASSUME NEW k \in Keys, Startable(k)'
               PROVE  Startable(k)
    BY DEF AgentInv, StartsCounted
  <2>1. CASE q = "start" /\ k = Of(x)
    <3>1. Sole(x)
      BY <2>1 DEF AgentInv, SoleExecution
    <3> QED
      BY <2>1, <3>1 DEF Startable, Sole, At, Of
  <2>2. CASE q # "start" \/ k # Of(x)
    <3>1. CASE \E y \in Threads : At(y, "start")' /\ Of(y)' = k
      BY <1>1, <2>2, <3>1 DEF Startable, At, Moves
    <3>2. CASE /\ Open(k)'
               /\ \A y \in Threads : Of(y)' = k =>
                    thread'[y].pc \in {"idle", "queued", "acquire", "begin", "start"}
      BY <1>1, <2>2, <3>2 DEF Startable, Moves
    <3> QED
      BY <3>1, <3>2 DEF Startable
  <2> QED
    BY <2>1, <2>2
<1> QED
  BY <1>2, <1>3, <1>4, <1>5, <1>6 DEF AgentInv

\* -- the threads ------------------------------------------------------------
\* What every step of a thread needs to know of where it starts.
LEMMA ThreadFacts ==
  ASSUME AgentInv, NEW x \in Threads, ~At(x, "idle")
  PROVE  /\ Of(x) \in Keys /\ thread[x].lock \in LockIds /\ 0 \in LockIds
         /\ remote[Of(x)] \in RemoteRows /\ remote[Of(x)].status # "absent"
<1>1. 0 \in LockIds
  BY AgentAssumption, FS_CardinalityType DEF LockIds
<1> QED
  BY <1>1 DEF AgentInv, AgentTypes, ThreadStates, RowsKnown, Of

\* The lock object of a row is found, or a new one stored.
LEMMA LookUpLockInv ==
  ASSUME AgentInv, NEW x \in Threads, LookUpLock(x)
  PROVE  AgentInv' /\ RowsMove
<1> DEFINE l == IF lock[Of(x)] = 0 THEN FreshLock ELSE lock[Of(x)]
<1>1. /\ At(x, "queued") /\ ~At(x, "idle")
      /\ lock' = [lock EXCEPT ![Of(x)] = l]
      /\ thread' = [thread EXCEPT ![x].pc = "acquire", ![x].lock = l]
      /\ UNCHANGED <<remote, ledger, running, executed, late, agentCrashes, cancels>>
  BY DEF LookUpLock, Of, At
<1>2. Of(x) \in Keys /\ remote[Of(x)].status # "absent"
  BY <1>1, ThreadFacts
<1>3. /\ l \in LockIds \ {0}
      /\ lock[Of(x)] = 0 => /\ \A y \in Threads : thread[y].lock # l
                            /\ \A j \in Keys : lock[j] # l
  BY <1>2, FreshLockExists DEF AgentInv, AgentTypes
<1>4. lock[Of(x)] # 0 => l = lock[Of(x)]
  OBVIOUS
<1> HIDE DEF l
<1>5. Moves(x, "acquire") /\ thread'[x].lock = l
  BY <1>1, <1>3, ThreadMoves DEF AgentInv, ThreadPlaces, Moves
<1>6. lock' \in [Keys -> LockIds] /\ lock'[Of(x)] = l /\ \A k \in Keys \ {Of(x)} : lock'[k] = lock[k]
  BY <1>1, <1>2, <1>3 DEF AgentInv, AgentTypes
<1>7. /\ \A y \in Threads : Of(y)' = Of(y)
      /\ \A y \in Threads \ {x} : thread'[y] = thread[y]
  BY <1>5 DEF Moves, Of
<1>8. \A y \in Threads : y # x /\ thread[y].lock = l => Of(y) = Of(x)
  BY <1>2, <1>3, <1>4 DEF AgentInv, LocksApart
<1>9. \A k \in Keys : lock[k] = l => k = Of(x)
  BY <1>2, <1>3, <1>4 DEF AgentInv, LocksApart, Keys
<1>10. LocksApart'
  <2>1. \A y \in Threads :
          thread'[y].pc \in {"acquire", "begin", "start", "handling", "release", "abort"} =>
            thread'[y].lock # 0
    BY <1>3, <1>5, <1>7 DEF AgentInv, LocksApart
  <2>2. \A y, z \in Threads :
          thread'[y].lock # 0 /\ thread'[y].lock = thread'[z].lock => Of(y)' = Of(z)'
    BY <1>5, <1>7, <1>8 DEF AgentInv, LocksApart
  <2>3. \A y \in Threads, k \in Keys :
          thread'[y].lock # 0 /\ lock'[k] = thread'[y].lock => Of(y)' = k
    BY <1>5, <1>6, <1>7, <1>8, <1>9 DEF AgentInv, LocksApart
  <2>4. lock'[1] = lock'[2] => lock'[1] = 0
    BY <1>2, <1>3, <1>6, <1>9 DEF AgentInv, LocksApart, Keys
  <2> QED
    BY <2>1, <2>2, <2>3, <2>4 DEF LocksApart
<1>11. AgentInv'
  <2>1. remote' \in [Keys -> RemoteRows] /\ "acquire" \in ThreadPlaces \ {"idle"}
    BY <1>1 DEF AgentInv, AgentTypes, ThreadPlaces
  <2>2. ~Open(Of(x)) => ~Open(Of(x))'
    BY <1>1, <1>7 DEF Open
  <2> QED
    BY <1>1, <1>2, <1>5, <1>6, <1>10, <2>1, <2>2, ThreadKeepsInv DEF At
<1>12. RowsMove
  BY <1>1 DEF RowsMove
<1> QED
  BY <1>11, <1>12

\* A thread finds the lock free, or held by another execution of the same row; then the
\* row is terminal, or both would be the one that exists.
LEMMA AcquireLockInv ==
  ASSUME AgentInv, NEW x \in Threads, AcquireLock(x)
  PROVE  AgentInv' /\ RowsMove
<1>1. /\ At(x, "acquire") /\ ~At(x, "idle")
      /\ UNCHANGED <<remote, ledger, running, lock, executed, late, agentCrashes, cancels>>
  BY DEF AcquireLock, At
<1>2. /\ Of(x) \in Keys /\ remote[Of(x)].status # "absent"
      /\ thread[x].lock \in LockIds /\ 0 \in LockIds
  BY <1>1, ThreadFacts
<1>3. remote' \in [Keys -> RemoteRows] /\ lock' \in [Keys -> LockIds]
  BY <1>1 DEF AgentInv, AgentTypes
<1>4. CASE \E y \in Threads \ {x} : thread[y].pc \in Holding /\ thread[y].lock = thread[x].lock
  <2>1. thread' = [thread EXCEPT ![x].pc = "done", ![x].lock = 0]
    BY <1>4 DEF AcquireLock
  <2>2. Moves(x, "done") /\ thread'[x].lock = 0 /\ "done" \in ThreadPlaces \ {"idle"}
    BY <1>2, <2>1, ThreadMoves DEF AgentInv, ThreadPlaces, Moves
  <2>3. LocksApart'
    BY <1>1, <2>2, LocksStay
  <2>4. ~Open(Of(x))
    <3>1. PICK y \in Threads \ {x} : thread[y].pc \in Holding /\ thread[y].lock = thread[x].lock
      BY <1>4
    <3>2. Of(y) = Of(x) /\ ~At(y, "idle")
      BY <1>1, <3>1 DEF AgentInv, LocksApart, At, Holding
    <3> QED
      BY <1>1, <3>1, <3>2 DEF AgentInv, SoleExecution, Sole
  <2>5. ~Open(Of(x))'
    BY <1>1, <2>2, <2>4 DEF Open, Of, Moves
  <2> QED
    BY <1>1, <1>2, <1>3, <2>2, <2>3, <2>5, ThreadKeepsInv DEF RowsMove
<1>5. CASE ~\E y \in Threads \ {x} : thread[y].pc \in Holding /\ thread[y].lock = thread[x].lock
  <2>1. Go(x, "begin") /\ "begin" \in ThreadPlaces \ {"idle"}
    BY <1>5 DEF AcquireLock, ThreadPlaces
  <2>2. Moves(x, "begin") /\ thread'[x].lock = thread[x].lock
    BY <2>1, ThreadGoes DEF AgentInv, Moves
  <2>3. LocksApart'
    BY <1>1, <2>1, <2>2, LocksStay DEF AgentInv, LocksApart, At
  <2>4. ~Open(Of(x)) => ~Open(Of(x))'
    BY <1>1, <2>2 DEF Open, Of, Moves
  <2> QED
    BY <1>1, <1>2, <1>3, <2>1, <2>2, <2>3, <2>4, ThreadKeepsInv DEF RowsMove, At
<1> QED
  BY <1>4, <1>5

\* What a step that keeps or frees its lock, and moves its row legally, amounts to.
LEMMA GoKeepsInv ==
  ASSUME AgentInv, NEW x \in Threads, NEW q \in ThreadPlaces \ {"idle"}, ~At(x, "idle"),
         \/ Go(x, q) /\ (thread[x].lock = 0 => q \in {"done", "failing"})
         \/ /\ thread' = [thread EXCEPT ![x].pc = q, ![x].lock = 0]
            /\ q \in {"drop", "abandon"},
         UNCHANGED <<ledger, running, lock, executed, late, agentCrashes, cancels>>,
         NEW r \in RemoteRows, remote' = [remote EXCEPT ![Of(x)] = r], r.status # "absent",
         ~Open(Of(x)) => r = remote[Of(x)],
         \/ r = remote[Of(x)]
         \/ r.status \in {"working", "failed"}
         \/ r.status = "completed" /\ remote[Of(x)].status = "working",
         q \in {"start", "handling"} =>
           /\ r.status \in {"working", "canceled"}
           /\ Open(Of(x)) \/ thread[x].pc \in {"start", "handling"},
         q \in {"release", "drop", "done"} => r.status \in Terminal,
         q = "start" => At(x, "begin") /\ Open(Of(x)),
         q \notin {"queued", "acquire", "begin"}
  PROVE  AgentInv' /\ RowsMove
<1>1. /\ Of(x) \in Keys /\ remote[Of(x)].status # "absent"
      /\ thread[x].lock \in LockIds /\ 0 \in LockIds
  BY ThreadFacts
<1>2. Moves(x, q) /\ thread'[x].lock \in {thread[x].lock, 0}
  BY <1>1, ThreadGoes, ThreadMoves DEF AgentInv, Moves
<1>3. q \in {"start", "handling", "release", "abort"} => thread'[x].lock # 0
  BY ThreadGoes DEF AgentInv
<1>4. LocksApart'
  BY <1>2, <1>3, LocksStay
<1>5. /\ remote' \in [Keys -> RemoteRows] /\ remote'[Of(x)] = r
      /\ \A k \in Keys \ {Of(x)} : remote'[k] = remote[k]
      /\ lock' \in [Keys -> LockIds]
  BY <1>1 DEF AgentInv, AgentTypes
<1>6. Of(x)' = Of(x)
  BY <1>2 DEF Moves, Of
<1>7. Open(Of(x))' <=> r.status \notin Terminal
  BY <1>5, <1>6 DEF Open
<1>8. ~Open(Of(x)) => ~Open(Of(x))'
  BY <1>7 DEF Open
<1>9. AgentInv'
  BY <1>2, <1>4, <1>5, <1>7, <1>8, ThreadKeepsInv
<1>10. RowsMove
  BY <1>1, <1>5 DEF RowsMove, Open, Terminal
<1> QED
  BY <1>9, <1>10

\* The end of an execution: its row is terminal, or becomes so.
LEMMA ReleaseKeepsInv ==
  ASSUME AgentInv, NEW x \in Threads, ~At(x, "idle"), thread[x].lock # 0, Go(x, "release"),
         UNCHANGED <<ledger, running, lock, executed, late, agentCrashes, cancels>>,
         NEW r \in RemoteRows, remote' = [remote EXCEPT ![Of(x)] = r], r.status \in Terminal,
         ~Open(Of(x)) => r = remote[Of(x)],
         \/ r = remote[Of(x)] \/ r.status = "failed"
         \/ r.status = "completed" /\ remote[Of(x)].status = "working"
  PROVE  AgentInv' /\ RowsMove
<1> DEFINE q == "release"
<1>1. /\ q \in ThreadPlaces \ {"idle"} /\ q \notin {"start", "handling"}
      /\ q \notin {"queued", "acquire", "begin"} /\ Go(x, q)
  BY DEF ThreadPlaces
<1>2. r.status # "absent"
  BY DEF Terminal
<1> HIDE DEF q
<1> QED
  BY <1>1, <1>2, GoKeepsInv

\* A terminal row sends its execution home; an open one is taken up.
LEMMA BeginInv ==
  ASSUME AgentInv, NEW x \in Threads, Begin(x)
  PROVE  AgentInv' /\ RowsMove
<1>1. /\ At(x, "begin") /\ ~At(x, "idle") /\ thread[x].lock # 0
      /\ UNCHANGED <<ledger, running, lock, executed, late, agentCrashes, cancels>>
  BY DEF Begin, At, AgentInv, LocksApart
<1>2. /\ Of(x) \in Keys /\ remote[Of(x)] \in RemoteRows /\ remote[Of(x)].status # "absent"
  BY <1>1, ThreadFacts
<1>3. CASE ~Open(Of(x))
  <2>1. Go(x, "release") /\ remote' = remote
    BY <1>3 DEF Begin, Open, Of
  <2>2. remote' = [remote EXCEPT ![Of(x)] = remote[Of(x)]]
    BY <1>2, <2>1 DEF AgentInv, AgentTypes
  <2>3. remote[Of(x)].status \in Terminal
    BY <1>3 DEF Open
  <2> QED
    BY <1>1, <1>2, <2>1, <2>2, <2>3, ReleaseKeepsInv
<1>4. CASE Open(Of(x))
  <2> DEFINE r == [remote[Of(x)] EXCEPT !.status = "working"]
  <2>1. Go(x, "start") /\ remote' = [remote EXCEPT ![Of(x)] = r]
    BY <1>2, <1>4 DEF Begin, Open, Of, AgentInv, AgentTypes
  <2>2. r \in RemoteRows /\ r.status = "working"
    BY <1>2 DEF RemoteRows
  <2>3. "start" \in ThreadPlaces \ {"idle"}
    BY DEF ThreadPlaces
  <2> HIDE DEF r
  <2> QED
    BY <1>1, <1>2, <1>4, <2>1, <2>2, <2>3, GoKeepsInv
<1> QED
  BY <1>3, <1>4

\* What _fail makes of a row.
LEMMA RemoteFailsRow ==
  ASSUME AgentInv, NEW k \in Keys, NEW code \in HandlerErrors \cup {"TASK_TIMEOUT"},
         RemoteFails(k, code)
  PROVE  \E r \in RemoteRows :
           /\ remote' = [remote EXCEPT ![k] = r]
           /\ r.status \in Terminal
           /\ ~Open(k) => r = remote[k]
           /\ r = remote[k] \/ r.status = "failed"
<1>1. CASE ~Open(k)
  BY <1>1 DEF RemoteFails, Open, AgentInv, AgentTypes
<1>2. CASE Open(k)
  <2> DEFINE r == [status |-> "failed", error |-> code]
  <2>1. r \in RemoteRows /\ r.status \in Terminal /\ r.status = "failed"
    BY DEF RemoteRows, Terminal
  <2>2. remote' = [remote EXCEPT ![k] = r]
    BY <1>2 DEF RemoteFails, Open
  <2> HIDE DEF r
  <2> QED
    BY <1>2, <2>1, <2>2
<1> QED
  BY <1>1, <1>2

\* The handler starts: nobody else can be about to, so the start is the first one of
\* this life.  Or it is too late, and the row fails.
LEMMA StartInv ==
  ASSUME AgentInv, NEW x \in Threads, Start(x)
  PROVE  AgentInv' /\ RowsMove
<1>1. /\ At(x, "start") /\ ~At(x, "idle") /\ thread[x].lock # 0
      /\ UNCHANGED <<ledger, running, lock, late, agentCrashes, cancels>>
  BY DEF Start, At, AgentInv, LocksApart
<1>2. /\ Of(x) \in Keys /\ remote[Of(x)] \in RemoteRows /\ remote[Of(x)].status # "absent"
  BY <1>1, ThreadFacts
<1>3. CASE /\ RemoteFails(Of(x), "TASK_TIMEOUT") /\ Go(x, "release")
           /\ executed' = executed
  <2>1. PICK r \in RemoteRows :
          /\ remote' = [remote EXCEPT ![Of(x)] = r]
          /\ r.status \in Terminal
          /\ ~Open(Of(x)) => r = remote[Of(x)]
          /\ r = remote[Of(x)] \/ r.status = "failed"
    BY <1>2, <1>3, RemoteFailsRow
  <2>2. UNCHANGED <<ledger, running, lock, executed, late, agentCrashes, cancels>>
    BY <1>1, <1>3
  <2> QED
    BY <1>1, <1>3, <2>1, <2>2, ReleaseKeepsInv
<1>4. CASE /\ Go(x, "handling") /\ executed' = [executed EXCEPT ![Of(x)] = @ + 1]
           /\ remote' = remote
  <2>1. "handling" \in ThreadPlaces
    BY DEF ThreadPlaces
  <2>2. /\ thread' \in [Threads -> ThreadStates]
        /\ thread'[x].pc = "handling" /\ thread'[x].lock = thread[x].lock
        /\ \A y \in Threads : Of(y)' = Of(y)
        /\ \A y \in Threads \ {x} : thread'[y] = thread[y]
    BY <1>4, <2>1, ThreadGoes DEF AgentInv, Of
  <2>3. Sole(x)
    BY <1>1 DEF AgentInv, SoleExecution, At
  <2>4. executed[Of(x)] <= agentCrashes
    BY <1>1, <1>2 DEF AgentInv, StartsCounted, Startable
  <2>5. /\ executed[Of(x)] \in Nat /\ agentCrashes \in Nat
        /\ executed' \in [Keys -> Nat] /\ executed'[Of(x)] = executed[Of(x)] + 1
        /\ \A k \in Keys \ {Of(x)} : executed'[k] = executed[k]
    BY <1>2, <1>4, AgentAssumption DEF AgentInv, AgentTypes
  <2>6. AgentTypes'
    BY <1>1, <1>4, <2>2, <2>5 DEF AgentInv, AgentTypes
  <2>7. LocksApart'
    <3>1. Moves(x, "handling")
      BY <2>2 DEF Moves, Of
    <3> QED
      BY <1>1, <2>1, <2>2, <3>1, LocksStay
  <2>8. SoleExecution' /\ RowsKnown' /\ Unscheduled'
    BY <1>1, <1>4, <2>2, <2>3
    DEF AgentInv, SoleExecution, Sole, RowsKnown, Unscheduled, Open, At
  <2>9. StartsCounted'
    <3> SUFFICES ASSUME NEW k \in Keys
                 PROVE  /\ executed'[k] <= 1 + agentCrashes
                        /\ Startable(k)' => executed'[k] <= agentCrashes
      BY <1>1 DEF StartsCounted
    <3>1. CASE k = Of(x)
      <4>1. ~Startable(k)'
        BY <2>2, <2>3, <3>1 DEF Startable, Sole, At
      <4> QED
        BY <2>4, <2>5, <3>1, <4>1
    <3>2. CASE k # Of(x)
      <4>1. Startable(k)' => Startable(k)
        BY <1>4, <2>2, <3>2 DEF Startable, At, Open
      <4> QED
        BY <2>5, <3>2, <4>1 DEF AgentInv, StartsCounted
    <3> QED
      BY <3>1, <3>2
  <2> QED
    BY <1>4, <2>6, <2>7, <2>8, <2>9 DEF AgentInv, RowsMove
<1> QED
  BY <1>3, <1>4 DEF Start, Of

\* The handler ends: the row is completed if it is still at work, or fails, or is left.
LEMMA FinishInv ==
  ASSUME AgentInv, NEW x \in Threads, Finish(x)
  PROVE  AgentInv' /\ RowsMove
<1>1. /\ At(x, "handling") /\ ~At(x, "idle") /\ thread[x].lock # 0
      /\ UNCHANGED <<ledger, running, lock, executed, late, agentCrashes, cancels>>
  BY DEF Finish, At, AgentInv, LocksApart
<1>2. /\ Of(x) \in Keys /\ remote[Of(x)] \in RemoteRows /\ remote[Of(x)].status # "absent"
      /\ remote[Of(x)].status \in {"working", "canceled"}
  BY <1>1, ThreadFacts DEF AgentInv, RowsKnown, At
<1>3. "abort" \in ThreadPlaces \ {"idle"}
  BY DEF ThreadPlaces
<1>4. remote = [remote EXCEPT ![Of(x)] = remote[Of(x)]]
  BY <1>2 DEF AgentInv, AgentTypes
<1>5. CASE /\ Go(x, "release")
           /\ remote' = IF remote[Of(x)].status = "working"
                          THEN [remote EXCEPT ![Of(x)].status = "completed"] ELSE remote
  <2> DEFINE r == IF remote[Of(x)].status = "working"
                    THEN [remote[Of(x)] EXCEPT !.status = "completed"] ELSE remote[Of(x)]
  <2>1. remote' = [remote EXCEPT ![Of(x)] = r]
    BY <1>2, <1>4, <1>5 DEF AgentInv, AgentTypes
  <2>2. r \in RemoteRows /\ r.status \in Terminal /\ r.status # "absent"
    BY <1>2 DEF RemoteRows, Terminal
  <2>3. /\ ~Open(Of(x)) => r = remote[Of(x)]
        /\ \/ r = remote[Of(x)]
           \/ r.status = "completed" /\ remote[Of(x)].status = "working"
    BY <1>2 DEF Open, Terminal, RemoteRows
  <2> HIDE DEF r
  <2> QED
    BY <1>1, <1>5, <2>1, <2>2, <2>3, ReleaseKeepsInv
<1>6. CASE Go(x, "release") /\ \E code \in HandlerErrors : RemoteFails(Of(x), code)
  <2>1. PICK code \in HandlerErrors \cup {"TASK_TIMEOUT"} : RemoteFails(Of(x), code)
    BY <1>6
  <2>2. PICK r \in RemoteRows :
          /\ remote' = [remote EXCEPT ![Of(x)] = r]
          /\ r.status \in Terminal
          /\ ~Open(Of(x)) => r = remote[Of(x)]
          /\ r = remote[Of(x)] \/ r.status = "failed"
    BY <1>2, <2>1, RemoteFailsRow
  <2> QED
    BY <1>1, <1>6, <2>2, ReleaseKeepsInv
<1>7. CASE Go(x, "abort") /\ remote' = remote
  BY <1>1, <1>2, <1>3, <1>4, <1>7, GoKeepsInv
<1> QED
  BY <1>5, <1>6, <1>7 DEF Finish, Of

\* The lock is released; it stays in the table for now.
LEMMA ReleaseLockInv ==
  ASSUME AgentInv, NEW x \in Threads, ReleaseLock(x)
  PROVE  AgentInv' /\ RowsMove
<1> DEFINE q == IF thread[x].pc = "release" THEN "drop" ELSE "abandon"
<1>1. /\ thread[x].pc \in {"release", "abort"} /\ ~At(x, "idle")
      /\ thread' = [thread EXCEPT ![x].pc = q, ![x].lock = 0]
      /\ UNCHANGED <<remote, ledger, running, lock, executed, late, agentCrashes, cancels>>
  BY DEF ReleaseLock, At, AgentInv, AgentTypes
<1>2. /\ Of(x) \in Keys /\ remote[Of(x)] \in RemoteRows /\ remote[Of(x)].status # "absent"
  BY <1>1, ThreadFacts
<1>3. remote' = [remote EXCEPT ![Of(x)] = remote[Of(x)]]
  BY <1>1, <1>2 DEF AgentInv, AgentTypes
<1>4. q \in ThreadPlaces \ {"idle"} /\ q \in {"drop", "abandon"}
  BY DEF ThreadPlaces
<1>5. q = "drop" => remote[Of(x)].status \in Terminal
  BY DEF AgentInv, RowsKnown, Open
<1> HIDE DEF q
<1> QED
  BY <1>1, <1>2, <1>3, <1>4, <1>5, GoKeepsInv

\* Its entry in the table is removed; an aborted execution is still to be recorded.
LEMMA DropLockInv ==
  ASSUME AgentInv, NEW x \in Threads, DropLock(x)
  PROVE  AgentInv' /\ RowsMove
<1> DEFINE q == IF At(x, "drop") THEN "done" ELSE "failing"
<1>1. /\ thread[x].pc \in {"drop", "abandon"} /\ ~At(x, "idle")
      /\ Go(x, q) /\ lock' = [lock EXCEPT ![Of(x)] = 0]
      /\ UNCHANGED <<remote, ledger, running, executed, late, agentCrashes, cancels>>
  BY DEF DropLock, At, Of
<1>2. /\ Of(x) \in Keys /\ remote[Of(x)] \in RemoteRows /\ remote[Of(x)].status # "absent"
      /\ 0 \in LockIds
  BY <1>1, ThreadFacts
<1>3. q \in ThreadPlaces \ {"idle"} /\ q \in {"done", "failing"}
  BY DEF ThreadPlaces
<1>4. q = "done" => ~Open(Of(x))
  BY DEF AgentInv, RowsKnown, At
<1> HIDE DEF q
<1>5. Moves(x, q) /\ thread'[x].lock = thread[x].lock /\ Of(x)' = Of(x)
  BY <1>1, <1>3, ThreadGoes DEF AgentInv, Moves, Of
<1>6. /\ lock' \in [Keys -> LockIds] /\ lock'[Of(x)] = 0
      /\ \A k \in Keys \ {Of(x)} : lock'[k] = lock[k]
  BY <1>1, <1>2 DEF AgentInv, AgentTypes
<1>7. LocksApart'
  <2>1. /\ \A y \in Threads : Of(y)' = Of(y) /\ thread'[y].lock = thread[y].lock
        /\ \A y \in Threads \ {x} : thread'[y] = thread[y]
    BY <1>5 DEF Moves, Of
  <2>2. lock'[1] = lock'[2] => lock'[1] = 0
    BY <1>2, <1>6 DEF AgentInv, LocksApart, Keys
  <2>3. \A y \in Threads, k \in Keys :
          thread'[y].lock # 0 /\ lock'[k] = thread'[y].lock => Of(y)' = k
    BY <1>6, <2>1 DEF AgentInv, LocksApart
  <2> QED
    BY <1>3, <1>5, <2>1, <2>2, <2>3 DEF AgentInv, LocksApart, Moves
<1>8. remote' \in [Keys -> RemoteRows] /\ (~Open(Of(x)) => ~Open(Of(x))')
  BY <1>1, <1>5 DEF AgentInv, AgentTypes, Open
<1> QED
  BY <1>1, <1>2, <1>3, <1>4, <1>5, <1>6, <1>7, <1>8, ThreadKeepsInv DEF RowsMove

\* The row of an execution that broke fails, if it is still open.
LEMMA MarkFailedInv ==
  ASSUME AgentInv, NEW x \in Threads, MarkFailed(x)
  PROVE  AgentInv' /\ RowsMove
<1>1. /\ At(x, "failing") /\ ~At(x, "idle") /\ Go(x, "done")
      /\ RemoteFails(Of(x), "INTERNAL_ERROR")
      /\ UNCHANGED <<ledger, running, lock, executed, late, agentCrashes, cancels>>
  BY DEF MarkFailed, At, Of
<1>2. Of(x) \in Keys /\ "done" \in ThreadPlaces \ {"idle"} /\ "INTERNAL_ERROR" \in HandlerErrors
  BY <1>1, ThreadFacts DEF ThreadPlaces, HandlerErrors
<1>3. PICK r \in RemoteRows :
        /\ remote' = [remote EXCEPT ![Of(x)] = r]
        /\ r.status \in Terminal
        /\ ~Open(Of(x)) => r = remote[Of(x)]
        /\ r = remote[Of(x)] \/ r.status = "failed"
  BY <1>1, <1>2, RemoteFailsRow
<1>4. r.status # "absent"
  BY <1>3 DEF Terminal
<1> QED
  BY <1>1, <1>2, <1>3, <1>4, GoKeepsInv

\* The callback of an execution that is done removes the entry of its row; no execution
\* that matters has one there.
LEMMA DoneCallbackInv ==
  ASSUME AgentInv, NEW x \in Threads, DoneCallback(x)
  PROVE  AgentInv' /\ RowsMove
<1>1. /\ At(x, "done") /\ ~At(x, "idle")
      /\ running' = [running EXCEPT ![Of(x)] = "none"]
      /\ thread' = [thread EXCEPT ![x] = IdleThread]
      /\ UNCHANGED <<remote, ledger, lock, executed, late, agentCrashes, cancels>>
  BY DEF DoneCallback, At, Of
<1>2. Of(x) \in Keys /\ 0 \in LockIds /\ ~Open(Of(x))
  BY <1>1, ThreadFacts DEF AgentInv, RowsKnown, At
<1>3. IdleThread \in ThreadStates /\ IdleThread.pc = "idle" /\ IdleThread.lock = 0
  BY <1>2 DEF IdleThread, ThreadStates, ThreadPlaces, Keys
<1>4. /\ thread' \in [Threads -> ThreadStates] /\ thread'[x] = IdleThread
      /\ \A y \in Threads \ {x} : thread'[y] = thread[y]
      /\ running' \in [Keys -> Threads \cup {"none"}]
      /\ \A k \in Keys \ {Of(x)} : running'[k] = running[k]
  BY <1>1, <1>2, <1>3 DEF AgentInv, AgentTypes
<1>5. AgentTypes'
  BY <1>1, <1>4 DEF AgentInv, AgentTypes
<1>6. LocksApart'
  BY <1>1, <1>3, <1>4 DEF AgentInv, LocksApart, Of
<1>7. SoleExecution'
  <2> SUFFICES ASSUME NEW y \in Threads,
                      \/ thread'[y].pc \in {"start", "handling"}
                      \/ ~At(y, "idle")' /\ Open(Of(y))'
               PROVE  Sole(y)'
    BY DEF SoleExecution
  <2>1. y # x
    BY <1>3, <1>4 DEF At
  <2>2. Sole(y)
    BY <1>1, <1>4, <2>1 DEF AgentInv, SoleExecution, At, Of, Open
  <2>3. Of(y) # Of(x)
    BY <1>1, <2>1, <2>2 DEF Sole
  <2>4. Of(y) \in Keys
    BY DEF AgentInv, AgentTypes, ThreadStates, Of
  <2> QED
    BY <1>3, <1>4, <2>1, <2>2, <2>3, <2>4 DEF Sole, At, Of
<1>8. RowsKnown' /\ Unscheduled'
  BY <1>1, <1>3, <1>4 DEF AgentInv, RowsKnown, Unscheduled, At, Of, Open
<1>9. StartsCounted'
  <2> SUFFICES ASSUME NEW k \in Keys, Startable(k)'
               PROVE  Startable(k)
    BY <1>1 DEF AgentInv, StartsCounted
  <2>1. CASE \E y \in Threads : At(y, "start")' /\ Of(y)' = k
    BY <1>3, <1>4, <2>1 DEF Startable, At, Of
  <2>2. CASE /\ Open(k)'
             /\ \A y \in Threads : Of(y)' = k =>
                  thread'[y].pc \in {"idle", "queued", "acquire", "begin", "start"}
    BY <1>1, <1>2, <1>4, <2>2 DEF Startable, Open, Of
  <2> QED
    BY <2>1, <2>2 DEF Startable
<1> QED
  BY <1>1, <1>5, <1>6, <1>7, <1>8, <1>9 DEF AgentInv, RowsMove

\* -- submissions, restarts, cancellations -----------------------------------
\* A submission of key k may insert its row, and changes no other.
RowsInsert(k) ==
  /\ \A j \in Keys : j # k \/ remote[j].status # "absent" => remote'[j] = remote[j]
  /\ remote[k].status = "absent" => remote'[k].status \in {"absent", "submitted"}

\* What a submission makes of the row and the command record of its key.
Submitting(k) ==
  /\ remote' \in [Keys -> RemoteRows]
  /\ RowsInsert(k)
  /\ ledger' \in [Keys -> Commands]
  /\ ledger'[k].created => remote'[k].status # "absent"
  /\ ledger[k].state = "completed" => ledger'[k].state = "completed"
  /\ \A j \in Keys \ {k} : ledger'[j] = ledger[j]

\* The cases in which no execution is scheduled.
LEMMA SubmitQuietly ==
  ASSUME AgentInv, NEW k \in Keys, Submitting(k),
         UNCHANGED <<running, thread, lock, executed, late, agentCrashes, cancels>>
  PROVE  AgentInv'
<1>1. \A j \in Keys : Open(j)' => Open(j)
  BY DEF Submitting, RowsInsert, Open, Terminal
<1>2. \A x \in Threads : Of(x) \in Keys /\ Of(x)' = Of(x)
  BY DEF AgentInv, AgentTypes, ThreadStates, Of
<1>3. \A x \in Threads : ~At(x, "idle") => remote'[Of(x)] = remote[Of(x)]
  BY <1>2 DEF Submitting, RowsInsert, AgentInv, RowsKnown
<1>4. AgentTypes' /\ LocksApart'
  BY DEF AgentInv, AgentTypes, LocksApart, Submitting, Of
<1>5. SoleExecution'
  BY <1>1, <1>2 DEF AgentInv, SoleExecution, Sole, At
<1>6. RowsKnown'
  BY <1>2, <1>3 DEF AgentInv, RowsKnown, At, Open
<1>7. Unscheduled'
  BY <1>2 DEF AgentInv, Unscheduled, Submitting, RowsInsert, At
<1>8. StartsCounted'
  BY <1>1, <1>2 DEF AgentInv, StartsCounted, Startable, At
<1> QED
  BY <1>4, <1>5, <1>6, <1>7, <1>8 DEF AgentInv

\* The cases in which one is, unless the scheduler knows one that is not done.
LEMMA SubmitAndSchedule ==
  ASSUME AgentInv, NEW k \in Keys, Submitting(k), Schedule(k),
         remote'[k].status # "absent", ledger'[k].state = "completed",
         UNCHANGED <<lock, executed, late, agentCrashes, cancels>>
  PROVE  AgentInv'
<1>1. CASE running[k] # "none" /\ ~At(running[k], "done")
  BY <1>1, SubmitQuietly DEF Schedule
<1>2. CASE ~(running[k] # "none" /\ ~At(running[k], "done"))
  <2>1. PICK x \in Threads :
          /\ At(x, "idle")
          /\ thread' = [thread EXCEPT ![x] = [pc |-> "queued", key |-> k, lock |-> 0]]
          /\ running' = [running EXCEPT ![k] = x]
    BY <1>2 DEF Schedule
  <2>2. [pc |-> "queued", key |-> k, lock |-> 0] \in ThreadStates
    BY AgentAssumption, FS_CardinalityType DEF ThreadStates, ThreadPlaces, LockIds
  <2>3. /\ thread' \in [Threads -> ThreadStates]
        /\ thread'[x].pc = "queued" /\ thread'[x].key = k /\ thread'[x].lock = 0
        /\ \A y \in Threads \ {x} : thread'[y] = thread[y]
        /\ running' \in [Keys -> Threads \cup {"none"}] /\ running'[k] = x
        /\ \A j \in Keys \ {k} : running'[j] = running[j]
    BY <2>1, <2>2 DEF AgentInv, AgentTypes
  <2>4. /\ \A j \in Keys : Open(j)' => Open(j)
        /\ \A y \in Threads : Of(y) \in Keys
        /\ \A y \in Threads : ~At(y, "idle") => remote'[Of(y)] = remote[Of(y)]
    BY DEF Submitting, RowsInsert, Open, Terminal, AgentInv, AgentTypes, ThreadStates, Of, RowsKnown
  <2>5. \A y \in Threads : ~At(y, "idle") /\ Of(y) = k =>
          ~Open(k) /\ thread[y].pc \notin {"start", "handling"}
    <3> SUFFICES ASSUME NEW y \in Threads, ~At(y, "idle"), Of(y) = k,
                        Open(k) \/ thread[y].pc \in {"start", "handling"}
                 PROVE  FALSE
      OBVIOUS
    <3>1. running[k] = y
      BY DEF AgentInv, SoleExecution, Sole
    <3>2. At(y, "done")
      BY <1>2, <3>1, AgentAssumption
    <3> QED
      BY <3>2 DEF AgentInv, RowsKnown, At
  <2>6. AgentTypes' /\ LocksApart'
    BY <2>3 DEF AgentInv, AgentTypes, LocksApart, Submitting, Of
  <2>7. SoleExecution'
    <3> SUFFICES ASSUME NEW y \in Threads,
                        \/ thread'[y].pc \in {"start", "handling"}
                        \/ ~At(y, "idle")' /\ Open(Of(y))'
                 PROVE  Sole(y)'
      BY DEF SoleExecution
    <3>1. CASE y = x
      <4>1. Open(k)
        BY <2>3, <2>4, <3>1 DEF At, Of
      <4> QED
        BY <2>3, <2>5, <3>1, <4>1 DEF Sole, At, Of
    <3>2. CASE y # x
      <4>1. Sole(y) /\ ~At(y, "idle")
        BY <2>3, <2>4, <3>2 DEF AgentInv, SoleExecution, At, Of
      <4>2. Of(y) # k
        BY <2>3, <2>4, <2>5, <3>2, <4>1 DEF At, Of
      <4> QED
        BY <2>3, <2>4, <3>2, <4>1, <4>2 DEF Sole, At, Of
    <3> QED
      BY <3>1, <3>2
  <2>8. RowsKnown'
    <3> SUFFICES ASSUME NEW y \in Threads, y # x
                 PROVE  /\ ~At(y, "idle")' => remote'[Of(y)'].status # "absent"
                        /\ thread'[y].pc \in {"start", "handling"} =>
                             remote'[Of(y)'].status \in {"working", "canceled"}
                        /\ thread'[y].pc \in {"release", "drop", "done"} => ~Open(Of(y))'
      BY <2>3 DEF RowsKnown, At, Of
    <3> QED
      BY <2>3, <2>4 DEF AgentInv, RowsKnown, At, Of, Open
  <2>9. Unscheduled'
    BY <2>3 DEF AgentInv, Unscheduled, Submitting, RowsInsert, At, Of
  <2>10. StartsCounted'
    <3> SUFFICES ASSUME NEW j \in Keys, Startable(j)'
                 PROVE  Startable(j)
      BY DEF AgentInv, StartsCounted
    <3> QED
      BY <2>1, <2>3, <2>4 DEF Startable, At, Of
  <2> QED
    BY <2>6, <2>7, <2>8, <2>9, <2>10 DEF AgentInv
<1> QED
  BY <1>1, <1>2

\* The row that a submission finds or inserts, and the record it completes.
LEMMA SubmittedRow ==
  ASSUME AgentInv, NEW k \in Keys
  PROVE  /\ Inserted(k) \in RemoteRows
         /\ remote[k].status # "absent" => Inserted(k) = remote[k]
         /\ Inserted(k).status \in {remote[k].status, "submitted"}
         /\ remote[k] = NoRemote => Inserted(k).status = "submitted"
         /\ Unanswered(k) => Completed(k) \in Commands
         /\ Completed(k).state = "completed"
         /\ Completed(k).created => Inserted(k).status # "absent"
<1>1. remote[k] \in RemoteRows
  BY DEF AgentInv, AgentTypes
<1>2. NoRemote \in RemoteRows /\ NoRemote.status = "absent" /\ NoRemote.error = "none"
  BY DEF NoRemote, RemoteRows
<1>3. /\ [NoRemote EXCEPT !.status = "submitted"] \in RemoteRows
      /\ [NoRemote EXCEPT !.status = "submitted"].status = "submitted"
  BY DEF NoRemote, RemoteRows
<1>4. /\ Inserted(k) \in RemoteRows
      /\ remote[k].status # "absent" => Inserted(k) = remote[k]
      /\ Inserted(k).status \in {remote[k].status, "submitted"}
      /\ remote[k] = NoRemote => Inserted(k).status = "submitted"
  BY <1>1, <1>2, <1>3 DEF Inserted
<1>5. Unanswered(k) => remote[k].status \in {"absent", "submitted", "canceled"}
  BY DEF AgentInv, Unscheduled, Unanswered
<1>6. Unanswered(k) => Completed(k) \in Commands
  BY <1>4, <1>5 DEF Completed, Commands
<1>7. Completed(k).state = "completed" /\ (Completed(k).created => remote[k] = NoRemote)
  BY DEF Completed
<1> QED
  BY <1>4, <1>6, <1>7

\* A submission is handled.
LEMMA SubmitInv ==
  ASSUME AgentInv, NEW k \in Keys, NEW answer, SubmitHandled(k, answer),
         UNCHANGED <<lock, executed, late, agentCrashes, cancels>>
  PROVE  AgentInv' /\ RowsInsert(k)
<1>1. CASE /\ ledger[k].state = "completed"
           /\ IF ledger[k].created THEN Schedule(k) ELSE UNCHANGED <<running, thread>>
           /\ UNCHANGED <<remote, ledger>>
  <2>1. Submitting(k) /\ RowsInsert(k)
    BY <1>1 DEF Submitting, RowsInsert, AgentInv, AgentTypes, Unscheduled
  <2>2. ledger[k].created => remote'[k].status # "absent" /\ ledger'[k].state = "completed"
    BY <1>1 DEF AgentInv, Unscheduled
  <2> QED
    BY <1>1, <2>1, <2>2, SubmitQuietly, SubmitAndSchedule
<1>2. CASE /\ Unanswered(k)
           /\ remote' = [remote EXCEPT ![k] = Inserted(k)]
           /\ ledger' = [ledger EXCEPT ![k] = Completed(k)]
           /\ IF Completed(k).created THEN Schedule(k) ELSE UNCHANGED <<running, thread>>
  <2>1. /\ remote' \in [Keys -> RemoteRows] /\ remote'[k] = Inserted(k)
        /\ \A j \in Keys \ {k} : remote'[j] = remote[j]
        /\ ledger' \in [Keys -> Commands] /\ ledger'[k] = Completed(k)
        /\ \A j \in Keys \ {k} : ledger'[j] = ledger[j]
    BY <1>2, SubmittedRow DEF AgentInv, AgentTypes
  <2>2. RowsInsert(k)
    BY <2>1, SubmittedRow DEF RowsInsert
  <2>3. Submitting(k)
    BY <2>1, <2>2, SubmittedRow DEF Submitting
  <2>4. Completed(k).created => remote'[k].status # "absent" /\ ledger'[k].state = "completed"
    BY <2>1, SubmittedRow
  <2> QED
    BY <1>2, <2>2, <2>3, <2>4, SubmitQuietly, SubmitAndSchedule
<1>3. CASE Unanswered(k) /\ ledger' = [ledger EXCEPT ![k].state = "failed"]
           /\ UNCHANGED <<remote, running, thread>>
  <2>1. /\ ledger' \in [Keys -> Commands] /\ ledger'[k].created = ledger[k].created
        /\ ledger[k].state # "completed"
        /\ \A j \in Keys \ {k} : ledger'[j] = ledger[j]
    BY <1>3 DEF AgentInv, AgentTypes, Commands, Unanswered
  <2>2. Submitting(k) /\ RowsInsert(k)
    BY <1>3, <2>1 DEF Submitting, RowsInsert, AgentInv, AgentTypes, Unscheduled
  <2> QED
    BY <1>3, <2>2, SubmitQuietly
<1>4. CASE UNCHANGED <<remote, ledger, running, thread>>
  <2>1. Submitting(k) /\ RowsInsert(k)
    BY <1>4 DEF Submitting, RowsInsert, AgentInv, AgentTypes, Unscheduled
  <2> QED
    BY <1>4, <2>1, SubmitQuietly
<1> QED
  BY <1>1, <1>2, <1>3, <1>4 DEF SubmitHandled

\* A restart forgets all executions; a row that was started may be started once more.
LEMMA RestartInv ==
  ASSUME AgentInv, NEW k \in Keys, Submitting(k), Restart
  PROVE  AgentInv'
<1>1. /\ agentCrashes \in 0..MaxAgentCrashes /\ agentCrashes < MaxAgentCrashes
      /\ agentCrashes' = agentCrashes + 1
      /\ running' = [j \in Keys |-> "none"] /\ thread' = [x \in Threads |-> IdleThread]
      /\ lock' = [j \in Keys |-> 0] /\ UNCHANGED <<executed, late, cancels>>
  BY DEF Restart, AgentInv, AgentTypes
<1>2. IdleThread \in ThreadStates /\ IdleThread.pc = "idle" /\ IdleThread.lock = 0 /\ 0 \in LockIds
  BY AgentAssumption, FS_CardinalityType DEF IdleThread, ThreadStates, ThreadPlaces, Keys, LockIds
<1>3. \A x \in Threads : thread'[x] = IdleThread
  BY <1>1
<1>4. agentCrashes' \in 0..MaxAgentCrashes
  BY <1>1, AgentAssumption
<1>5. AgentTypes'
  BY <1>1, <1>2, <1>4 DEF AgentInv, AgentTypes, Submitting
<1>6. LocksApart' /\ SoleExecution' /\ RowsKnown'
  BY <1>1, <1>2, <1>3 DEF LocksApart, SoleExecution, RowsKnown, At, Keys
<1>7. Unscheduled'
  BY <1>2, <1>3 DEF AgentInv, Unscheduled, Submitting, RowsInsert, At
<1>8. StartsCounted'
  <2> SUFFICES ASSUME NEW j \in Keys
               PROVE  executed[j] <= agentCrashes' /\ executed[j] <= 1 + agentCrashes'
    BY <1>1 DEF StartsCounted
  <2>1. executed[j] <= 1 + agentCrashes /\ executed[j] \in Nat
    BY DEF AgentInv, StartsCounted, AgentTypes
  <2> QED
    BY <1>1, <2>1
<1> QED
  BY <1>5, <1>6, <1>7, <1>8 DEF AgentInv

\* The agent dies in the handler of a submission.
LEMMA SubmitCrashesInv ==
  ASSUME AgentInv, NEW k \in Keys, SubmitCrashes(k)
  PROVE  AgentInv' /\ RowsInsert(k)
<1>1. Restart /\ Unanswered(k)
  BY DEF SubmitCrashes
<1>2. /\ remote' \in {remote, [remote EXCEPT ![k] = Inserted(k)]}
      /\ \/ ledger' = ledger
         \/ ledger' = [ledger EXCEPT ![k].state = "in_progress"]
         \/ ledger' = [ledger EXCEPT ![k] = Completed(k)] /\ remote' = [remote EXCEPT ![k] = Inserted(k)]
  BY DEF SubmitCrashes
<1>3. /\ remote' \in [Keys -> RemoteRows] /\ remote'[k] \in {remote[k], Inserted(k)}
      /\ \A j \in Keys \ {k} : remote'[j] = remote[j]
  BY <1>2, SubmittedRow DEF AgentInv, AgentTypes
<1>4. /\ ledger' \in [Keys -> Commands]
      /\ \A j \in Keys \ {k} : ledger'[j] = ledger[j]
      /\ ledger'[k].created => ledger[k].created \/ (Completed(k).created /\ remote'[k] = Inserted(k))
  <2>1. ledger \in [Keys -> Commands] /\ ledger[k] \in Commands
    BY DEF AgentInv, AgentTypes
  <2>2. CASE ledger' = ledger
    BY <2>1, <2>2
  <2>3. CASE ledger' = [ledger EXCEPT ![k].state = "in_progress"]
    <3>1. /\ [ledger[k] EXCEPT !.state = "in_progress"] \in Commands
          /\ [ledger[k] EXCEPT !.state = "in_progress"].created = ledger[k].created
      BY <2>1 DEF Commands
    <3> QED
      BY <2>1, <2>3, <3>1
  <2>4. CASE ledger' = [ledger EXCEPT ![k] = Completed(k)] /\ remote' = [remote EXCEPT ![k] = Inserted(k)]
    <3>1. Completed(k) \in Commands /\ remote'[k] = Inserted(k)
      BY <1>1, <2>4, SubmittedRow DEF AgentInv, AgentTypes
    <3> QED
      BY <2>1, <2>4, <3>1
  <2> QED
    BY <1>2, <2>2, <2>3, <2>4
<1>5. RowsInsert(k)
  BY <1>3, SubmittedRow DEF RowsInsert
<1>6. ledger'[k].created => remote'[k].status # "absent"
  BY <1>3, <1>4, SubmittedRow DEF AgentInv, Unscheduled
<1>7. Submitting(k)
  BY <1>1, <1>3, <1>4, <1>5, <1>6, SubmittedRow DEF Submitting, Unanswered
<1> QED
  BY <1>1, <1>5, <1>7, RestartInv

\* The agent dies elsewhere.
LEMMA AgentCrashInv ==
  ASSUME AgentInv, AgentCrash
  PROVE  AgentInv' /\ RowsMove
<1>1. Restart /\ UNCHANGED <<remote, ledger>> /\ 1 \in Keys
  BY DEF AgentCrash, Keys
<1>2. Submitting(1)
  BY <1>1 DEF Submitting, RowsInsert, AgentInv, AgentTypes, Unscheduled
<1>3. RowsMove
  BY <1>1 DEF RowsMove
<1> QED
  BY <1>1, <1>2, <1>3, RestartInv

\* An open row is canceled; its execution goes on, and stays the only one.
LEMMA CancelInv ==
  ASSUME AgentInv, NEW k \in Keys, Cancel(k)
  PROVE  AgentInv' /\ RowsMove
<1> DEFINE r == [remote[k] EXCEPT !.status = "canceled"]
<1>1. /\ remote[k].status \in {"submitted", "working"}
      /\ cancels < MaxCancels /\ cancels' = cancels + 1
      /\ remote' = [remote EXCEPT ![k] = r]
      /\ UNCHANGED <<ledger, running, thread, lock, executed, late, agentCrashes>>
  BY DEF Cancel, AgentInv, AgentTypes
<1>2. r \in RemoteRows /\ r.status = "canceled"
  BY DEF AgentInv, AgentTypes, RemoteRows, Terminal
<1> HIDE DEF r
<1>3. /\ remote' \in [Keys -> RemoteRows] /\ remote'[k].status = "canceled"
      /\ \A j \in Keys \ {k} : remote'[j] = remote[j]
  BY <1>1, <1>2 DEF AgentInv, AgentTypes
<1>4. cancels' \in 0..MaxCancels
  BY <1>1, AgentAssumption DEF AgentInv, AgentTypes
<1>5. AgentTypes' /\ LocksApart'
  BY <1>1, <1>3, <1>4 DEF AgentInv, AgentTypes, LocksApart, Of
<1>6. /\ \A j \in Keys : Open(j)' => Open(j)
      /\ \A x \in Threads : Of(x) \in Keys /\ Of(x)' = Of(x)
  BY <1>1, <1>3 DEF Open, Terminal, AgentInv, AgentTypes, ThreadStates, Of
<1>7. SoleExecution'
  BY <1>1, <1>6 DEF AgentInv, SoleExecution, Sole, At
<1>8. RowsKnown'
  <2> SUFFICES ASSUME NEW x \in Threads
               PROVE  /\ ~At(x, "idle") => remote'[Of(x)].status # "absent"
                      /\ thread[x].pc \in {"start", "handling"} =>
                           remote'[Of(x)].status \in {"working", "canceled"}
                      /\ thread[x].pc \in {"release", "drop", "done"} => ~Open(Of(x))'
    BY <1>1, <1>6 DEF RowsKnown, At
  <2>1. CASE Of(x) = k
    BY <1>3, <1>6, <2>1 DEF Open, Terminal
  <2>2. CASE Of(x) # k
    BY <1>3, <1>6, <2>2 DEF AgentInv, RowsKnown, At, Open
  <2> QED
    BY <2>1, <2>2
<1>9. Unscheduled'
  BY <1>1, <1>3, <1>6 DEF AgentInv, Unscheduled, At
<1>10. StartsCounted'
  BY <1>1, <1>6 DEF AgentInv, StartsCounted, Startable, At
<1>11. RowsMove
  BY <1>1, <1>3 DEF RowsMove, Terminal
<1> QED
  BY <1>5, <1>7, <1>8, <1>9, <1>10, <1>11 DEF AgentInv

\* Whatever the agent does by itself; the deadline, too, may pass.
LEMMA AgentMovesInv ==
  ASSUME AgentInv,
         AgentMoves \/ (late' \in BOOLEAN /\ UNCHANGED agentVars)
  PROVE  AgentInv' /\ RowsMove
<1>1. CASE AgentMoves
  BY <1>1, LookUpLockInv, AcquireLockInv, BeginInv, StartInv, FinishInv, ReleaseLockInv,
     DropLockInv, MarkFailedInv, DoneCallbackInv, CancelInv, AgentCrashInv
  DEF AgentMoves, ThreadStep
<1>2. CASE late' \in BOOLEAN /\ UNCHANGED agentVars
  <2>1. UNCHANGED <<remote, ledger, running, thread, lock, executed, agentCrashes, cancels>>
    BY <1>2 DEF agentVars
  <2> QED
    BY <1>2, <2>1
    DEF AgentInv, AgentTypes, LocksApart, SoleExecution, Sole, RowsKnown, Unscheduled,
        StartsCounted, Startable, RowsMove, Open, Of, At
<1> QED
  BY <1>1, <1>2

\* It starts empty.
LEMMA AgentInitInv == AgentInit => AgentInv
<1> SUFFICES ASSUME AgentInit PROVE AgentInv
  OBVIOUS
<1>1. 0 \in LockIds /\ 0 \in 0..MaxAgentCrashes /\ 0 \in 0..MaxCancels
  BY AgentAssumption, FS_CardinalityType DEF LockIds
<1>2. IdleThread \in ThreadStates /\ IdleThread.pc = "idle" /\ IdleThread.lock = 0
  BY <1>1 DEF IdleThread, ThreadStates, ThreadPlaces, Keys
<1>3. NoRemote \in RemoteRows /\ NoRemote.status = "absent"
  BY DEF NoRemote, RemoteRows
<1>4. NoCommand \in Commands /\ NoCommand.created = FALSE /\ NoCommand.state = "none"
  BY DEF NoCommand, Commands
<1>5. AgentTypes
  BY <1>1, <1>2, <1>3, <1>4 DEF AgentInit, AgentTypes
<1>6. LocksApart /\ SoleExecution /\ RowsKnown /\ Unscheduled
  BY <1>2, <1>3, <1>4
  DEF AgentInit, LocksApart, SoleExecution, RowsKnown, Unscheduled, At, Keys
<1>7. StartsCounted
  BY DEF AgentInit, StartsCounted
<1> QED
  BY <1>5, <1>6, <1>7 DEF AgentInv

\* -- both sides -------------------------------------------------------------
LocalRows == [status : {"absent", "submitted", "working"} \cup Terminal,
              attempt : 1..MaxAttempts, remote : 0..2, error : Codes]
TrackerPlaces == Ended \cup {"idle", "call", "record", "execute", "await", "apply", "outcome", "retry"}
TrackerStates ==
  [pc : TrackerPlaces, key : 0..2, next : {"execute", "await"}, created : BOOLEAN,
   retried : BOOLEAN, heard : Terminal \cup {"nothing", "submitted", "working"}, error : Codes]

TrackTypes == local \in LocalRows /\ tracker \in [Trackers -> TrackerStates]

\* What the coordinator knows of the agent, and of its own row.  The second attempt, and
\* whatever names it, exists only since the first has failed.
AttemptsInOrder ==
  /\ RetryReconciled
  /\ CompletedIsRemote
  /\ local.remote = 2 => local.attempt = 2
  /\ \A t \in Trackers : tracker[t].key = 2 => local.attempt = 2
TrackerKnows ==
  \A t \in Trackers :
    /\ Is(t, "call") => tracker[t].key \in Keys
    /\ Is(t, "retry") => /\ remote[1].status = "failed"
                         /\ local.attempt = 1 => local.status = "failed"
    /\ Is(t, "apply") /\ tracker[t].heard = "completed" =>
         tracker[t].key \in Keys /\ remote[tracker[t].key].status = "completed"
AbsentUntouched ==
  local.status = "absent" =>
    /\ local.attempt = 1 /\ local.remote = 0
    /\ \A t \in Trackers : tracker[t].pc \in Ended \cup {"idle"}

TrackInv == TrackTypes /\ AttemptsInOrder /\ TrackerKnows /\ AbsentUntouched
ExchangeInv == AgentInv /\ TrackInv

\* The row of the coordinator moves along the protocol.
LocalMoves == [LocalRow!Next]_<<local.status, local.attempt>>

\* -- helpers ----------------------------------------------------------------
\* Tracker t is at place q now; the others stand still.
Turns(t, q) ==
  /\ tracker' \in [Trackers -> TrackerStates]
  /\ tracker'[t].pc = q
  /\ \A u \in Trackers \ {t} : tracker'[u] = tracker[u]

\* The initial state of a tracker.
LEMMA IdleFacts ==
  /\ Idle \in TrackerStates /\ Idle.key = 0 /\ Idle.heard = "nothing"
  /\ \A q \in TrackerPlaces : [Idle EXCEPT !.pc = q] \in TrackerStates
<1>1. /\ "idle" \in TrackerPlaces /\ "none" \in Codes
      /\ "nothing" \in Terminal \cup {"nothing", "submitted", "working"} /\ 0 \in 0..2
  BY DEF TrackerPlaces, Codes
<1>2. Idle \in TrackerStates /\ Idle.key = 0 /\ Idle.heard = "nothing"
  BY <1>1 DEF Idle, TrackerStates
<1>3. \A q \in TrackerPlaces : [Idle EXCEPT !.pc = q] \in TrackerStates
  BY <1>2 DEF TrackerStates
<1> QED
  BY <1>2, <1>3

\* A run ends.
LEMMA EndTurns ==
  ASSUME TrackTypes, NEW t \in Trackers, NEW how \in Ended, End(t, how)
  PROVE  Turns(t, how) /\ tracker'[t].key = 0 /\ how \in TrackerPlaces
<1>1. /\ [Idle EXCEPT !.pc = how] \in TrackerStates /\ how \in TrackerPlaces
      /\ [Idle EXCEPT !.pc = how].pc = how /\ [Idle EXCEPT !.pc = how].key = 0
  BY IdleFacts DEF Idle, TrackerPlaces
<1> QED
  BY <1>1 DEF TrackTypes, End, Turns

\* It has an outcome.
LEMMA ConcludeTurns ==
  ASSUME TrackTypes, NEW t \in Trackers, NEW status \in Terminal, Conclude(t, status)
  PROVE  Turns(t, "outcome") /\ tracker'[t].key = 0
<1> DEFINE r == [Idle EXCEPT !.pc = "outcome", !.heard = status, !.retried = tracker[t].retried]
<1>1. tracker[t].retried \in BOOLEAN
  BY DEF TrackTypes, TrackerStates
<1>2. r \in TrackerStates /\ r.pc = "outcome" /\ r.key = 0
  <2>1. "outcome" \in TrackerPlaces
    BY DEF TrackerPlaces
  <2> QED
    BY <1>1, <2>1, IdleFacts DEF TrackerStates
<1>3. tracker' = [tracker EXCEPT ![t] = r]
  BY DEF Conclude
<1> HIDE DEF r
<1> QED
  BY <1>2, <1>3 DEF TrackTypes, Turns

\* It follows a row of the agent.
LEMMA FollowTurns ==
  ASSUME TrackTypes, NEW t \in Trackers, NEW q \in {"execute", "await"}, NEW k \in 0..2, Follow(t, q, k)
  PROVE  Turns(t, q) /\ tracker'[t].key = k
<1> DEFINE r == [Idle EXCEPT !.pc = q, !.key = k, !.retried = tracker[t].retried]
<1>1. tracker[t].retried \in BOOLEAN
  BY DEF TrackTypes, TrackerStates
<1>2. r \in TrackerStates /\ r.pc = q /\ r.key = k
  BY <1>1 DEF Idle, TrackerStates, TrackerPlaces, Codes
<1>3. tracker' = [tracker EXCEPT ![t] = r]
  BY DEF Follow
<1> HIDE DEF r
<1> QED
  BY <1>2, <1>3 DEF TrackTypes, Turns

\* It has heard something.
LEMMA HearTurns ==
  ASSUME TrackTypes, NEW t \in Trackers, NEW q \in TrackerPlaces,
         NEW heard \in Terminal \cup {"submitted", "working"}, NEW error \in Codes,
         Hear(t, q, heard, error)
  PROVE  Turns(t, q) /\ tracker'[t].key = tracker[t].key /\ tracker'[t].heard = heard
<1> DEFINE r == [tracker[t] EXCEPT !.pc = q, !.heard = heard, !.error = error]
<1>1. tracker[t] \in TrackerStates
  BY DEF TrackTypes
<1>2. r \in TrackerStates /\ r.pc = q /\ r.key = tracker[t].key /\ r.heard = heard
  BY <1>1 DEF TrackerStates
<1>3. tracker' = [tracker EXCEPT ![t] = r]
  BY <1>1 DEF Hear, TrackTypes
<1> HIDE DEF r
<1> QED
  BY <1>2, <1>3 DEF TrackTypes, Turns

\* It goes on.
LEMMA ToTurns ==
  ASSUME TrackTypes, NEW t \in Trackers, NEW q \in TrackerPlaces,
         \/ To(t, q)
         \/ tracker' = [tracker EXCEPT ![t].pc = q, ![t].retried = TRUE]
  PROVE  Turns(t, q) /\ tracker'[t].key = tracker[t].key /\ tracker'[t].heard = tracker[t].heard
<1>1. tracker[t] \in TrackerStates
  BY DEF TrackTypes
<1>2. CASE To(t, q)
  <2> DEFINE r == [tracker[t] EXCEPT !.pc = q]
  <2>1. r \in TrackerStates /\ r.pc = q /\ r.key = tracker[t].key /\ r.heard = tracker[t].heard
    BY <1>1 DEF TrackerStates
  <2>2. tracker' = [tracker EXCEPT ![t] = r]
    BY <1>1, <1>2 DEF To, TrackTypes
  <2> HIDE DEF r
  <2> QED
    BY <2>1, <2>2 DEF TrackTypes, Turns
<1>3. CASE tracker' = [tracker EXCEPT ![t].pc = q, ![t].retried = TRUE]
  <2> DEFINE r == [tracker[t] EXCEPT !.pc = q, !.retried = TRUE]
  <2>1. r \in TrackerStates /\ r.pc = q /\ r.key = tracker[t].key /\ r.heard = tracker[t].heard
    BY <1>1 DEF TrackerStates
  <2>2. tracker' = [tracker EXCEPT ![t] = r]
    BY <1>1, <1>3 DEF TrackTypes
  <2> HIDE DEF r
  <2> QED
    BY <2>1, <2>2 DEF TrackTypes, Turns
<1> QED
  BY <1>2, <1>3

\* What the tracker side asks of the agent: a terminal row stays, and the second row is
\* inserted only for a second attempt.
RowsKept ==
  /\ \A k \in Keys : remote[k].status \in Terminal => remote'[k] = remote[k]
  /\ remote'[2].status # "absent" => remote[2].status # "absent" \/ local.attempt = 2

\* It does so if no row changes.
LEMMA SameRowsKept == ASSUME remote' = remote PROVE RowsKept
BY DEF RowsKept

\* The conditions under which a step of tracker t keeps the invariant.
LEMMA TrackKeepsInv ==
  ASSUME ExchangeInv, NEW t \in Trackers, NEW q \in TrackerPlaces, Turns(t, q),
         RowsKept, local' \in LocalRows,
         \/ local'.attempt = local.attempt
         \/ local'.attempt = 2 /\ remote[1].status = "failed",
         local'.status = "completed" => remote[local'.attempt].status = "completed",
         local'.remote = 2 => local'.attempt = 2,
         tracker'[t].key = 2 => local'.attempt = 2,
         q = "call" => tracker'[t].key \in Keys,
         q = "retry" => remote[1].status = "failed" /\ local'.status = "failed",
         q = "apply" /\ tracker'[t].heard = "completed" =>
           tracker'[t].key \in Keys /\ remote[tracker'[t].key].status = "completed",
         local.status = "failed" /\ local'.attempt = 1 => local'.status = "failed",
         local'.status = "absent" => local' = local /\ q \in Ended \cup {"idle"}
  PROVE  TrackInv'
<1>1. TrackTypes'
  BY DEF TrackTypes, Turns
<1>2. /\ local'.attempt \in 1..2 /\ local.attempt \in 1..2
      /\ local'.attempt \in Keys /\ 1 \in Keys /\ 2 \in Keys
  BY DEF LocalRows, MaxAttempts, ExchangeInv, TrackInv, TrackTypes, Keys
<1>3. local.attempt = 2 => local'.attempt = 2
  OBVIOUS
<1>4. \A k \in Keys : remote[k].status \in {"completed", "failed"} => remote'[k].status = remote[k].status
  BY DEF RowsKept, Terminal
<1>5. AttemptsInOrder'
  <2>1. RetryReconciled'
    BY <1>2, <1>3, <1>4
    DEF AttemptsInOrder, RetryReconciled, ExchangeInv, TrackInv, RowsKept
  <2>2. CompletedIsRemote'
    BY <1>2, <1>4 DEF CompletedIsRemote
  <2> QED
    BY <1>3, <2>1, <2>2 DEF AttemptsInOrder, ExchangeInv, TrackInv, Turns
<1>6. TrackerKnows'
  <2> SUFFICES ASSUME NEW u \in Trackers
               PROVE  /\ Is(u, "call")' => tracker'[u].key \in Keys
                      /\ Is(u, "retry")' => /\ remote'[1].status = "failed"
                                            /\ local'.attempt = 1 => local'.status = "failed"
                      /\ Is(u, "apply")' /\ tracker'[u].heard = "completed" =>
                           tracker'[u].key \in Keys /\ remote'[tracker'[u].key].status = "completed"
    BY DEF TrackerKnows, Is
  <2>1. CASE u = t
    BY <1>2, <1>4, <2>1 DEF Is, Turns
  <2>2. CASE u # t
    BY <1>2, <1>3, <1>4, <2>2 DEF TrackerKnows, ExchangeInv, TrackInv, Is, Turns
  <2> QED
    BY <2>1, <2>2
<1>7. AbsentUntouched'
  BY DEF AbsentUntouched, ExchangeInv, TrackInv, Turns
<1> QED
  BY <1>1, <1>5, <1>6, <1>7 DEF TrackInv

\* The same if the row of the coordinator stays.
LEMMA TrackOnly ==
  ASSUME ExchangeInv, NEW t \in Trackers, NEW q \in TrackerPlaces, Turns(t, q),
         RowsKept, local' = local,
         tracker'[t].key = 2 => local.attempt = 2,
         q = "call" => tracker'[t].key \in Keys,
         q = "retry" => remote[1].status = "failed" /\ local.status = "failed",
         q = "apply" /\ tracker'[t].heard = "completed" =>
           tracker'[t].key \in Keys /\ remote[tracker'[t].key].status = "completed",
         local.status = "absent" => q \in Ended \cup {"idle"}
  PROVE  TrackInv' /\ LocalMoves
<1>1. TrackInv'
  <2>1. /\ local' \in LocalRows /\ local'.attempt = local.attempt
        /\ local'.status = "completed" => remote[local'.attempt].status = "completed"
        /\ local'.remote = 2 => local'.attempt = 2
    BY DEF ExchangeInv, TrackInv, TrackTypes, AttemptsInOrder, CompletedIsRemote
  <2> QED
    BY <2>1, TrackKeepsInv
<1> QED
  BY <1>1 DEF LocalMoves

\* What the tables of ChildLifecycle say.
LEMMA LocalSteps ==
  ASSUME local \in LocalRows, local' \in LocalRows,
         \/ local'.status = local.status /\ local'.attempt = local.attempt
         \/ /\ local'.attempt = local.attempt
            /\ \/ local.status = "absent" /\ local'.status = "submitted"
               \/ local.status = "submitted" /\ local'.status \in {"working", "failed", "canceled"}
               \/ local.status = "working" /\ local'.status \in {"completed", "failed", "canceled"}
         \/ /\ local.status = "failed" /\ local'.status = "working"
            /\ local.attempt = 1 /\ local'.attempt = 2
  PROVE  LocalMoves
<1>1. CASE local'.status = local.status /\ local'.attempt = local.attempt
  BY <1>1 DEF LocalMoves
<1>2. CASE local.status = "absent" /\ local'.status = "submitted" /\ local'.attempt = local.attempt
  BY <1>2 DEF LocalMoves, LocalRow!Next, LocalRow!Move, LocalRow!ChildTransitions
<1>3. CASE /\ local.status = "submitted" /\ local'.status \in {"working", "failed", "canceled"}
           /\ local'.attempt = local.attempt
  BY <1>3 DEF LocalMoves, LocalRow!Next, LocalRow!Move, LocalRow!ChildTransitions
<1>4. CASE /\ local.status = "working" /\ local'.status \in {"completed", "failed", "canceled"}
           /\ local'.attempt = local.attempt
  BY <1>4 DEF LocalMoves, LocalRow!Next, LocalRow!Move, LocalRow!ChildTransitions
<1>5. CASE /\ local.status = "failed" /\ local'.status = "working"
           /\ local.attempt = 1 /\ local'.attempt = 2
  BY <1>5 DEF LocalMoves, LocalRow!Next, LocalRow!Retry, MaxAttempts
<1> QED
  BY <1>1, <1>2, <1>3, <1>4, <1>5

\* -- the trackers -----------------------------------------------------------
\* What every step of a tracker needs to know of where it starts.
LEMMA TrackFacts ==
  ASSUME ExchangeInv, NEW t \in Trackers
  PROVE  /\ tracker[t] \in TrackerStates /\ local \in LocalRows
         /\ tracker[t].key = 2 => local.attempt = 2
         /\ local.remote = 2 => local.attempt = 2
         /\ local.status = "completed" => remote[local.attempt].status = "completed"
         /\ local.attempt = 2 => remote[1].status = "failed"
         /\ local.attempt \in 1..2
         /\ local.status = "absent" => tracker[t].pc \in Ended \cup {"idle"}
                                       /\ local.attempt = 1 /\ local.remote = 0
         /\ Ended \subseteq TrackerPlaces
BY DEF ExchangeInv, TrackInv, TrackTypes, AttemptsInOrder, RetryReconciled, CompletedIsRemote,
       AbsentUntouched, LocalRows, MaxAttempts, TrackerPlaces, Codes

\* A tracker ends, and leaves the row as it is.
LEMMA TrackEnds ==
  ASSUME ExchangeInv, NEW t \in Trackers, NEW how \in Ended, End(t, how), RowsKept, UNCHANGED local
  PROVE  TrackInv' /\ LocalMoves
<1>1. Turns(t, how) /\ tracker'[t].key = 0 /\ how \in TrackerPlaces
  BY EndTurns DEF ExchangeInv, TrackInv
<1>2. how \notin {"call", "retry", "apply"}
  BY DEF Ended
<1> QED
  BY <1>1, <1>2, TrackOnly

\* A row that becomes failed, unless it is terminal.
LEMMA FailsRow ==
  ASSUME ExchangeInv, local.status # "absent", NEW code \in Codes, Fails(code)
  PROVE  /\ local' \in LocalRows /\ local'.attempt = local.attempt /\ local'.remote = local.remote
         /\ local'.status \in Terminal
         /\ local.status \in Terminal => local' = local
         /\ local.status \notin Terminal => local'.status = "failed"
         /\ LocalMoves
<1>1. local \in LocalRows
  BY DEF ExchangeInv, TrackInv, TrackTypes
<1>2. /\ local' \in LocalRows /\ local'.attempt = local.attempt /\ local'.remote = local.remote
      /\ local'.status \in Terminal
      /\ local.status \in Terminal => local' = local
      /\ local.status \notin Terminal => local'.status = "failed"
  BY <1>1 DEF Fails, LocalRows, Terminal
<1>3. local.status \notin Terminal => local.status \in {"submitted", "working"}
  BY <1>1 DEF LocalRows
<1>4. LocalMoves
  BY <1>1, <1>2, <1>3, LocalSteps
<1> QED
  BY <1>2, <1>4

\* The card of the agent is fetched, and the request made up.
LEMMA NegotiateInv ==
  ASSUME ExchangeInv, NEW t \in Trackers, NEW next \in {"execute", "await"}, Negotiate(t, next),
         UNCHANGED agentVars
  PROVE  TrackInv' /\ LocalMoves
<1>1. RowsKept
  BY SameRowsKept DEF agentVars
<1>2. CASE \/ End(t, "parked") /\ UNCHANGED local
           \/ End(t, "broken") /\ UNCHANGED local
  BY <1>1, <1>2, TrackEnds DEF Ended
<1>3. CASE /\ local' = IF local.status = "absent" THEN [local EXCEPT !.status = "submitted"] ELSE local
           /\ tracker' = [tracker EXCEPT ![t].pc = "call", ![t].next = next, ![t].key = local.attempt,
                                         ![t].created = (local.status = "absent")]
  <2> DEFINE c == local.status = "absent"
             r == [tracker[t] EXCEPT !.pc = "call", !.next = next, !.key = local.attempt, !.created = c]
  <2>1. /\ local' \in LocalRows /\ local'.attempt = local.attempt /\ local'.remote = local.remote
        /\ local'.status # "absent"
        /\ local.status # "absent" => local' = local
        /\ local.status = "absent" => local'.status = "submitted"
    BY <1>3, TrackFacts DEF LocalRows
  <2>2. c \in BOOLEAN /\ local.attempt \in 0..2
    BY TrackFacts
  <2> HIDE DEF c
  <2>3. r \in TrackerStates /\ r.pc = "call" /\ r.key = local.attempt
    <3>1. "call" \in TrackerPlaces
      BY DEF TrackerPlaces
    <3> QED
      BY <2>2, <3>1, TrackFacts DEF TrackerStates
  <2>4. tracker' = [tracker EXCEPT ![t] = r]
    BY <1>3 DEF ExchangeInv, TrackInv, TrackTypes, c
  <2> HIDE DEF r
  <2>5. Turns(t, "call") /\ tracker'[t].key = local.attempt /\ "call" \in TrackerPlaces
    BY <2>3, <2>4 DEF ExchangeInv, TrackInv, TrackTypes, Turns, TrackerPlaces
  <2>6. TrackInv'
    BY <1>1, <2>1, <2>5, TrackFacts, TrackKeepsInv DEF Keys
  <2>7. LocalMoves
    BY <2>1, TrackFacts, LocalSteps
  <2> QED
    BY <2>6, <2>7
<1> QED
  BY <1>2, <1>3 DEF Negotiate

\* A run plans the child.
LEMMA PlanInv ==
  ASSUME ExchangeInv, NEW t \in Trackers, Plan(t)
  PROVE  TrackInv' /\ LocalMoves
<1>1. RowsKept /\ UNCHANGED agentVars
  BY SameRowsKept DEF Plan, agentVars
<1>2. CASE (local.status \in Terminal \/ local.remote # 0) /\ To(t, "execute") /\ UNCHANGED local
  <2>1. "execute" \in TrackerPlaces /\ local.status # "absent"
    BY <1>2, TrackFacts DEF TrackerPlaces, Terminal
  <2>2. Turns(t, "execute") /\ tracker'[t].key = tracker[t].key
    BY <1>2, <2>1, ToTurns DEF ExchangeInv, TrackInv
  <2> QED
    BY <1>1, <1>2, <2>1, <2>2, TrackFacts, TrackOnly
<1>3. CASE Negotiate(t, "execute")
  BY <1>1, <1>3, NegotiateInv
<1> QED
  BY <1>2, <1>3 DEF Plan

\* An answer is recorded.
LEMMA RecordInv ==
  ASSUME ExchangeInv, NEW t \in Trackers, Record(t)
  PROVE  TrackInv' /\ LocalMoves
<1> DEFINE k == tracker[t].key
<1>1. /\ Is(t, "record") /\ local.status # "absent" /\ k \in 0..2 /\ tracker[t].next \in {"execute", "await"}
  BY TrackFacts DEF Record, Is, Ended, TrackerStates
<1>2. RowsKept
  BY SameRowsKept DEF Record, agentVars
<1>3. /\ local' \in LocalRows /\ local'.attempt = local.attempt /\ local'.remote = k
      /\ local'.status = local.status \/ (local.status \notin Terminal /\ local'.status = "canceled")
  BY <1>1, TrackFacts DEF Record, LocalRows, Terminal
<1>4. Turns(t, tracker[t].next) /\ tracker'[t].key = k /\ tracker[t].next \in TrackerPlaces
  BY <1>1, FollowTurns DEF Record, ExchangeInv, TrackInv, TrackerPlaces
<1>5. TrackInv'
  <2>1. local'.status # "absent" /\ (local'.status = "completed" => local.status = "completed")
    BY <1>1, <1>3
  <2>2. local.status = "failed" => local'.status = "failed"
    BY <1>3 DEF Terminal
  <2>3. tracker[t].next \notin {"call", "retry", "apply"}
    BY <1>1
  <2> QED
    BY <1>2, <1>3, <1>4, <2>1, <2>2, <2>3, TrackFacts, TrackKeepsInv
<1>6. LocalMoves
  <2>1. local.status \notin Terminal => local.status \in {"submitted", "working"}
    BY <1>1, TrackFacts DEF LocalRows
  <2> QED
    BY <1>3, <2>1, TrackFacts, LocalSteps
<1> QED
  BY <1>5, <1>6

\* A run goes on to wait, or has its outcome.
LEMMA FollowInv ==
  ASSUME ExchangeInv, NEW t \in Trackers, ~Is(t, "idle"), tracker[t].pc \notin Ended,
         Follow(t, "await", local.remote) \/ \E status \in Terminal : Conclude(t, status),
         UNCHANGED local, RowsKept
  PROVE  TrackInv' /\ LocalMoves
<1>1. local.status # "absent" /\ local.remote \in 0..2
  BY TrackFacts DEF Is, LocalRows
<1>2. CASE Follow(t, "await", local.remote)
  <2>1. Turns(t, "await") /\ tracker'[t].key = local.remote /\ "await" \in TrackerPlaces
    BY <1>1, <1>2, FollowTurns DEF ExchangeInv, TrackInv, TrackerPlaces
  <2> QED
    BY <1>1, <2>1, TrackFacts, TrackOnly
<1>3. CASE \E status \in Terminal : Conclude(t, status)
  <2>1. Turns(t, "outcome") /\ tracker'[t].key = 0 /\ "outcome" \in TrackerPlaces
    BY <1>3, ConcludeTurns DEF ExchangeInv, TrackInv, TrackerPlaces
  <2> QED
    BY <1>1, <2>1, TrackOnly
<1> QED
  BY <1>2, <1>3

\* A run executes the child.
LEMMA ExecuteInv ==
  ASSUME ExchangeInv, NEW t \in Trackers, Execute(t)
  PROVE  TrackInv' /\ LocalMoves
<1>1. RowsKept /\ UNCHANGED agentVars
  BY SameRowsKept DEF Execute, agentVars
<1>2. ~Is(t, "idle") /\ tracker[t].pc \notin Ended
  BY DEF Execute, Is, Ended
<1>3. \/ local.status \in Terminal /\ Conclude(t, local.status) /\ UNCHANGED local
      \/ Negotiate(t, "await")
      \/ Follow(t, "await", local.remote) /\ UNCHANGED local
  BY DEF Execute
<1>4. CASE Negotiate(t, "await")
  BY <1>1, <1>4, NegotiateInv
<1> QED
  BY <1>1, <1>2, <1>3, <1>4, FollowInv

\* A run polls the row of the agent.
LEMMA PollInv ==
  ASSUME ExchangeInv, NEW t \in Trackers, Poll(t)
  PROVE  TrackInv' /\ LocalMoves
<1>1. RowsKept /\ UNCHANGED local /\ local.status # "absent"
  BY SameRowsKept, TrackFacts DEF Poll, agentVars, Is, Ended
<1>2. PICK row \in Seen(tracker[t].key) :
        \/ row.status \in Terminal /\ Hear(t, "apply", row.status, row.error)
        \/ Hear(t, "apply", "working", "none")
        \/ Hear(t, "apply", "failed", "TASK_TIMEOUT")
        \/ Hear(t, "apply", "failed", "TASK_STATUS_UNKNOWN")
  BY DEF Poll
<1>3. \/ row.status = "lost"
      \/ tracker[t].key \in Keys /\ row = remote[tracker[t].key]
  BY TrackFacts DEF Seen, TrackerStates, Keys
<1>4. \A k \in Keys : remote[k].error \in Codes
  BY DEF ExchangeInv, AgentInv, AgentTypes, RemoteRows, Codes
<1>5. PICK heard \in Terminal \cup {"submitted", "working"}, error \in Codes :
        /\ Hear(t, "apply", heard, error)
        /\ heard = "completed" =>
             tracker[t].key \in Keys /\ remote[tracker[t].key].status = "completed"
  <2>1. CASE row.status \in Terminal /\ Hear(t, "apply", row.status, row.error)
    <3>1. tracker[t].key \in Keys /\ row = remote[tracker[t].key]
      BY <1>3, <2>1 DEF Terminal
    <3> QED
      BY <1>4, <2>1, <3>1
  <2>2. CASE Hear(t, "apply", "working", "none")
    BY <2>2 DEF Codes
  <2>3. CASE Hear(t, "apply", "failed", "TASK_TIMEOUT")
    BY <2>3 DEF Codes, Terminal
  <2>4. CASE Hear(t, "apply", "failed", "TASK_STATUS_UNKNOWN")
    BY <2>4 DEF Codes, Terminal
  <2> QED
    BY <1>2, <2>1, <2>2, <2>3, <2>4
<1>6. Turns(t, "apply") /\ tracker'[t].key = tracker[t].key /\ tracker'[t].heard = heard
      /\ "apply" \in TrackerPlaces
  BY <1>5, HearTurns DEF ExchangeInv, TrackInv, TrackerPlaces
<1> QED
  BY <1>1, <1>5, <1>6, TrackFacts, TrackOnly

\* A run that writes the status of the row and has its outcome, or waits on.
LEMMA WriteInv ==
  ASSUME ExchangeInv, NEW t \in Trackers, ~Is(t, "idle"), tracker[t].pc \notin Ended,
         Follow(t, "await", local.remote) \/ \E status \in Terminal : Conclude(t, status),
         RowsKept, local' \in LocalRows, local'.attempt = local.attempt, local'.remote = local.remote,
         local'.status # "absent",
         local'.status = "completed" => remote[local.attempt].status = "completed",
         local.status = "failed" => local'.status = "failed",
         LocalMoves
  PROVE  TrackInv'
<1>1. local.status # "absent" /\ local.remote \in 0..2
  BY TrackFacts DEF Is, LocalRows
<1>2. CASE Follow(t, "await", local.remote)
  <2>1. Turns(t, "await") /\ tracker'[t].key = local.remote /\ "await" \in TrackerPlaces
    BY <1>1, <1>2, FollowTurns DEF ExchangeInv, TrackInv, TrackerPlaces
  <2> QED
    BY <1>1, <2>1, TrackFacts, TrackKeepsInv
<1>3. CASE \E status \in Terminal : Conclude(t, status)
  <2>1. Turns(t, "outcome") /\ tracker'[t].key = 0 /\ "outcome" \in TrackerPlaces
    BY <1>3, ConcludeTurns DEF ExchangeInv, TrackInv, TrackerPlaces
  <2> QED
    BY <1>1, <2>1, TrackFacts, TrackKeepsInv
<1> QED
  BY <1>2, <1>3

\* It has heard that the agent is at work, ...
LEMMA ApplyWorkingInv ==
  ASSUME ExchangeInv, NEW t \in Trackers, ApplyWorking(t)
  PROVE  TrackInv' /\ LocalMoves
<1>1. RowsKept /\ ~Is(t, "idle") /\ tracker[t].pc \notin Ended /\ local.status # "absent"
  BY SameRowsKept, TrackFacts DEF ApplyWorking, agentVars, Is, Ended
<1>2. /\ local' \in LocalRows /\ local'.attempt = local.attempt /\ local'.remote = local.remote
      /\ \/ local.status = "submitted" /\ local'.status = "working"
         \/ local'.status = local.status
  BY TrackFacts DEF ApplyWorking, LocalRows
<1>3. LocalMoves
  BY <1>2, TrackFacts, LocalSteps
<1>4. TrackInv'
  BY <1>1, <1>2, <1>3, TrackFacts, WriteInv DEF ApplyWorking
<1> QED
  BY <1>3, <1>4

\* ... that its row has failed, ...
LEMMA ApplyFailureInv ==
  ASSUME ExchangeInv, NEW t \in Trackers, ApplyFailure(t)
  PROVE  TrackInv' /\ LocalMoves
<1>1. RowsKept /\ ~Is(t, "idle") /\ tracker[t].pc \notin Ended /\ local.status # "absent"
  BY SameRowsKept, TrackFacts DEF ApplyFailure, agentVars, Is, Ended
<1>2. tracker[t].error \in Codes
  BY TrackFacts DEF TrackerStates
<1>3. /\ local' \in LocalRows /\ local'.attempt = local.attempt /\ local'.remote = local.remote
      /\ local'.status \in Terminal
      /\ local.status \in Terminal => local' = local
      /\ local.status \notin Terminal => local'.status = "failed"
      /\ LocalMoves
  BY <1>1, <1>2, FailsRow DEF ApplyFailure
<1>4. /\ local'.status # "absent"
      /\ local'.status = "completed" => local.status = "completed"
      /\ local.status = "failed" => local'.status = "failed"
  BY <1>3 DEF Terminal
<1>5. \E status \in Terminal : Conclude(t, status)
  BY DEF ApplyFailure, Terminal
<1> QED
  BY <1>1, <1>3, <1>4, <1>5, TrackFacts, WriteInv

\* ... or was canceled, ...
LEMMA ApplyCanceledInv ==
  ASSUME ExchangeInv, NEW t \in Trackers, ApplyCanceled(t)
  PROVE  TrackInv' /\ LocalMoves
<1>1. RowsKept /\ ~Is(t, "idle") /\ tracker[t].pc \notin Ended /\ local.status # "absent"
  BY SameRowsKept, TrackFacts DEF ApplyCanceled, agentVars, Is, Ended
<1>2. CASE End(t, "parked") /\ UNCHANGED local
  BY <1>1, <1>2, TrackEnds DEF Ended
<1>3. CASE /\ local.status \in {"submitted", "working", "canceled"}
           /\ local' = [local EXCEPT !.status = "canceled"]
           /\ Conclude(t, "canceled")
  <2>1. /\ local' \in LocalRows /\ local'.attempt = local.attempt /\ local'.remote = local.remote
        /\ local'.status = "canceled"
    BY <1>3, TrackFacts DEF LocalRows, Terminal
  <2>2. LocalMoves
    BY <1>3, <2>1, TrackFacts, LocalSteps
  <2>3. \E status \in Terminal : Conclude(t, status)
    BY <1>3 DEF Terminal
  <2> QED
    BY <1>1, <1>3, <2>1, <2>2, <2>3, WriteInv
<1> QED
  BY <1>2, <1>3 DEF ApplyCanceled

\* ... or is completed.
LEMMA ApplyCompletedInv ==
  ASSUME ExchangeInv, NEW t \in Trackers, ApplyCompleted(t)
  PROVE  TrackInv' /\ LocalMoves
<1>1. RowsKept /\ ~Is(t, "idle") /\ tracker[t].pc \notin Ended /\ local.status # "absent"
  BY SameRowsKept, TrackFacts DEF ApplyCompleted, agentVars, Is, Ended
<1>2. /\ tracker[t].key \in Keys /\ remote[tracker[t].key].status = "completed"
      /\ Is(t, "apply") /\ tracker[t].heard = "completed"
  BY DEF ApplyCompleted, ExchangeInv, TrackInv, TrackerKnows
<1>3. remote[local.attempt].status = "completed"
  BY <1>2, TrackFacts DEF Keys
<1>4. CASE Fails("INTERNAL_ERROR") /\ Conclude(t, "failed")
  <2>1. /\ local' \in LocalRows /\ local'.attempt = local.attempt /\ local'.remote = local.remote
        /\ local'.status \in Terminal
        /\ local.status \in Terminal => local' = local
        /\ LocalMoves
    <3>1. "INTERNAL_ERROR" \in Codes
      BY DEF Codes, HandlerErrors
    <3> QED
      BY <1>1, <1>4, <3>1, FailsRow
  <2>2. local'.status # "absent" /\ (local.status = "failed" => local'.status = "failed")
    BY <2>1 DEF Terminal
  <2>3. \E status \in Terminal : Conclude(t, status)
    BY <1>4 DEF Terminal
  <2> QED
    BY <1>1, <1>3, <2>1, <2>2, <2>3, WriteInv
<1>5. CASE local.status = "submitted" /\ local' = [local EXCEPT !.status = "working"] /\ UNCHANGED tracker
  <2>1. /\ local' \in LocalRows /\ local'.attempt = local.attempt /\ local'.remote = local.remote
        /\ local'.status = "working"
    BY <1>5, TrackFacts DEF LocalRows
  <2>2. LocalMoves
    BY <1>5, <2>1, TrackFacts, LocalSteps
  <2>3. Turns(t, "apply") /\ tracker'[t] = tracker[t] /\ "apply" \in TrackerPlaces
    BY <1>2, <1>5 DEF Turns, Is, ExchangeInv, TrackInv, TrackTypes, TrackerPlaces
  <2>4. TrackInv'
    BY <1>1, <1>2, <1>5, <2>1, <2>3, TrackFacts, TrackKeepsInv
  <2> QED
    BY <2>2, <2>4
<1>6. CASE /\ local.status \in {"working", "completed"}
           /\ local' = [local EXCEPT !.status = "completed"]
           /\ Conclude(t, "completed")
  <2>1. /\ local' \in LocalRows /\ local'.attempt = local.attempt /\ local'.remote = local.remote
        /\ local'.status = "completed"
    BY <1>6, TrackFacts DEF LocalRows, Terminal
  <2>2. LocalMoves
    BY <1>6, <2>1, TrackFacts, LocalSteps
  <2>3. \E status \in Terminal : Conclude(t, status)
    BY <1>6 DEF Terminal
  <2> QED
    BY <1>1, <1>3, <1>6, <2>1, <2>2, <2>3, WriteInv
<1>7. CASE End(t, "parked") /\ UNCHANGED local
  BY <1>1, <1>7, TrackEnds DEF Ended
<1> QED
  BY <1>2, <1>4, <1>5, <1>6, <1>7 DEF ApplyCompleted

\* The agent is asked whether its row has failed.
LEMMA SettleInv ==
  ASSUME ExchangeInv, NEW t \in Trackers, Settle(t)
  PROVE  TrackInv' /\ LocalMoves
<1>1. RowsKept /\ UNCHANGED local /\ local.status # "absent"
  BY SameRowsKept, TrackFacts DEF Settle, agentVars, Is, Ended
<1>2. \/ \E how \in Ended : End(t, how)
      \/ CanRetry /\ \E row \in Seen(local.remote) : row.status = "failed" /\ To(t, "retry")
  BY DEF Settle, Ended
<1>3. CASE \E how \in Ended : End(t, how)
  BY <1>1, <1>3, TrackEnds
<1>4. CASE CanRetry /\ \E row \in Seen(local.remote) : row.status = "failed" /\ To(t, "retry")
  <2>1. PICK row \in Seen(local.remote) : row.status = "failed" /\ To(t, "retry")
    BY <1>4
  <2>2. local.status = "failed" /\ local.attempt = 1 /\ local.remote \in 0..2
    BY <1>4, TrackFacts DEF CanRetry, MaxAttempts, LocalRows
  <2>3. local.remote = 1 /\ remote[1].status = "failed"
    BY <2>1, <2>2, TrackFacts DEF Seen
  <2>4. /\ Turns(t, "retry") /\ tracker'[t].key = tracker[t].key /\ "retry" \in TrackerPlaces
    BY <2>1, ToTurns DEF ExchangeInv, TrackInv, TrackerPlaces
  <2> QED
    BY <1>1, <2>2, <2>3, <2>4, TrackFacts, TrackOnly
<1> QED
  BY <1>2, <1>3, <1>4

\* A failed child is tried again.
LEMMA RetryInv ==
  ASSUME ExchangeInv, NEW t \in Trackers, Retry(t)
  PROVE  TrackInv' /\ LocalMoves
<1>1. RowsKept /\ local.status # "absent" /\ remote[1].status = "failed"
      /\ (local.attempt = 1 => local.status = "failed")
  BY SameRowsKept, TrackFacts
  DEF Retry, agentVars, Is, Ended, ExchangeInv, TrackInv, TrackerKnows
<1>2. CASE /\ local.attempt = 1
           /\ local' = [local EXCEPT !.status = "working", !.attempt = 2, !.error = "none"]
           /\ tracker' = [tracker EXCEPT ![t].pc = "execute", ![t].retried = TRUE]
  <2>1. /\ local' \in LocalRows /\ local'.attempt = 2 /\ local'.remote = local.remote
        /\ local'.status = "working"
    <3>1. local \in LocalRows /\ "none" \in Codes /\ 2 \in 1..MaxAttempts
      BY TrackFacts DEF MaxAttempts, Codes
    <3> QED
      BY <1>2, <3>1 DEF LocalRows
  <2>2. Turns(t, "execute") /\ "execute" \in TrackerPlaces
    BY <1>2, ToTurns DEF ExchangeInv, TrackInv, TrackerPlaces
  <2>3. TrackInv'
    BY <1>1, <2>1, <2>2, TrackKeepsInv
  <2>4. LocalMoves
    BY <1>1, <1>2, <2>1, TrackFacts, LocalSteps
  <2> QED
    BY <2>3, <2>4
<1>3. CASE UNCHANGED local /\ tracker' = [tracker EXCEPT ![t].pc = "execute", ![t].retried = TRUE]
  <2>1. Turns(t, "execute") /\ tracker'[t].key = tracker[t].key /\ "execute" \in TrackerPlaces
    BY <1>3, ToTurns DEF ExchangeInv, TrackInv, TrackerPlaces
  <2> QED
    BY <1>1, <1>3, <2>1, TrackFacts, TrackOnly
<1>4. CASE UNCHANGED local /\ End(t, "parked")
  BY <1>1, <1>4, TrackEnds DEF Ended
<1> QED
  BY <1>2, <1>3, <1>4 DEF Retry

\* The UPDATE of a run that lost a race is refused.
LEMMA LoseRaceInv ==
  ASSUME ExchangeInv, NEW t \in Trackers, LoseRace(t)
  PROVE  TrackInv' /\ LocalMoves
BY SameRowsKept, TrackEnds DEF LoseRace, agentVars, Ended

\* The coordinator dies with its runs.
LEMMA CoordinatorCrashInv ==
  ASSUME ExchangeInv, CoordinatorCrash
  PROVE  TrackInv' /\ LocalMoves
<1> DEFINE c == [Idle EXCEPT !.pc = "crashed"]
<1>1. /\ UNCHANGED <<local, remote>>
      /\ tracker' = [t \in Trackers |-> IF tracker[t].pc \in Ended \cup {"idle"} THEN tracker[t] ELSE c]
  BY DEF CoordinatorCrash, agentVars
<1>2. c \in TrackerStates /\ c.pc = "crashed" /\ c.key = 0
  <2>1. "crashed" \in TrackerPlaces
    BY DEF TrackerPlaces, Ended
  <2> QED
    BY <2>1, IdleFacts DEF Idle
<1> HIDE DEF c
<1>3. TrackTypes'
  BY <1>1, <1>2 DEF ExchangeInv, TrackInv, TrackTypes
<1>4. AttemptsInOrder'
  BY <1>1, <1>2 DEF ExchangeInv, TrackInv, AttemptsInOrder, RetryReconciled, CompletedIsRemote
<1>5. TrackerKnows' /\ AbsentUntouched'
  BY <1>1, <1>2 DEF ExchangeInv, TrackInv, TrackerKnows, AbsentUntouched, Is, Ended
<1> QED
  BY <1>1, <1>3, <1>4, <1>5 DEF TrackInv, LocalMoves

\* -- the wire ---------------------------------------------------------------
\* A submission inserts the second row only for a second attempt.
LEMMA InsertKeepsRows ==
  ASSUME ExchangeInv, NEW t \in Trackers, Is(t, "call"), RowsInsert(tracker[t].key)
  PROVE  RowsKept
<1>1. tracker[t].key \in Keys /\ (tracker[t].key = 2 => local.attempt = 2)
  BY DEF ExchangeInv, TrackInv, TrackerKnows, AttemptsInOrder
<1>2. ASSUME NEW k \in Keys, remote[k].status \in Terminal
      PROVE  remote'[k] = remote[k]
  BY <1>2 DEF RowsInsert, Terminal
<1>3. remote'[2].status # "absent" => remote[2].status # "absent" \/ local.attempt = 2
  BY <1>1 DEF RowsInsert, Keys
<1> QED
  BY <1>2, <1>3 DEF RowsKept

\* A submission is sent, and answered or not.
LEMMA CallInv ==
  ASSUME ExchangeInv, NEW t \in Trackers, Call(t)
  PROVE  /\ AgentInv' /\ TrackInv' /\ LocalMoves
         /\ RowsMove \/ \E k \in Keys : RowsInsert(k)
<1> DEFINE k == tracker[t].key
<1>1. Is(t, "call") /\ late' = late /\ k \in Keys /\ local.status # "absent" /\ AgentInv
  BY TrackFacts DEF Call, ExchangeInv, TrackInv, TrackerKnows, Is, Ended
<1>2. CASE End(t, "broken") /\ UNCHANGED <<local, agentVars>>
  <2>1. AgentInv' /\ RowsMove
    <3>1. late' \in BOOLEAN
      BY <1>1 DEF AgentInv, AgentTypes
    <3> QED
      BY <1>1, <1>2, <3>1, AgentMovesInv
  <2>2. TrackInv' /\ LocalMoves
    <3>1. RowsKept
      BY <1>2, SameRowsKept DEF agentVars
    <3> QED
      BY <1>2, <3>1, TrackEnds DEF Ended
  <2> QED
    BY <2>1, <2>2
<1>3. CASE SubmitCrashes(k) /\ End(t, "broken") /\ UNCHANGED local
  <2>1. AgentInv' /\ RowsInsert(k)
    BY <1>1, <1>3, SubmitCrashesInv
  <2>2. RowsKept
    BY <1>1, <2>1, InsertKeepsRows
  <2> QED
    BY <1>1, <1>3, <2>1, <2>2, TrackEnds DEF Ended
<1>4. ASSUME NEW answer \in {"submitted", "canceled", "refused"}, SubmitHandled(k, answer),
             \/ End(t, "broken") /\ UNCHANGED local
             \/ answer = "refused" /\ Refused(t)
             \/ answer # "refused" /\ Hear(t, "record", answer, "none") /\ UNCHANGED local,
             UNCHANGED <<lock, executed, agentCrashes, cancels>>
      PROVE  AgentInv' /\ RowsInsert(k) /\ TrackInv' /\ LocalMoves
  <2>1. AgentInv' /\ RowsInsert(k)
    BY <1>1, <1>4, SubmitInv
  <2>2. RowsKept
    BY <1>1, <2>1, InsertKeepsRows
  <2>3. CASE \E how \in Ended : End(t, how) /\ UNCHANGED local
    BY <2>1, <2>2, <2>3, TrackEnds
  <2>4. CASE \E code \in HandlerErrors : End(t, "parked") /\ Fails(code)
    <3>1. /\ local' \in LocalRows /\ local'.attempt = local.attempt /\ local'.remote = local.remote
          /\ local'.status \in Terminal
          /\ local.status \in Terminal => local' = local
          /\ local.status \notin Terminal => local'.status = "failed"
          /\ LocalMoves
      <4>1. HandlerErrors \subseteq Codes
        BY DEF Codes
      <4> QED
        BY <1>1, <2>4, <4>1, FailsRow
    <3>2. /\ local'.status # "absent"
          /\ local'.status = "completed" => local.status = "completed"
          /\ local.status = "failed" => local'.status = "failed"
      BY <3>1 DEF Terminal
    <3>3. Turns(t, "parked") /\ tracker'[t].key = 0 /\ "parked" \in TrackerPlaces
      BY <2>4, EndTurns DEF ExchangeInv, TrackInv, Ended
    <3>4. TrackInv'
      BY <2>2, <3>1, <3>2, <3>3, TrackFacts, TrackKeepsInv
    <3> QED
      BY <2>1, <3>1, <3>4
  <2>5. CASE answer # "refused" /\ Hear(t, "record", answer, "none") /\ UNCHANGED local
    <3>1. /\ "record" \in TrackerPlaces /\ "none" \in Codes
          /\ answer \in Terminal \cup {"submitted", "working"}
      BY <2>5 DEF TrackerPlaces, Codes, Terminal
    <3>2. Turns(t, "record") /\ tracker'[t].key = tracker[t].key
      BY <2>5, <3>1, HearTurns DEF ExchangeInv, TrackInv
    <3> QED
      BY <1>1, <2>1, <2>2, <2>5, <3>1, <3>2, TrackFacts, TrackOnly
  <2> QED
    BY <1>4, <2>3, <2>4, <2>5 DEF Refused, Ended
<1> QED
  BY <1>1, <1>2, <1>3, <1>4 DEF Call

\* A row of the agent moves along the protocol.
LEMMA RowSteps ==
  ASSUME AgentInv, AgentInv', RowsMove \/ \E k \in Keys : RowsInsert(k)
  PROVE  [FirstRow!Next]_(FirstRow!lifecycleVars) /\ [SecondRow!Next]_(SecondRow!lifecycleVars)
<1>1. ASSUME NEW k \in Keys
      PROVE  \/ remote'[k].status = remote[k].status
             \/ remote[k].status = "absent" /\ remote'[k].status = "submitted"
             \/ remote[k].status = "submitted" /\ remote'[k].status \in {"working", "failed", "canceled"}
             \/ remote[k].status = "working" /\ remote'[k].status \in {"completed", "failed", "canceled"}
  <2>1. remote[k] \in RemoteRows
    BY DEF AgentInv, AgentTypes
  <2>2. CASE RowsMove
    BY <2>1, <2>2 DEF RowsMove, RemoteRows, Terminal
  <2>3. CASE \E j \in Keys : RowsInsert(j)
    BY <2>3 DEF RowsInsert
  <2> QED
    BY <2>2, <2>3
<1>2. [FirstRow!Next]_(FirstRow!lifecycleVars)
  <2>1. 1 \in Keys
    BY DEF Keys
  <2> QED
    BY <1>1, <2>1 DEF FirstRow!Next, FirstRow!Move, FirstRow!ChildTransitions, FirstRow!lifecycleVars,
      MaxAttempts
<1>3. [SecondRow!Next]_(SecondRow!lifecycleVars)
  <2>1. 2 \in Keys
    BY DEF Keys
  <2> QED
    BY <1>1, <2>1 DEF SecondRow!Next, SecondRow!Move, SecondRow!ChildTransitions, SecondRow!lifecycleVars,
      MaxAttempts
<1> QED
  BY <1>2, <1>3

\* -- the whole --------------------------------------------------------------
\* What every step does to the rows of both sides.
RowsObey ==
  /\ LocalMoves
  /\ [FirstRow!Next]_(FirstRow!lifecycleVars)
  /\ [SecondRow!Next]_(SecondRow!lifecycleVars)

\* The tracker side does not notice what the agent does by itself.
LEMMA AgentStepKeepsTrack ==
  ASSUME ExchangeInv, RowsMove, UNCHANGED trackVars
  PROVE  TrackInv' /\ LocalMoves
<1>1. UNCHANGED <<local, tracker>>
  BY DEF trackVars
<1>2. /\ \A k \in Keys : remote[k].status \in {"completed", "failed", "absent"} =>
           remote'[k].status = remote[k].status
      /\ 1 \in Keys /\ 2 \in Keys /\ local.attempt \in Keys
  BY DEF RowsMove, Terminal, Keys, ExchangeInv, TrackInv, TrackTypes, LocalRows, MaxAttempts
<1>3. AttemptsInOrder'
  BY <1>1, <1>2 DEF ExchangeInv, TrackInv, AttemptsInOrder, RetryReconciled, CompletedIsRemote
<1>4. TrackTypes' /\ TrackerKnows' /\ AbsentUntouched'
  BY <1>1, <1>2 DEF ExchangeInv, TrackInv, TrackTypes, TrackerKnows, AbsentUntouched, Is
<1> QED
  BY <1>1, <1>3, <1>4 DEF TrackInv, LocalMoves

\* Every step keeps the invariant, and every row obeys the protocol.
LEMMA ExchangeStep ==
  ASSUME ExchangeInv, [Next]_vars
  PROVE  ExchangeInv' /\ RowsObey
<1> USE DEF ExchangeInv, RowsObey
<1>1. CASE \E t \in Trackers : Call(t)
  BY <1>1, CallInv, RowSteps
<1>2. CASE \/ \E t \in Trackers : Plan(t) \/ (TrackerStep(t) /\ ~Call(t))
           \/ CoordinatorCrash
  <2>1. late' = late /\ UNCHANGED agentVars
    BY <1>2 DEF Plan, TrackerStep, Record, Execute, Poll, ApplyWorking, ApplyFailure,
      ApplyCanceled, ApplyCompleted, Settle, Retry, LoseRace, CoordinatorCrash
  <2>2. AgentInv' /\ RowsMove
    <3>1. late' \in BOOLEAN
      BY <2>1 DEF AgentInv, AgentTypes
    <3> QED
      BY <2>1, <3>1, AgentMovesInv
  <2>3. TrackInv' /\ LocalMoves
    BY <1>2, PlanInv, RecordInv, ExecuteInv, PollInv, ApplyWorkingInv, ApplyFailureInv,
      ApplyCanceledInv, ApplyCompletedInv, SettleInv, RetryInv, LoseRaceInv, CoordinatorCrashInv
    DEF TrackerStep
  <2> QED
    BY <2>2, <2>3, RowSteps
<1>3. CASE AgentMoves \/ DeadlinePasses \/ UNCHANGED vars
  <2>1. /\ AgentMoves \/ (late' \in BOOLEAN /\ UNCHANGED agentVars)
        /\ UNCHANGED trackVars
    BY <1>3 DEF AgentMoves, DeadlinePasses, vars, AgentInv, AgentTypes
  <2>2. AgentInv' /\ RowsMove
    BY <2>1, AgentMovesInv
  <2>3. TrackInv' /\ LocalMoves
    BY <2>1, <2>2, AgentStepKeepsTrack
  <2> QED
    BY <2>2, <2>3, RowSteps
<1> QED
  BY <1>1, <1>2, <1>3 DEF Next

\* Nothing is there at the start.
LEMMA ExchangeInit == Init => ExchangeInv
<1> SUFFICES ASSUME Init PROVE ExchangeInv
  OBVIOUS
<1>1. AgentInv
  BY AgentInitInv DEF Init
<1>2. /\ local = NoLocal /\ tracker = [t \in Trackers |-> Idle]
      /\ \A k \in Keys : remote[k].status = "absent"
  BY DEF Init, AgentInit, TrackInit, NoRemote
<1>3. /\ local \in LocalRows /\ local.status = "absent" /\ local.attempt = 1 /\ local.remote = 0
  <2>1. "none" \in Codes /\ 1 \in 1..MaxAttempts
    BY DEF Codes, MaxAttempts
  <2> QED
    BY <1>2, <2>1 DEF NoLocal, LocalRows
<1>4. \A t \in Trackers : tracker[t] = Idle
  BY <1>2
<1>5. Idle \in TrackerStates /\ Idle.key = 0 /\ Idle.pc = "idle"
  BY IdleFacts DEF Idle
<1>6. TrackInv
  BY <1>2, <1>3, <1>4, <1>5
  DEF TrackInv, TrackTypes, AttemptsInOrder, RetryReconciled, CompletedIsRemote, TrackerKnows,
      AbsentUntouched, Is, Keys
<1> QED
  BY <1>1, <1>6 DEF ExchangeInv

\* The invariant holds, whatever is lost, repeated, restarted or retried.
THEOREM ExchangeCorrect == Spec => []ExchangeInv
<1>1. ExchangeInv /\ [Next]_vars => ExchangeInv'
  BY ExchangeStep
<1> QED
  BY <1>1, ExchangeInit, PTL DEF Spec

\* Every column and every local variable of both sides stays in its range.
THEOREM ExchangeTypeCorrect == Spec => []TypeOK
<1>1. ExchangeInv => TypeOK
  BY DEF ExchangeInv, AgentInv, AgentTypes, TrackInv, TrackTypes, TypeOK, LocalRows, TrackerStates,
     TrackerPlaces, Commands, ThreadStates, ThreadPlaces, LockIds
<1> QED
  BY <1>1, ExchangeCorrect, PTL

\* Two handlers of one child are never at work at a time: not for one row, of which only
\* one execution exists while its handler runs, and not for two, because the second row is
\* inserted only after the first has failed, and a failed row has no handler.
THEOREM OneHandler == Spec => []OneInstance
<1>1. ExchangeInv => OneInstance
  <2> SUFFICES ASSUME ExchangeInv, NEW x \in Threads, NEW y \in Threads,
                      At(x, "handling"), At(y, "handling")
               PROVE  x = y
    BY DEF OneInstance
  <2>1. Of(x) \in Keys /\ Of(y) \in Keys
    BY DEF ExchangeInv, AgentInv, AgentTypes, ThreadStates, Of
  <2>2. Of(x) = Of(y)
    <3> SUFFICES ASSUME NEW u \in Threads, NEW v \in Threads, At(u, "handling"), At(v, "handling"),
                        Of(u) = 1, Of(v) = 2
                 PROVE  FALSE
      BY <2>1 DEF Keys
    <3>1. remote[1].status \in {"working", "canceled"} /\ remote[2].status # "absent"
      BY DEF ExchangeInv, AgentInv, RowsKnown, At
    <3> QED
      BY <3>1 DEF ExchangeInv, TrackInv, AttemptsInOrder, RetryReconciled
  <2> QED
    BY <2>2 DEF ExchangeInv, AgentInv, SoleExecution, Sole, At
<1> QED
  BY <1>1, ExchangeCorrect, PTL

\* The handler of a row starts at most once, and once more after each restart.
THEOREM ExecutedRarely == Spec => []ExecutedOncePerLife
<1>1. ExchangeInv => ExecutedOncePerLife
  BY DEF ExchangeInv, AgentInv, StartsCounted, ExecutedOncePerLife
<1> QED
  BY <1>1, ExchangeCorrect, PTL

\* A second attempt exists only since the agent's first row has failed for good, although
\* the answers that say so may be lost.
THEOREM RetryAfterFailure == Spec => []RetryReconciled
<1>1. ExchangeInv => RetryReconciled
  BY DEF ExchangeInv, TrackInv, AttemptsInOrder
<1> QED
  BY <1>1, ExchangeCorrect, PTL

\* A child that the coordinator calls completed has a completed row at the agent, the one
\* of its attempt.
THEOREM CompletionGenuine == Spec => []CompletedIsRemote
<1>1. ExchangeInv => CompletedIsRemote
  BY DEF ExchangeInv, TrackInv, AttemptsInOrder
<1> QED
  BY <1>1, ExchangeCorrect, PTL

\* The coordinator's row obeys the protocol of a child: legal moves only, and the retry of
\* a failure as the only way out of a terminal status.
THEOREM LocalObeys == Spec => ImplementsLocal
<1>1. Init => LocalRow!Init
  BY DEF Init, TrackInit, NoLocal, LocalRow!Init, MaxAttempts
<1>2. ExchangeInv /\ [Next]_vars => [LocalRow!Next]_(LocalRow!lifecycleVars)
  BY ExchangeStep DEF RowsObey, LocalMoves, LocalRow!lifecycleVars
<1> QED
  BY <1>1, <1>2, ExchangeCorrect, PTL DEF Spec, ImplementsLocal, LocalRow!Spec

\* So does each of the agent's rows, which is never retried.
THEOREM RemoteObeys == Spec => ImplementsRemote
<1>1. Init => FirstRow!Init /\ SecondRow!Init
  BY DEF Init, AgentInit, NoRemote, Keys, FirstRow!Init, SecondRow!Init, MaxAttempts
<1>2. ExchangeInv /\ [Next]_vars =>
        [FirstRow!Next]_(FirstRow!lifecycleVars) /\ [SecondRow!Next]_(SecondRow!lifecycleVars)
  BY ExchangeStep DEF RowsObey
<1> QED
  BY <1>1, <1>2, ExchangeCorrect, PTL
  DEF Spec, ImplementsRemote, FirstRow!Spec, SecondRow!Spec
====
