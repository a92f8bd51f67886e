---- MODULE EventStream ----
\* The audit log of one review task and a client that follows it by server-sent
\* events (repositories/audit.py, ddl.py, apps/api/events.py).  An event is stamped
\* when it is recorded and becomes visible when its transaction commits, so the log
\* may grow in the middle.  Events are numbered in the order of (created_at, id).
\* An operator whose name extends the one after it is a faulty variant of it.
EXTENDS Naturals, FiniteSets

CONSTANTS
  Writers,     \* transactions that record events: a run, the requests of people
  MaxEvents,   \* bound: events of the task
  PageLimit,   \* the limit of drain, 500 in the code
  MaxPolls,    \* max_seconds / poll_interval of a connection
  MaxDrops     \* bound: connections the client or the network cuts

VARIABLES
  written,     \* events recorded so far
  draft,       \* per writer, the events of its open transaction
  log,         \* the committed events
  ended,       \* is the committed status of the task final?
  conn,        \* the connection: place, cursor, events to send, polls, status read
  got,         \* the events the client received, over all connections
  lastGot,     \* the event it received last: its Last-Event-ID
  overtaken,   \* committed behind an event that was already read (for properties only)
  drops

eventVars == <<written, draft, log, ended, conn, got, lastGot, overtaken, drops>>
logVars == <<written, draft, log, ended, overtaken>>

ASSUME PageAssumption == PageLimit \in Nat

Off == [pc |-> "off", cursor |-> 0, batch |-> {}, polls |-> 0, final |-> FALSE]

EventInit ==
  /\ written = 0
  /\ draft = [w \in Writers |-> {}]
  /\ log = {}
  /\ ended = FALSE
  /\ conn = Off
  /\ got = {}
  /\ lastGot = 0
  /\ overtaken = {}
  /\ drops = 0

\* -- the log ----------------------------------------------------------------
\* record_event: an event with the current time joins the open transaction.
RecordEvent(w) ==
  /\ written < MaxEvents
  /\ written' = written + 1
  /\ draft' = [draft EXCEPT ![w] = @ \cup {written + 1}]
  /\ UNCHANGED <<log, ended, conn, got, lastGot, overtaken, drops>>

\* The transaction of a writer commits: its events become visible together, and
\* perhaps the final status of the task with them.  No final status is ever left.
CommitEvents(w) ==
  /\ draft[w] # {}
  /\ log' = log \cup draft[w]
  /\ overtaken' = overtaken \cup
       {e \in draft[w] : \E d \in got \cup conn.batch : e < d}
  /\ draft' = [draft EXCEPT ![w] = {}]
  /\ ended' \in {ended, TRUE}
  /\ UNCHANGED <<written, conn, got, lastGot, drops>>

\* Who may change a row of the log: nobody.  The mapper blocks the ORM, a trigger
\* blocks statements, for UPDATE and DELETE alike, on PostgreSQL and on SQLite.
BlockedUpdates(path, operation) == path \in {"orm", "statement"} /\ operation = "update"
Blocked(path, operation) ==
  /\ path \in {"orm", "statement"}
  /\ operation \in {"update", "delete"}

\* Somebody tries anyway: the transaction fails and loses its own events.
Tamper(w) ==
  /\ log # {}
  /\ \E path \in {"orm", "statement"}, operation \in {"update", "delete"} :
       IF Blocked(path, operation)
       THEN log' = log
       ELSE \E e \in log : log' = log \ {e}
  /\ draft' = [draft EXCEPT ![w] = {}]
  /\ UNCHANGED <<written, ended, conn, got, lastGot, overtaken, drops>>

\* -- the stream -------------------------------------------------------------
\* The first PageLimit events in order: the query of drain has no lower bound.
Page(events) == {e \in events : Cardinality({d \in events : d < e}) < PageLimit}

\* What drain yields, in order: the part of the page after the cursor, or all of it if the
\* cursor is not there.
AfterNext(cursor) ==
  LET page == Page(log)
  IN  IF cursor \in page THEN {e \in page : cursor + 1 < e} ELSE page
After(cursor) ==
  LET page == Page(log)
  IN  IF cursor \in page THEN {e \in page : cursor < e} ELSE page

\* The client connects, with the event it received last as Last-Event-ID.
Connect ==
  /\ conn.pc = "off"
  /\ conn' = [Off EXCEPT !.pc = "drain", !.cursor = lastGot]
  /\ UNCHANGED <<logVars, got, lastGot, drops>>

Drain ==
  /\ conn.pc = "drain"
  /\ conn' = [conn EXCEPT !.pc = "send", !.batch = After(conn.cursor)]
  /\ UNCHANGED <<logVars, got, lastGot, drops>>

\* The next event in order is yielded; the cursor follows it.
Send ==
  /\ conn.pc = "send"
  /\ \E e \in conn.batch :
       /\ \A d \in conn.batch : e <= d
       /\ conn' = [conn EXCEPT !.batch = @ \ {e}, !.cursor = e]
       /\ got' = got \cup {e}
       /\ lastGot' = e
  /\ UNCHANGED <<logVars, drops>>

\* Only now the status of the task is read; without the task the old value stays.
ReadStatus ==
  /\ conn.pc = "send"
  /\ conn.batch = {}
  /\ conn' = [conn EXCEPT !.pc = "status", !.final = ended]
  /\ UNCHANGED <<logVars, got, lastGot, drops>>

\* The stream ends with the task, or with its time.
CloseStream ==
  /\ conn.pc = "status"
  /\ conn.final \/ conn.polls >= MaxPolls
  /\ conn' = Off
  /\ UNCHANGED <<logVars, got, lastGot, drops>>

SleepUncounted ==
  /\ conn.pc = "status"
  /\ ~conn.final /\ conn.polls < MaxPolls
  /\ conn' = [conn EXCEPT !.pc = "drain"]
  /\ UNCHANGED <<logVars, got, lastGot, drops>>
SleepStream ==
  /\ conn.pc = "status"
  /\ ~conn.final /\ conn.polls < MaxPolls
  /\ conn' = [conn EXCEPT !.pc = "drain", !.polls = @ + 1]
  /\ UNCHANGED <<logVars, got, lastGot, drops>>

\* The connection breaks at any place.
DropStream ==
  /\ conn.pc # "off"
  /\ drops < MaxDrops
  /\ drops' = drops + 1
  /\ conn' = Off
  /\ UNCHANGED <<logVars, got, lastGot>>

StreamStep == Drain \/ Send \/ ReadStatus \/ CloseStream \/ SleepStream

EventNext ==
  \/ \E w \in Writers : (RecordEvent(w) \/ CommitEvents(w) \/ Tamper(w))
  \/ Connect
  \/ StreamStep
  \/ DropStream

\* The loop of the stream runs while its client reads; a client that lost its
\* connection opens it again, as browsers do for server-sent events.
EventSpec ==
  EventInit /\ [][EventNext]_eventVars /\ WF_eventVars(StreamStep) /\ WF_eventVars(Connect)

\* -- properties -------------------------------------------------------------
\* On one connection events come in order and none comes twice, as long as the
\* task has no more events than a page: the cursor is then always found.
OrderedBelowLimit ==
  [][/\ conn.pc = "send" /\ conn'.cursor # conn.cursor /\ conn'.pc = "send"
     /\ Cardinality(log) <= PageLimit
     => conn.cursor < conn'.cursor]_eventVars

\* Whatever closes the stream early, a client that comes back with its cursor sees
\* every event in the end, unless the event was committed behind one it has seen,
\* or lies behind the first page.  Those two are lost to it for good.
EverySeenOrLost ==
  \A e \in 1..MaxEvents :
    e \in log ~> e \in got \/ e \in overtaken \/ e \notin Page(log)

\* A stream ends: no connection outlives its time, whether the task ends or not.
StreamEnds == conn.pc # "off" ~> conn.pc = "off"

====
