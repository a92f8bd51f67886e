---- MODULE ImpactScope ----
\* What the impact agent reports of a change (agents/impact/agent.py) and the risk it
\* is given (domain/impact_policy.py), for changes that grow line by line.  A file has
\* a line outside of everything, a class, and a method in its last line.
\* An operator whose name extends the one after it is a faulty variant of it.
EXTENDS Naturals, FiniteSets, FiniteSetsExt

CONSTANTS
  FileCount,      \* bound: python files of the workspace, numbered in their order
  RiskyFiles,     \* files with a path of high risk
  LowFiles,       \* LOW_MAX_FILES, 2 in the code
  ThresholdFiles, \* wide_impact_file_threshold, 5 in the code
  MaxChanged      \* bound: changed lines

VARIABLES
  modified,   \* the changed lines: <<file, line>>
  broken,     \* files that do not parse
  dynamic,    \* a call by name somewhere: getattr, eval, ...
  calls,      \* the calls that resolve: from a method to a symbol
  report

ASSUME SizeAssumption == FileCount \in Nat /\ LowFiles \in Nat /\ ThresholdFiles \in Nat

impactVars == <<modified, broken, dynamic, calls, report>>
codeVars == <<broken, dynamic, calls>>

Files == 1..FileCount
FileLines == 1..3

\* -- symbols ----------------------------------------------------------------
\* A symbol and its lines; the innermost one of a line begins last.
SymbolsOf(f) ==
  IF f \in broken THEN {}
  ELSE {[file |-> f, kind |-> "class", first |-> 2, last |-> 3],
        [file |-> f, kind |-> "method", first |-> 3, last |-> 3]}
Symbols == UNION {SymbolsOf(f) : f \in Files}
Method(f) == [file |-> f, kind |-> "method", first |-> 3, last |-> 3]
ModuleOf(f) == [file |-> f, kind |-> "module", first |-> 0, last |-> 0]

Innermost(f, line) ==
  LET around == {s \in SymbolsOf(f) : s.first <= line /\ line <= s.last}
  IN  {s \in around : \A r \in around : r.first <= s.first}

\* _changed_symbols: the innermost symbols of the changed lines.  A module stands for
\* its lines outside of symbols only while no symbol was found in any file before.
ChangedSymbols(lines) ==
  LET InFiles(fs) == UNION {Innermost(l[1], l[2]) : l \in {m \in lines : m[1] \in fs}}
      touched == {l[1] : l \in lines}
      bare == {f \in touched : InFiles(1..f) = {}}
  IN  InFiles(Files) \cup {ModuleOf(f) : f \in IF bare = {} THEN {} ELSE {Min(bare)}}

\* -- the report -------------------------------------------------------------
\* classify: by the number of files, then by their paths.
ClassifyByPath(files) ==
  IF files \cap RiskyFiles # {} THEN "medium"
  ELSE IF Cardinality(files) > ThresholdFiles THEN "high"
  ELSE IF Cardinality(files) > LowFiles THEN "medium" ELSE "low"
Classify(files) ==
  IF Cardinality(files) > ThresholdFiles THEN "high"
  ELSE IF files \cap RiskyFiles # {} \/ Cardinality(files) > LowFiles THEN "medium" ELSE "low"

\* _call_graph: no call is resolved in a file that does not parse.  Then the steps to
\* and from the changed symbols, the files they lie in, and the risk, which is not low
\* if something was left unresolved.
ReportOf(lines) ==
  LET symbols == ChangedSymbols(lines)
      edges == {c \in calls : c.caller \in Symbols /\ c.callee \in Symbols}
      near == {e \in edges : e.caller \in symbols \/ e.callee \in symbols}
      files == {l[1] : l \in lines} \cup {e.caller.file : e \in near}
      risk == Classify(files)
  IN  [symbols |-> symbols,
       callers |-> {e.caller : e \in {d \in near : d.callee \in symbols}} \ symbols,
       callees |-> {e.callee : e \in {d \in near : d.caller \in symbols}} \ symbols,
       files |-> files,
       uncertain |-> dynamic \/ broken # {},
       risk |-> IF risk = "low" /\ (dynamic \/ broken # {}) THEN "medium" ELSE risk]

Callable == {[file |-> f, kind |-> k, first |-> IF k = "class" THEN 2 ELSE 3, last |-> 3] :
               f \in Files, k \in {"class", "method"}}

\* Calls go to the next file or within one.
CallsOf(f) ==
  [caller : {Method(f)}, callee : {s \in Callable : s.file \in {f, (f % FileCount) + 1}} \ {Method(f)}]

ImpactInit ==
  /\ modified = {}
  /\ broken = {}
  /\ dynamic = FALSE
  /\ calls = {}
  /\ report = ReportOf({})

\* The workspace of the task, before any change is marked in it.
LoadCode ==
  /\ modified = {}
  /\ broken' \in {{}} \cup {{f} : f \in Files}
  /\ dynamic' \in BOOLEAN
  /\ calls' \in {{c, d} : c \in CallsOf(1), d \in CallsOf(1) \cup CallsOf(2)}
  /\ UNCHANGED <<modified, report>>

\* The same review with one more changed line.
ChangeLine(f, line) ==
  /\ Cardinality(modified) < MaxChanged
  /\ modified' = modified \cup {<<f, line>>}
  /\ report' = ReportOf(modified')
  /\ UNCHANGED codeVars

ImpactNext == LoadCode \/ \E f \in Files, line \in FileLines : ChangeLine(f, line)
ImpactSpec == ImpactInit /\ [][ImpactNext]_impactVars

\* -- properties -------------------------------------------------------------
\* A larger change is never reported as a smaller one: no affected file drops out and
\* the risk does not fall, whatever else is changed, called or left unresolved.
Rank(risk) == CASE risk = "low" -> 0 [] risk = "medium" -> 1 [] risk = "high" -> 2
RiskNeverFalls ==
  [][/\ report.files \subseteq report'.files
     /\ Rank(report.risk) <= Rank(report'.risk)]_impactVars
====
