---- MODULE FixPlanning ----
\* How the fix agent turns the findings of a file into a patch (agents/fix/agent.py,
\* agents/fix/recipes.py).  A line is told apart by what the recipes see in it.
\* An operator whose name extends the one after it is a faulty variant of it.
EXTENDS Naturals, Sequences, FiniteSets, FiniteSetsExt, SequencesExt

CONSTANTS
  LineCount,     \* bound: lines of the file
  LineKinds,     \* bound: some of the kinds of lines below
  FindingLimit,  \* MAX_FINDINGS_PER_PATCH, 10 in the code
  FileLimit,     \* MAX_FILES_PER_PATCH, 5 in the code
  OtherFiles     \* bound: other files of the same patch

VARIABLES
  file,     \* the lines: the number they had in the beginning (0: inserted), kind
  todo,     \* findings of the file that are not planned yet
  named,    \* the lines that the selected findings named
  others,   \* plans for other files
  outcome

ASSUME LineAssumption == LineCount \in Nat

planningVars == <<file, todo, named, others, outcome>>

\* "secret" and "text" are assignments of a string, "call" is one the recipes can
\* rewrite; the odd ones are flagged too, but no recipe can rewrite them.
Flagged == {"secret", "call", "odd secret", "odd call"}
Kinds == {"header", "os", "blank", "text"} \cup Flagged
Category(kind) ==
  IF kind \in {"secret", "odd secret"} THEN "hardcoded_secret" ELSE "call"

\* _select_findings: in the order of lines, up to the limit.
Selected(kinds) ==
  LET flagged == {i \in 1..LineCount : kinds[i] \in Flagged}
  IN  {i \in flagged : Cardinality({j \in flagged : j < i}) < FindingLimit}

PlanningInit ==
  /\ file = <<>>
  /\ todo = {}
  /\ named = {}
  /\ others = 0
  /\ outcome = "none"

\* The agent is asked to fix what was found in a file, and in some others.
SelectFindings ==
  /\ outcome = "none"
  /\ outcome' = "open"
  /\ \E kinds \in [1..LineCount -> LineKinds \cap Kinds] :
       /\ file' = [i \in 1..LineCount |-> [id |-> i, kind |-> kinds[i]]]
       /\ named' = Selected(kinds)
       /\ todo' = {[line |-> i, category |-> Category(kinds[i])] : i \in named'}
  /\ others' \in 0..OtherFiles

\* -- the recipes ------------------------------------------------------------
\* The recipe for secrets takes any assignment of a string for the secret.
Rewrites(category, kind) ==
  \/ category = "hardcoded_secret" /\ kind \in {"secret", "text"}
  \/ category = "call" /\ kind = "call"

HasOsImportNever(lines) == FALSE
HasOsImport(lines) == \E i \in DOMAIN lines : lines[i].kind = "os"

\* After the comments and imports that the file begins with, blank lines between them.
ImportIndex(lines) ==
  LET code == {i \in DOMAIN lines : lines[i].kind \notin {"header", "os", "blank"}}
      end == IF code = {} THEN Len(lines) + 1 ELSE Min(code)
      top == {i \in DOMAIN lines : i < end /\ lines[i].kind # "blank"}
  IN  IF top = {} THEN 1 ELSE Max(top) + 1

\* A call is rewritten in its line; for a secret, "import os" may be inserted.
Rewritten(lines, i, category) ==
  LET done == [lines EXCEPT ![i].kind = "done"]
  IN  IF category = "hardcoded_secret" /\ ~HasOsImport(done)
      THEN InsertAt(done, ImportIndex(done), [id |-> 0, kind |-> "os"])
      ELSE done

\* -- the agent --------------------------------------------------------------
\* _plan_by_file: the findings from the last line to the first.  Each looks at the line
\* that now has its number; what it cannot rewrite it leaves alone.
PlanFinding ==
  /\ todo # {}
  /\ LET f == CHOOSE f \in todo : \A g \in todo : g.line <= f.line
     IN  /\ todo' = todo \ {f}
         /\ file' = IF Rewrites(f.category, file[f.line].kind)
                    THEN Rewritten(file, f.line, f.category)
                    ELSE file
  /\ UNCHANGED <<named, others, outcome>>

Touched == {file[i].id : i \in {j \in DOMAIN file : file[j].kind = "done"}}

\* handle: nothing to fix, no plan, too many files, or a candidate.
FinishPlan ==
  /\ todo = {}
  /\ outcome = "open"
  /\ LET plans == others + (IF Touched = {} THEN 0 ELSE 1)
     IN  outcome' = CASE plans = 0 -> "PATCH_INVALID"
                      [] plans > FileLimit -> "WIDE_IMPACT"
                      [] OTHER -> "candidate"
  /\ UNCHANGED <<file, todo, named, others>>

PlanningNext == SelectFindings \/ PlanFinding \/ FinishPlan
PlanningSpec == PlanningInit /\ [][PlanningNext]_planningVars

\* -- properties -------------------------------------------------------------
\* What the docstring of _plan_by_file promises: line numbers stay valid while the
\* findings are applied, so only lines that a finding named are rewritten.
OnlyFoundLines == Touched \subseteq named

\* What holds instead: "import os" is inserted at most once, so a finding misses its
\* line by one at most; the last finding of the file never misses it.
MissByOne ==
  /\ \A i \in Touched : i \in named \/ i + 1 \in named \ {Max(named)}
  /\ Touched \subseteq named \/ \E i \in DOMAIN file : file[i].id = 0
====
