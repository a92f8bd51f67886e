---- MODULE ReviewInput ----
\* From the text of a change to the findings on it: a diff is parsed (domain/diffparse.py)
\* and the new file rebuilt from it (domain/workspace.py), or a ZIP is unpacked; rules
\* look at its lines (rules/), their hits are scored and merged (domain/confidence.py,
\* agents/review/agent.py).  One file of the change; scores are in hundredths.
\* An operator whose name extends the one after it is a faulty variant of it.
EXTENDS Naturals, FiniteSets, FiniteSetsExt

CONSTANTS
  EditLength,  \* bound: lines of the true edit
  Contents     \* what a line may hold: a shape of HitsIn, or a misleading beginning

VARIABLES
  edit,      \* the true edit: origin, content, whether the diff shows the line
  source,    \* "diff" or "zip"
  stage,
  rest,      \* the lines of the diff still to parse, by their places in the edit
  headers,   \* the places before which a hunk header is still to parse
  number,    \* new_lineno
  image,     \* the lines of the new file that are known: <<number, content>>
  changed,   \* the numbers of changed lines
  tree,      \* does the file parse?
  hits,      \* hits that are not scored yet
  findings   \* the finding kept for each line and rule

ASSUME EditAssumption == EditLength \in Nat

inputVars == <<edit, source, stage, rest, headers, number, image, changed, tree, hits, findings>>

\* -- the rules --------------------------------------------------------------
\* The table of rules: confidence_base, the rules that need a syntax tree, the rules
\* with an automatic fix.
Base(rule) ==
  CASE rule \in {"R011", "R012", "R018", "R020", "R023"} -> 55
    [] rule \in {"R009", "R010", "R015", "R019"} -> 60
    [] rule \in {"R008", "R017", "R021"} -> 65
    [] rule \in {"R005", "R007", "R013", "R016"} -> 70
    [] rule \in {"R004", "R006", "R022", "R024"} -> 75
    [] rule \in {"R001", "R002", "R014"} -> 80
    [] rule = "R003" -> 85
TreeRules == {"R001", "R003", "R007", "R008", "R011", "R012", "R015", "R018", "R019",
              "R020", "R022", "R024"}
Fixable == {"R001", "R002", "R003"}

Hit(rule) == {[rule |-> rule, dynamic |-> FALSE]}
DynamicHit(rule) == {[rule |-> rule, dynamic |-> TRUE]}

\* What the checks of the syntax tree find in a line of a shape.  A line with two
\* statements may hit a rule twice; a checked call, a safe loader or a placeholder for a
\* secret are shapes of nothing.
TreeHits(shape) ==
  CASE shape = "sql" -> Hit("R001")
    [] shape = "sql by name" -> DynamicHit("R001")
    [] shape = "sql both" -> Hit("R001") \cup DynamicHit("R001")
    [] shape = "shell" -> Hit("R003")
    [] shape = "default" -> Hit("R007")
    [] shape = "bare except" -> Hit("R008")
    [] shape = "open" -> Hit("R011")
    [] shape = "assert" -> Hit("R012")
    [] OTHER -> {}
RunHits(shape) ==
  CASE shape = "run" -> Hit("R018")
    [] shape = "broad except" -> Hit("R019")
    [] OTHER -> {}
YamlHits(shape) == IF shape = "yaml" THEN Hit("R022") ELSE {}

\* What the checks and patterns on the text of a line find.
PatternHits(shape) ==
  CASE shape = "secret" -> Hit("R002")
    [] shape = "os.system" -> Hit("R004")
    [] shape = "eval" -> Hit("R005")
    [] OTHER -> {}
RandomHits(shape) == IF shape = "random token" THEN Hit("R015") ELSE {}
UrlHits(shape) ==
  CASE shape = "http" -> Hit("R020")
    [] shape = "login in url" -> Hit("R024")
    [] OTHER -> {}

HitsIn(shape) ==
  TreeHits(shape) \cup RunHits(shape) \cup YamlHits(shape)
  \cup PatternHits(shape) \cup RandomHits(shape) \cup UrlHits(shape)

\* run_rule: without a syntax tree the rules that need one are skipped.
HitsOf(content, parsed) == {h \in HitsIn(content) : parsed \/ h.rule \notin TreeRules}

\* score_confidence, with context_confirmed as all checks set it, and level_for.
Score(rule, inChange, dynamic) ==
  LET raw == Base(rule) + 20 + (IF inChange THEN 15 ELSE 0)
             - (IF inChange THEN 0 ELSE 20) - (IF dynamic THEN 15 ELSE 0)
  IN  IF raw > 100 THEN 100 ELSE raw
Level(score) ==
  CASE score >= 85 -> "confirmed"
    [] score >= 60 /\ score < 85 -> "probable"
    [] score >= 40 /\ score < 60 -> "suspicious"
    [] OTHER -> "suppressed"

\* -- the input --------------------------------------------------------------
\* A line the diff does not show lies between two hunks.
EditLines ==
  [origin : {"context", "added"}, content : Contents, shown : {TRUE}]
  \cup [origin : {"removed"}, content : Contents \cap {"plain", "dashes"}, shown : {TRUE}]
  \cup [origin : {"context"}, content : {"plain"}, shown : {FALSE}]

InNew(line) == line.origin # "removed"
NewNumber(e, i) == Cardinality({j \in 1..i : InNew(e[j])})

\* The lines of the diff after its header are the shown ones; a hunk begins wherever a
\* shown line follows none, and names the number of its first line in the new file.
Shown(e) == {i \in DOMAIN e : e[i].shown}
Hunks(e) == {i \in Shown(e) : i - 1 \notin Shown(e)}

InputInit ==
  /\ edit = <<>>
  /\ source = "none"
  /\ stage = "idle"
  /\ rest = {}
  /\ headers = {}
  /\ number = 0
  /\ image = {}
  /\ changed = {}
  /\ tree = FALSE
  /\ hits = {}
  /\ findings = {}

\* A change comes in, as a diff or as a ZIP of the new files.
Submit ==
  /\ stage = "idle"
  /\ stage' = "start"
  /\ edit' \in [1..EditLength -> EditLines]
  /\ source' \in {"diff", "zip"}
  /\ UNCHANGED <<rest, headers, number, image, changed, tree, hits, findings>>

\* -- parsing ----------------------------------------------------------------
\* The header of the file: one section for a path, a legal one, of a python file; and
\* some hunk.  Anything else is refused.
StartDiff ==
  /\ stage = "start" /\ source = "diff"
  /\ \/ /\ Shown(edit) # {}
        /\ rest' = Shown(edit)
        /\ headers' = Hunks(edit)
        /\ stage' = "parse"
     \/ /\ stage' = "refused"
        /\ UNCHANGED <<rest, headers>>
  /\ UNCHANGED <<edit, source, number, image, changed, tree, hits, findings>>

NextLine(i) == i \in rest /\ \A j \in rest : i <= j

\* A line counts where it is in the new file.
CountedAlways(origin) == TRUE
Counted(origin) == origin # "removed"

ParseHunk ==
  /\ stage = "parse"
  /\ \E i \in headers :
       /\ NextLine(i)
       /\ headers' = headers \ {i}
       /\ number' = NewNumber(edit, i - 1) + 1
  /\ UNCHANGED <<edit, source, stage, rest, image, changed, tree, hits, findings>>

\* A line that is added, removed or context.  The prefixes of headers are tried first:
\* an added line that begins with "++ " names another path, or an illegal one, and a
\* removed one with "-- " an old path; neither is counted.
ParseChange(i) ==
  /\ stage = "parse"
  /\ NextLine(i) /\ i \notin headers
  /\ rest' = rest \ {i}
  /\ LET origin == edit[i].origin
         content == edit[i].content
     IN  CASE origin = "added" /\ content = "pluses" ->
                /\ stage' \in {"parse", "refused"}
                /\ UNCHANGED <<number, image, changed>>
           [] origin = "removed" /\ content = "dashes" -> UNCHANGED <<stage, number, image, changed>>
           [] OTHER ->
                /\ number' = IF Counted(origin) THEN number + 1 ELSE number
                /\ image' = IF origin = "removed" THEN image
                            ELSE {l \in image : l[1] # number} \cup {<<number, content>>}
                /\ changed' = IF origin = "added" THEN changed \cup {number} ELSE changed
                /\ UNCHANGED stage
  /\ UNCHANGED <<edit, source, headers, tree, hits, findings>>

\* The hits of a rebuilt or unpacked file; the first step of the review agent.
Scan(lines, parsed) ==
  UNION {{[line |-> l[1], rule |-> h.rule, dynamic |-> h.dynamic] : h \in HitsOf(l[2], parsed)} :
           l \in lines}

\* from_diff: the lines that no hunk shows are blank.  What was rebuilt from a part of
\* a file may be no program.
BuildWorkspace ==
  /\ stage = "parse" /\ rest = {}
  /\ stage' = "score"
  /\ tree' \in BOOLEAN
  /\ hits' = Scan(image, tree')
  /\ UNCHANGED <<edit, source, rest, headers, number, image, changed, findings>>

\* from_zip: every line of the new file is there and counts as changed.  Refused are
\* too many entries, illegal paths, what is too large or no text, and no python file.
TakeZip ==
  /\ stage = "start" /\ source = "zip"
  /\ \/ /\ image' = {<<NewNumber(edit, i), edit[i].content>> :
                       i \in {j \in DOMAIN edit : InNew(edit[j])}}
        /\ changed' = {l[1] : l \in image'}
        /\ tree' \in BOOLEAN
        /\ hits' = Scan(image', tree')
        /\ stage' = "score"
     \/ /\ stage' = "refused"
        /\ UNCHANGED <<image, changed, tree, hits>>
  /\ UNCHANGED <<edit, source, rest, headers, number, findings>>

\* -- findings ---------------------------------------------------------------
\* dedup_findings: for a line and a rule the better score is kept, the first of equals.
Keep(kept, found) ==
  LET same == {k \in kept : k.line = found.line /\ k.rule = found.rule}
  IN  IF \E k \in same : k.score >= found.score THEN kept ELSE (kept \ same) \cup {found}

\* The hits come in the order of the rules, and for a rule as its check yields them.
ScoreHit ==
  /\ stage = "score"
  /\ \E h \in hits :
       /\ hits' = hits \ {h}
       /\ findings' = Keep(findings,
            [line |-> h.line, rule |-> h.rule,
             score |-> Score(h.rule, h.line \in changed, h.dynamic)])
  /\ UNCHANGED <<edit, source, stage, rest, headers, number, image, changed, tree>>

\* The artifact is complete.
ReportFindings ==
  /\ stage = "score" /\ hits = {}
  /\ stage' = "reported"
  /\ UNCHANGED <<edit, source, rest, headers, number, image, changed, tree, hits, findings>>

InputNext ==
  \/ Submit \/ StartDiff \/ TakeZip
  \/ ParseHunk \/ (\E i \in 1..EditLength : ParseChange(i))
  \/ BuildWorkspace
  \/ ScoreHit
  \/ ReportFindings
InputSpec == InputInit /\ [][InputNext]_inputVars

\* -- properties -------------------------------------------------------------
\* The findings are the true ones: for each line of the new file that was shown and each
\* rule it hits there is one, at the number of the line in the new file, scored by the
\* surest hit and by whether the change added the line; and what has a fix is never
\* suppressed.  Unless an added line looks like a header: then the numbers after it are
\* too small.
Known(i) == source = "zip" \/ edit[i].shown
FindingsTrue ==
  stage = "reported"
  /\ (source = "diff" => \A i \in DOMAIN edit :
                           ~(edit[i].origin = "added" /\ edit[i].content = "pluses")) =>
    /\ findings =
         UNION {{[line |-> NewNumber(edit, i), rule |-> h.rule,
                  score |-> Max({Score(h.rule, source = "zip" \/ edit[i].origin = "added", g.dynamic) :
                                   g \in {f \in HitsOf(edit[i].content, tree) : f.rule = h.rule}})] :
                   h \in HitsOf(edit[i].content, tree)} :
                  i \in {j \in DOMAIN edit : InNew(edit[j]) /\ Known(j)}}
    /\ \A f \in findings : f.rule \in Fixable => Level(f.score) # "suppressed"
====
