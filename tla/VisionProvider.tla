---------------------------- MODULE VisionProvider ---------------------------
(***************************************************************************)
(* What the vision provider and the verification policy make of the        *)
(* models' answers: src/app/lib/vision-provider.ts, qwen-missing-scout.ts, *)
(* verification-policy.ts, and the report built from them,                 *)
(* checkback-analysis.ts and mode-report.ts.                               *)
(*                                                                         *)
(* An object is something the photos show.  An answer says of each object  *)
(* whether it is raised, and how: "missing" (high certainty, both regions  *)
(* visible), "vague" (missing without that, or occluded, uncovered,        *)
(* uncertain), "moved".  Added objects and texts do not bear on the        *)
(* outcome and are left out.                                               *)
(*   primary: [kind |-> "analysis", raised, whole, blocking, size, clash]  *)
(*     whole: same scene, high overlap, something checked                  *)
(*     size:  "few", "limit" (the prompt's 16 changes), "most" (the        *)
(*            schema's 30)                                                 *)
(*     clash: its candidates share an id or are more than 20               *)
(*   scout: [kind |-> "scout", found, usable, hidden, full]                *)
(*     hidden: it names a candidate it could not see; full: 12 candidates  *)
(*   verifier: [kind |-> "batch", says], a verdict for some objects        *)
(* Any answer may also be of kind "invalid" (schema) or "error" (timeout,  *)
(* abort, transport, status).                                              *)
(***************************************************************************)
EXTENDS Integers, FiniteSets, Functions

CONSTANT Objects

Certain == {"missing", "same", "elsewhere"}
Verdicts == Certain \cup {"unplaced", "unsure", "incomparable"}
  \* "unplaced": visible_elsewhere without a location; "unsure": any verdict of
  \* less than high certainty

\* What may come back: an answer in its form, or a failure.
Primaries ==
  [kind : {"analysis"}, raised : [Objects -> {"none", "missing", "vague", "moved"}],
   whole : BOOLEAN, blocking : BOOLEAN, size : {"few", "limit", "most"}, clash : BOOLEAN]
Scouts ==
  [kind : {"scout"}, found : SUBSET Objects, usable : BOOLEAN, hidden : BOOLEAN, full : BOOLEAN]
Failures == [kind : {"invalid", "error"}]

Candidates(analysis) == {o \in Objects : analysis.raised[o] = "missing"}

\* guardSaturatedQwenPrimary: a list at its limit without a candidate may have
\* left one out.
GuardSaturated(primary) ==
  IF primary.size # "few" /\ Candidates(primary) = {}
  THEN [primary EXCEPT !.blocking = TRUE] ELSE primary

\* markMissingScoutUnresolved
MarkUnresolved(analysis) == [analysis EXCEPT !.blocking = TRUE]

\* Mutant: a candidate the list has no room for is dropped without a word.
MergeSilently(analysis, scout) ==
  LET kept == {o \in scout.found : analysis.raised[o] # "none" \/ analysis.size # "most"}
  IN [analysis EXCEPT
        !.raised = [o \in Objects |-> IF o \in kept THEN "missing" ELSE @[o]],
        !.blocking = @ \/ ~scout.usable \/ scout.hidden \/ scout.full]

\* mergeMissingScoutCandidates: what the scout sees missing becomes a candidate,
\* over what the primary said of it; a new one needs room in the list.
Merge(analysis, scout) ==
  LET kept == {o \in scout.found : analysis.raised[o] # "none" \/ analysis.size # "most"}
  IN [analysis EXCEPT
        !.raised = [o \in Objects |-> IF o \in kept THEN "missing" ELSE @[o]],
        !.blocking = @ \/ ~scout.usable \/ scout.hidden \/ scout.full
                       \/ kept # scout.found]

\* analyzeImagePairWithScout, once both observers answered.
Observed(provider, primary, scout) ==
  LET guarded == IF provider = "qwen" THEN GuardSaturated(primary) ELSE primary
  IN CASE scout.kind = "off" -> guarded
       [] scout.kind = "scout" -> Merge(guarded, scout)
       [] OTHER -> MarkUnresolved(guarded)

\* validateVerificationBatch accepts: one verdict per candidate and no other,
\* locations that fit, and from the fast tier only certain ones.
BatchHolds(candidates, answer, fast) ==
  /\ answer.kind = "batch"
  /\ DOMAIN answer.says = candidates
  /\ \A o \in candidates :
       /\ answer.says[o] # "unplaced"
       /\ fast => answer.says[o] \in Certain

\* The fast tier may decide alone when it only confirms.
FastDecides(candidates, fast) ==
  /\ BatchHolds(candidates, fast, TRUE)
  /\ \A o \in candidates : fast.says[o] = "missing"

Unverified == [o \in {} |-> "unsure"]

\* The deciding tier's batch; the other provider's is used as it came.
Verified(provider, candidates, answer) ==
  IF /\ answer.kind = "batch"
     /\ provider = "qwen" => BatchHolds(candidates, answer, FALSE)
  THEN answer.says ELSE Unverified

\* normalizeCheckbackReport, for one object: only a certain verdict makes a
\* candidate missing, misplaced, or nothing to report.
Item(analysis, verdicts, o) ==
  CASE analysis.raised[o] = "none" -> "none"
    [] analysis.raised[o] = "moved" -> "misplaced"
    [] analysis.raised[o] = "vague" -> "unresolved"
    [] o \notin DOMAIN verdicts -> "unresolved"
    [] OTHER -> [missing |-> "missing", same |-> "none", elsewhere |-> "misplaced",
                 unplaced |-> "misplaced", unsure |-> "unresolved",
                 incomparable |-> "unresolved"][verdicts[o]]

\* The report's status; adaptReportForMode decides it anew for an inventory.
Status(analysis, items, mode) ==
  LET usable == analysis.whole /\ ~analysis.blocking
  IN CASE ~usable -> "incomplete"
       [] mode # "inventory" /\ {"missing", "misplaced"} \cap Range(items) # {} -> "issues"
       [] "unresolved" \in Range(items) -> "incomplete"
       [] OTHER -> "clear"

Report(analysis, verdicts, mode) ==
  LET items == [o \in Objects |-> Item(analysis, verdicts, o)]
  IN [items |-> items, status |-> Status(analysis, items, mode)]
==============================================================================
