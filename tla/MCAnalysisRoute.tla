--------------------------- MODULE MCAnalysisRoute ---------------------------
(* Three loads. A crowd: requests of two clients that need no verification,   *)
(* over two days of three ticks, with windows of two.  A single request: the *)
(* answers of the models in full, for two objects.                           *)
EXTENDS AnalysisRoute

Primary(raised, whole, blocking, size, clash) ==
  [kind |-> "analysis", raised |-> raised, whole |-> whole, blocking |-> blocking,
   size |-> size, clash |-> clash]

Forms ==
  {<<TRUE, FALSE, "few", FALSE>>, <<FALSE, FALSE, "few", FALSE>>, <<TRUE, TRUE, "few", FALSE>>,
   <<TRUE, FALSE, "limit", FALSE>>, <<TRUE, FALSE, "most", FALSE>>, <<TRUE, FALSE, "few", TRUE>>}

Raised ==
  {[o1 |-> x, o2 |-> y] : x \in {"none", "missing", "vague"}, y \in {"none", "missing", "moved"}}

MCPrimaries ==
  {Primary(raised, f[1], f[2], f[3], f[4]) : raised \in Raised, f \in Forms} \cup Failures

MCScouts ==
  {[kind |-> "scout", found |-> found, usable |-> u, hidden |-> h, full |-> FALSE] :
     found \in SUBSET {"o1", "o2"}, u \in BOOLEAN, h \in BOOLEAN}
  \cup {[kind |-> "scout", found |-> {"o1", "o2"}, usable |-> TRUE, hidden |-> FALSE, full |-> TRUE]}
  \cup Failures

Sides == {"missing", "same", "unsure"}

MCBatches ==
  {[kind |-> "batch", says |-> says] :
     says \in [{"o1"} -> Verdicts] \cup [{"o2"} -> Sides]
              \cup {[o1 |-> x, o2 |-> y] : x \in Verdicts, y \in Sides}}
  \cup Failures

Qwen ==
  [provider : {"qwen"}, scout : {FALSE}, verify : {"off", "shadow", "active"}]
  \cup [provider : {"qwen"}, scout : {TRUE}, verify : {"active"}]
OpenAI == [provider : {"openai"}, scout : {FALSE}, verify : {"off"}]

Single ==
  [requests |-> {1}, callers |-> {"c1"}, last |-> 0, modes |-> {"restoration"},
   runtimes |-> Qwen \cup OpenAI,
   primaries |-> MCPrimaries, scouts |-> MCScouts, batches |-> MCBatches]

\* An inventory asks no scout, even where one is enabled.
Stocktake ==
  [Single EXCEPT !.modes = {"inventory"},
     !.runtimes = {[provider |-> "qwen", scout |-> TRUE, verify |-> "off"]}]

Crowd ==
  [requests |-> Requests, callers |-> {"c1", "c2"}, last |-> 4,
   modes |-> {"restoration"},
   runtimes |-> {[provider |-> "qwen", scout |-> FALSE, verify |-> "off"]},
   primaries |-> {Primary([o1 |-> "none", o2 |-> "none"], TRUE, FALSE, "few", FALSE),
                  [kind |-> "error"]},
   scouts |-> {}, batches |-> {}]

MCLoads == {Single, Stocktake, Crowd}
MCRequests == 1..4
==============================================================================
