----------------------------- MODULE MCGraphRun -----------------------------
(* Small instances of GraphRun for TLC. *)
EXTENDS GraphRun

N(kind, cap, outs) ==
  [kind |-> kind, cap |-> cap, join |-> "any", maxRuns |-> 1, onFailure |-> "fail",
   attempts |-> 1, fanOut |-> FALSE, after |-> {}, outs |-> outs]
E(from, on, to) ==
  [from |-> from, to |-> to, on |-> on, limit |-> 1, after |-> {}, cond |-> FALSE]
Twice(e) == [e EXCEPT !.limit = 2]

(* Two workers side by side, a scorecard that joins them, a gate, and a      *)
(* worker that is retried.                                                   *)
Review ==
  [nodes |->
     <<[N("validator", 0, {"succeeded"}) EXCEPT !.fanOut = TRUE],
       N("worker", 1, {"succeeded", "failed"}),
       [N("worker", 2, {"succeeded", "approval_required"}) EXCEPT !.onFailure = "skip"],
       [N("scorecard", 0, {"passed", "failed"}) EXCEPT !.join = "all", !.onFailure = "fallback"],
       N("gate", 0, {}),
       [N("worker", 1, {"succeeded", "retryable"})
          EXCEPT !.onFailure = "retry", !.attempts = 2, !.after = {5}]>>,
   edges |->
     <<E(1, "succeeded", 2), E(1, "passed", 3), E(2, "succeeded", 4), E(3, "succeeded", 4),
       E(3, "approval_required", 4), E(3, "skipped", 4),
       [E(4, "passed", 5) EXCEPT !.cond = TRUE], E(5, "approved", 6)>>,
   rounds |-> 0]

(* A scorecard sends two workers round again, at most twice.                 *)
Loop ==
  [nodes |->
     <<N("validator", 0, {"succeeded"}),
       [N("worker", 1, {"succeeded"}) EXCEPT !.maxRuns = 2],
       [N("scorecard", 0, {"passed", "failed"}) EXCEPT !.maxRuns = 3],
       N("worker", 2, {"failed"})>>,
   edges |->
     <<E(1, "succeeded", 2), Twice(E(2, "succeeded", 3)), Twice(E(3, "failed", 2)),
       E(3, "passed", 4), E(2, "failed", 4)>>,
   rounds |-> 2]

(* One round: it is counted as soon as the first wave is done.               *)
Round ==
  [nodes |-> <<N("validator", 0, {"succeeded"}), N("worker", 1, {"succeeded"})>>,
   edges |-> <<E(1, "succeeded", 2)>>,
   rounds |-> 1]

(* Two workers of one capability in one wave.                                *)
Pair ==
  [nodes |-> <<N("worker", 1, {"succeeded"}), N("worker", 1, {"succeeded"})>>,
   edges |-> <<>>,
   rounds |-> 0]

(* Two workers, of which one fails, joined by a third; the third may be       *)
(* resumed after the failure was taken back.  Its first wave may be counted  *)
(* twice, once for each worker, and use up more steps than there are.        *)
Meet ==
  [nodes |->
     <<N("worker", 1, {"succeeded"}), N("worker", 2, {"succeeded", "failed"}),
       [N("worker", 3, {"succeeded"}) EXCEPT !.join = "all"]>>,
   edges |-> <<E(1, "succeeded", 3), E(2, "succeeded", 3), E(2, "failed", 3)>>,
   rounds |-> 0]

PairOnly == {Pair}
AllTemplates == {Review, Loop, Round, Meet}
=============================================================================
