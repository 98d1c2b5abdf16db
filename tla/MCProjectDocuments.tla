-------------------------- MODULE MCProjectDocuments --------------------------
(* Two callers, one work item; two lessons that contradict each other and a *)
(* decision that rests on an order; two sections.                           *)
EXTENDS ProjectDocuments, TLC

CONSTANTS c1, c2, w, h1, h2, ctx, talk, report

MCCallers  == {c1, c2}
MCSourceOf == [r \in {"slide", "paper", "order"} |-> IF r = "slide" THEN "paper" ELSE r]

Lesson(statement) == [kind |-> "lesson", statement |-> statement, scope |-> "all",
                      refs |-> {"slide", "order"}, text |-> "ok"]
Decision == [kind |-> "decision", statement |-> "decided", scope |-> "all",
             refs |-> {"order"}, text |-> "ok"]

MCBundles  == {<<Lesson("yes")>>}
MCBundleOf == ctx :> <<Lesson("no")>> @@ talk :> <<Decision>>
MCWorkloads ==
    {[ops |-> {"finish", "capture", "reconcile"}, calls |-> 2, edits |-> 1, failures |-> 1],
     [ops |-> {"finish", "capture", "reconcile"}, calls |-> 3, edits |-> 0, failures |-> 0],
     [ops |-> {"main", "section"}, calls |-> 3, edits |-> 0, failures |-> 0],
     [ops |-> {"bootstrap", "main", "propose", "publish", "finish"},
      calls |-> 3, edits |-> 0, failures |-> 1]}
MCSymmetry == Permutations(MCCallers) \cup Permutations({h1, h2})
=============================================================================
