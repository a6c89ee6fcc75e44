---------------------------- MODULE MCWebBoard ----------------------------
(* Two pools over two weeks of two days. *)
EXTENDS WebBoard

\* The nearest has no lap swimming today, the day before it has; the second is shut in the next
\* week's first day.
MCProgramme == <<[d \in Days |-> IF d = 1 THEN "fun" ELSE "lap"], [d \in Days |-> IF d = 2 THEN "shut" ELSE "lap"]>>
=============================================================================
