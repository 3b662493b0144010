---------------------------- MODULE MCPipelines ----------------------------
EXTENDS Pipelines

S(human, conditional, onPass, onFail, retries) ==
  [human |-> human, conditional |-> conditional, onPass |-> onPass, onFail |-> onFail, retries |-> retries]

(* Linear with a human step; branches over a failure, with a step that may *)
(* be skipped; a loop of AI steps; a human step that is repeated.           *)
MCDefinitions ==
  {<<S(FALSE, FALSE, 0, 0, 0), S(TRUE, FALSE, 0, 0, 0), S(FALSE, FALSE, 0, 0, 0)>>,
   <<S(FALSE, TRUE, 3, 2, 1), S(TRUE, FALSE, 0, 0, 0)>>,
   <<S(FALSE, FALSE, 2, 0, 0), S(FALSE, FALSE, 1, 0, 0)>>,
   <<S(TRUE, FALSE, 1, 0, 0)>>}
=============================================================================
