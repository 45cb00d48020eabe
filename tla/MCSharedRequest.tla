--------------------------- MODULE MCSharedRequest ---------------------------
(* SharedRequest for TLC: the balance, the reconcile answer and the deals  *)
(* of two positions, each with a slot of its own.                          *)
EXTENDS SharedRequest

CONSTANTS bars, cleanup, balance, reconcile, deal1, deal2

OwnSlot == [k \in Keys |-> k]
Asks(keys, promptly) == [asked |-> keys, prompt |-> promptly]
AllScenarios == {Asks({balance}, TRUE), Asks({balance}, FALSE),
                 Asks({reconcile}, TRUE), Asks({deal1, deal2}, FALSE)}
PromptReconcile == {Asks({reconcile}, TRUE)}
SlowReconcile == {Asks({reconcile}, FALSE)}
=============================================================================
