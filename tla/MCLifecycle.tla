------------------------------ MODULE MCLifecycle ------------------------------
(***************************************************************************)
(* Configurations of Lifecycle for TLC.                                    *)
(***************************************************************************)
EXTENDS Lifecycle

Usable == [endpoints |-> TRUE, dsn |-> "full", bucket |-> TRUE, prefix |-> TRUE,
           auth |-> TRUE, tokens |-> TRUE, workers |-> 1]

\* One that works, and one for each way not to
MCConfigs ==
  {Usable, [Usable EXCEPT !.endpoints = FALSE], [Usable EXCEPT !.workers = 0],
   [Usable EXCEPT !.tokens = FALSE]} \union {[Usable EXCEPT !.dsn = d] : d \in DSNs}

MCUsable == {Usable}

=============================================================================
