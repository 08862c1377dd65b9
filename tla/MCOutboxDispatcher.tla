------------------------- MODULE MCOutboxDispatcher -------------------------
(* OutboxDispatcher on small instances: several events or several replicas. *)
EXTENDS OutboxDispatcher, TLC

\* Events, and dispatchers, are interchangeable.
Symmetry == Permutations(Event) \union Permutations(Dispatcher)
=============================================================================
