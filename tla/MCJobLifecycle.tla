--------------------------- MODULE MCJobLifecycle ---------------------------
(* Small instances of JobLifecycle for TLC. *)
EXTENDS JobLifecycle, TLC

CONSTANTS exact1, exact2, a, b, replicas1, url1

\* Two metric patterns and no prometheus block; one of them twice, with a block,
\* which hasConfigurationChanged tells from the first one way round only; and an
\* unsupported target type.
First       == [supported |-> TRUE,  exact |-> exact1, patterns |-> <<a, b>>,
                prometheus |-> None, ignored |-> url1]
Repeated    == [First EXCEPT !.patterns = <<a, a>>, !.prometheus = replicas1]
Unsupported == [First EXCEPT !.supported = FALSE, !.exact = exact2]

OneSpec    == {First}
TwoSpecs   == {First, Repeated}
ThreeSpecs == {First, Repeated, Unsupported}

\* Keys and job structs are interchangeable; only safety is checked with it.
Symmetry == Permutations(Keys) \cup Permutations(Ids)
=============================================================================
