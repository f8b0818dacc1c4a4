------------------------- MODULE MCProviderSession --------------------------
(***************************************************************************)
(* Small instances of ProviderSession.                                     *)
(***************************************************************************)
EXTENDS ProviderSession, TLC

CONSTANTS p1, p2, m1, m2

\* Every collector through one token manager.
Shared == [p \in {p1, p2} |-> m1]

\* As cmd/server/main.go wires them: the balance run and the cost run each
\* through the manager of their own service.
Separate == (p1 :> m1) @@ (p2 :> m2)

CollectorSymmetry == Permutations(Collectors)
=============================================================================
