--------------------------- MODULE MCVaultSession ---------------------------
(***************************************************************************)
(* Small instances of VaultSession: values for the constants that are      *)
(* functions, and the symmetry of callers with the same lookups.           *)
(***************************************************************************)
EXTENDS VaultSession, TLC

CONSTANTS item, other

\* An item that is created, deleted and created again, and another that is always
\* there.
MCContents ==
  [v \in Versions |->
     [l \in {item, other} |->
        IF l = item /\ v % 2 = 0 THEN "missing" ELSE "found"]]

WantedItem == [c \in Callers |-> <<item>>]
WantedBoth == [c \in Callers |-> <<other, item>>]

CallerSymmetry == Permutations(Callers)
=============================================================================
