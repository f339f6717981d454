--------------------------- MODULE MCDomainEvents ---------------------------
(***************************************************************************)
(* Two copies of one row and one aggregate of its own, two events each.  *)
(***************************************************************************)
EXTENDS DomainEvents

CONSTANTS copy1, copy2, other, sharedId, otherId

MCAggregates == {copy1, copy2, other}
MCIds == {sharedId, otherId}
MCIdOf == [a \in MCAggregates |-> IF a = other THEN otherId ELSE sharedId]

=============================================================================
