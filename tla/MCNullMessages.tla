--------------------------- MODULE MCNullMessages ---------------------------
(***************************************************************************)
(* Small instances of NullMessages: three tasks in a row.                  *)
(***************************************************************************)
EXTENDS NullMessages

CONSTANTS a, b, c

Row ==
  [l \in Tasks |-> [n \in Tasks |->
    CASE {l, n} = {a, b} -> {"ab"} [] {l, n} = {b, c} -> {"bc"} [] OTHER -> {}]]
RowDelay == [k \in {"ab", "bc"} |-> 3]
RowBundles ==
  [l \in Tasks |-> [n \in Tasks |->
    CASE {l, n} = {a, b} -> 3 [] {l, n} = {b, c} -> 3 [] OTHER -> 0]]
OneEvent == [l \in Tasks |-> IF l = a THEN {0} ELSE {}]
Work == [l \in Tasks |-> CASE l = a -> 2 [] l = b -> 1 [] OTHER -> 0]
=============================================================================
