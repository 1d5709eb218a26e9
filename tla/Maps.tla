-------------------------------- MODULE Maps --------------------------------
(***************************************************************************)
(* Rust's HashMap, as the functions that hold its entries.                 *)
(***************************************************************************)

\* HashMap::insert.
Insert(f, x, v) == [y \in DOMAIN f \cup {x} |-> IF y = x THEN v ELSE f[y]]

\* HashMap::extend, by the entries of f, of a map that holds those of g.
Over(f, g) == [y \in DOMAIN f \cup DOMAIN g |-> IF y \in DOMAIN f THEN f[y] ELSE g[y]]
=============================================================================
