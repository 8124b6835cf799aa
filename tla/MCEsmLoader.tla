---------------------------- MODULE MCEsmLoader ----------------------------
(* Small instance of EsmLoader for TLC: ES modules a and b import each       *)
(* other; a first imports the CommonJS module x, whose body may require b    *)
(* (which leads back to a, half fetched by then) or c (whose top-level await *)
(* may need a timer), and last c; b imports the extension e.                 *)
EXTENDS EsmLoader

CONSTANTS a, b, c, x, e

MCPaths == {a, b, c, x, e}
MCKind == [p \in MCPaths |-> CASE p \in {a, b, c} -> "esm" [] p = x -> "cjs" [] p = e -> "ext"]
MCRequests == [p \in MCPaths |-> CASE p = a -> <<x, b, c>> [] p = b -> <<a, e>> [] OTHER -> <<>>]
MCBodyRequires == [p \in MCPaths |-> IF p = x THEN {b, c} ELSE {}]
=============================================================================
