-------------------------- MODULE MCPluginImports --------------------------
(* Two plugins that share one exported function: p exports it twice and      *)
(* defines every hook, q exports a function of its own too and defines       *)
(* pluginUpdate alone.  The native extension n has methods, an enum and a    *)
(* class C with the names that q's have; p's class C needs a method that p   *)
(* lacks, and n's class D has a static method with a read-only name.         *)
EXTENDS PluginImports, TLC

CONSTANTS p, q, n, f, g

MCExports == [x \in {p, q} |-> IF x = p THEN <<f, f>> ELSE <<f, g>>]
MCHooks == [x \in {p, q} |-> IF x = p THEN HookNames ELSE {"pluginUpdate"}]
MCMethods == [x \in {p, q, n} |-> IF x = p THEN <<"run", "stop">> ELSE <<"make", "run">>]
MCEnums == [x \in {p, q, n} |-> IF x = p THEN {} ELSE {"Mode"}]
C == [name |-> "C", uses |-> {"make", "run"}, readonly |-> FALSE]
D == [name |-> "D", uses |-> {"make"}, readonly |-> TRUE]
MCClasses == [x \in {p, q, n} |-> CASE x = p -> {C} [] x = q -> {C} [] x = n -> {C, D}]

\* The JIT may place code anywhere.
MCSymmetry == Permutations(JitSpace)
=============================================================================
