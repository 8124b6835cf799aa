------------------------- MODULE MCPluginLifecycle -------------------------
\* Two plugins that share one exported function; `p' exports it twice and
\* defines every hook, `q' exports a function of its own too and defines
\* pluginUpdate alone.
EXTENDS PluginLifecycle, TLC

CONSTANTS p, q, f, g

MCExports == [x \in {p, q} |-> IF x = p THEN <<f, f>> ELSE <<f, g>>]
MCHooks == [x \in {p, q} |-> IF x = p THEN HookNames ELSE {"pluginUpdate"}]

\* The JIT may place code anywhere.
MCSymmetry == Permutations(JitSpace)
=============================================================================
