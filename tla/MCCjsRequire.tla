---------------------------- MODULE MCCjsRequire ----------------------------
(* Small instance of CjsRequire for TLC: two plugins with a dependency of   *)
(* one name each.  p's a.js and its dependency require each other, a.js     *)
(* under three names, one of them absolute; q's b.js requires the           *)
(* dependency of q.  The process runs in q's directory, where the embedder  *)
(* finds b.js and d under relative paths and p's a.js finds b.js under an   *)
(* absolute one.                                                            *)
EXTENDS CjsRequire

MCP == <<"/", "p">>
MCQ == <<"/", "q">>
MCPlugins == <<MCP, MCQ>>
MCLib == <<"/", "lib">>
MCCwd == MCQ

A == MCP \o <<"a", ".js">>
DP == MCP \o <<"node_modules", "d", "index", ".js">>
B == MCQ \o <<"b", ".js">>
DQ == MCQ \o <<"node_modules", "d", "index", ".js">>
MCDirs == {<<"/">>, MCLib} \union UNION {{dir, dir \o <<"node_modules">>, dir \o <<"node_modules", "d">>} : dir \in {MCP, MCQ}}
MCTree == {A, DP, B, DQ} \union MCDirs

MCRequireDirs == {<<>>, <<"node_modules", "d">>} \union {DirOf(f) : f \in MCTree}

Name(parts, ext) == [parts |-> parts, ext |-> ext]
a == Name(<<"a">>, <<>>)
b == Name(<<"b">>, <<>>)
d == Name(<<"d">>, <<>>)
dotA == Name(<<".", "a">>, <<".js">>)
upA == Name(<<"..", "..", "a">>, <<>>)
absA == Name(<<"/", "p", "a">>, <<>>)
upD == Name(<<"node_modules", "..", "node_modules", "d">>, <<>>)

MCNames == {a, b, d, upA, absA, upD, dotA}
MCDeps == [f \in Files |-> CASE Full(f) = A -> {b, d, dotA} [] Full(f) = DP -> {upA, absA} [] Full(f) = B -> {d, upD} [] OTHER -> {}]
MCRootDeps == {a, b, d}
=============================================================================
