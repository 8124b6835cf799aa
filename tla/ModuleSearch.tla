---------------------------- MODULE ModuleSearch ----------------------------
(***************************************************************************)
(* ModuleLoader::Search (src/module_loader.cpp): the file that a request   *)
(* made from a directory names.                                            *)
(*                                                                         *)
(* A path is a sequence of parts, the root directory "/" among them, with  *)
(* the extension of a file as a part of its own: "/p/a.js" is              *)
(* <<"/", "p", "a", ".js">>.  A request is its parts and its extension     *)
(* (<<>>, <<".js">>, <<".mjs">>, <<".cjs">> or <<".json">>).               *)
(***************************************************************************)
EXTENDS Naturals, Sequences, SequencesExt

CONSTANTS
    Tree,         \* what exists, files and directories: normal absolute paths
    Cwd,          \* the working directory of the process
    LibPath,      \* _libPath
    PluginDirs,   \* the directories below _pluginsPath, as the iterator lists them
    NotFound

ASSUME SearchConstants ==
    /\ NotFound \notin Tree
    /\ LibPath \in Seq(STRING) /\ Cwd \in Seq(STRING)
    /\ PluginDirs \in Seq(Seq(STRING))

\* path::lexically_normal, one part after the other.
NormalStep(done, part) ==
    IF part = "." THEN done
    ELSE IF part # ".." \/ done = <<>> \/ Last(done) = ".." THEN Append(done, part)
    ELSE IF Last(done) = "/" THEN done
    ELSE Front(done)

Normal(path) ==
    LET done[k \in 0 .. Len(path)] ==
          IF k = 0 THEN <<>> ELSE NormalStep(done[k - 1], path[k])
    IN  done[Len(path)]

\* An absolute path; the others are relative to the working directory.
Rooted(path) == path # <<>> /\ Head(path) = "/"
FromCwd(path) == IF Rooted(path) THEN path ELSE Cwd \o path

\* The file that a path means to the system, whatever way it is written.
Full(path) == Normal(FromCwd(path))

\* fs::path's operator/: what is absolute replaces the directory.
Join(dir, name) == IF Rooted(name) THEN name ELSE dir \o name

\* fs::exists of the path as it was put together (on POSIX systems what ".."
\* leaves has to exist too), which a directory satisfies as well.
Exists(path) ==
    LET full == FromCwd(path)
    IN  /\ Normal(full) \in Tree
        /\ \A i \in DOMAIN full : full[i] = ".." => Normal(SubSeq(full, 1, i - 1)) \in Tree

\* Endings that SearchModuleInDir tries, in order: the request itself if it
\* has one of the extensions, then with more.
Endings(req) ==
    (IF req.ext = <<>> THEN <<>> ELSE <<req.ext>>)
      \o <<req.ext \o <<".js">>, req.ext \o <<".mjs">>, req.ext \o <<".cjs">>,
           req.ext \o <<"package", ".json">>, req.ext \o <<"index", ".js">>>>

\* CheckExists: the path in its normal form, if it exists.  One that is
\* relative to the working directory stays relative.
CheckExists(path) == IF Exists(path) THEN Normal(path) ELSE NotFound

\* The first of several searches that finds a file.
FirstFound(found) ==
    LET hits == {k \in DOMAIN found : found[k] # NotFound}
    IN  IF hits = {} THEN NotFound ELSE found[Min(hits)]

\* In dir, then in its node_modules.
SearchModuleWithExtInDir(dir, name) ==
    FirstFound(<<CheckExists(Join(dir, name)),
                 IF dir # <<>> /\ Last(dir) = "node_modules" THEN NotFound
                 ELSE CheckExists(Join(dir \o <<"node_modules">>, name))>>)

SearchModuleInDir(dir, req) ==
    FirstFound([i \in DOMAIN Endings(req) |->
                   SearchModuleWithExtInDir(dir, req.parts \o Endings(req)[i])])

\* The directories above dir and dir itself, the highest first: the first part
\* of the path is passed over, so are directories called node_modules.  Only
\* requests with a slash and without .js or .mjs are looked for there.
SearchAbove(dir, req) ==
    IF dir # <<>> /\ Len(req.parts) > 1 /\ req.ext \notin {<<".js">>, <<".mjs">>}
    THEN FirstFound([k \in 2 .. Len(dir) |->
                        IF dir[k] = "node_modules" THEN NotFound
                        ELSE SearchModuleInDir(SubSeq(dir, 1, k), req)])
    ELSE NotFound

SearchPlugins(req) ==
    FirstFound([i \in DOMAIN PluginDirs |-> SearchModuleInDir(PluginDirs[i], req)])

\* Mutant: the plugins' directories come first.
PluginsFirst(dir, req) ==
    FirstFound(<<SearchPlugins(req), SearchModuleInDir(dir, req), SearchModuleInDir(LibPath, req)>>)

Search(dir, req) ==
    FirstFound(<<SearchModuleInDir(dir, req), SearchAbove(dir, req),
                 SearchModuleInDir(LibPath, req), SearchPlugins(req)>>)
=============================================================================
