------------------------------ MODULE MCReplica -----------------------------
(* Instances of Replica for TLC.                                            *)
EXTENDS Replica, TLC

MCPaths == {<<"a">>, <<"k">>, <<"d">>, <<"d", "x">>, <<".env">>, <<".env", "x">>, <<"out">>}
MCRank == (".env" :> 1) @@ (".git" :> 2) @@ ("a" :> 3) @@ ("config" :> 4) @@ ("d" :> 5)
            @@ ("h" :> 6) @@ ("k" :> 7) @@ ("out" :> 8) @@ ("s" :> 9) @@ ("x" :> 10)

Root == <<>> :> Dir
MCHost == Root @@ (<<"h">> :> Dir) @@ (<<"h", "x">> :> File(Outside, 3))
            @@ (<<"s">> :> File(Outside, 3))
ToFile == [tree |-> "host", path |-> <<"s">>]
ToDir == [tree |-> "host", path |-> <<"h">>]
ToOwnDir == [tree |-> "own", path |-> <<"out">>]
ToOwnFile == [tree |-> "own", path |-> <<"d", "x">>]
MCTargets == {ToFile, ToDir, ToOwnFile}

(* The workspace has the link k, and d is a directory or a link to one.     *)
Workspace(env, out, d) ==
  Root @@ (<<"a">> :> File("old", 0)) @@ (<<".env">> :> env) @@ (<<"out">> :> out)
    @@ (<<"k">> :> Link(ToFile)) @@ d
    @@ (<<".git">> :> Dir) @@ (<<".git", "config">> :> File("old", 0))
RealDir == (<<"d">> :> Dir) @@ (<<"d", "x">> :> File("old", 0))
MCWorkspaces ==
  {Workspace(node, node, RealDir) : node \in {Dir, File("old", 0)}}
    \cup {Workspace(Dir, Dir, <<"d">> :> Link(to)) : to \in {ToDir, ToOwnDir}}

MCIgnored == {[path |-> <<"out">>, dirOnly |-> TRUE]}
MCRoots == {<<>>, <<"a">>, <<"k">>}

=============================================================================
