-------------------------- MODULE MCSandboxedLaunch -------------------------
(* Instances of SandboxedLaunch for TLC.  Three families of disks share one  *)
(* run: files that extend each other and the built-in profiles in every way, *)
(* read from a profile that grants little; one file with every pair of       *)
(* patterns of up to three characters; one file whose paths come and go.     *)
EXTENDS SandboxedLaunch, TLC

MCWorkDir == <<"/", "w">>
MCProfilesDir == <<"/", "p">>
MCCopyDir == <<"/", "t">>
MCHomeDir == <<"/", "h">>
MCExtension == ("a.yaml" :> "yaml") @@ ("safe.yaml" :> "yaml") @@ ("b.yaml" :> "yaml") @@ ("c.yml" :> "yml")

MCDotted == {".", ".."}

MCNormal ==
  ("none" :> "none") @@ ("Open" :> "open") @@ ("filtered" :> "filtered") @@ ("fast" :> "fast")
    @@ ("Replica" :> "replica") @@ ("direct" :> "direct")
    @@ (" " :> "") @@ ("Api.test" :> "api.test")

Profile(extends, own) == [kind |-> "profile", extends |-> extends, own |-> own]
Filtered(object, domains) == [object |-> object, mode |-> "filtered", domains |-> domains]
Mode(m) == [object |-> FALSE, mode |-> m, domains |-> {}]

A == <<"/", "w", "a.yaml">>
B == <<"/", "w", "b.yaml">>
C == <<"/", "p", "community", "c.yml">>
CB == <<"/", "p", "community", "b.yaml">>

MCBuiltins ==
  ("safe" :> Profile(<<>>, [mode |-> "direct", scrub |-> {<<"A", "*">>}, write |-> {}]))
    @@ ("build" :> Profile(<<>>, [mode |-> "direct", network |-> Mode("none"), write |-> {<<".", "out">>}]))
    @@ ("install" :> Profile(<<"build">>, [mode |-> "Replica", network |-> Mode("Open"), files |-> 9]))

(* The chains; some spellings are longer than a path may be, and a file     *)
(* lies where the file of a built-in profile would.                         *)
Safe == <<"/", "p", "safe.yaml">>
Dots == [i \in 1 .. 9 |-> "."]
Refs == {<<>>, <<"b.yaml">>, <<".", "a.yaml">>, <<"..", "w", "b.yaml">>, <<"..", "w", "a.yaml">>,
         <<"/", "w", "b.yaml">>, <<"install">>, <<"stranger">>, <<"gone", "..", "b.yaml">>}
Owns == {<<>>, [mode |-> "Replica", name |-> "mine"],
         [mode |-> "fast", network |-> Mode("Open")],
         [network |-> Filtered(TRUE, {" ", "Api.test"}), files |-> 7],
         [network |-> Filtered(TRUE, {" "})],
         [network |-> Filtered(FALSE, {}), write |-> {<<"out">>}]}

ChainDisks ==
  {(A :> Profile(r, o)) @@ (B :> Profile(q, [network |-> Mode("none"), files |-> 5]))
     : r \in Refs, o \in {<<>>, [mode |-> "Replica", name |-> "mine"]}, q \in Refs}
  \cup {(A :> Profile(r, o)) @@ (B :> Profile(<<"safe">>, [network |-> Mode("Open"), files |-> 5]))
          : r \in {<<>>, <<"b.yaml">>}, o \in Owns}
  \cup {(B :> [kind |-> k]) @@ (A :> Profile(<<"b.yaml">>, <<>>)) @@ (<<"/", "w", "build">> :> [kind |-> "directory"])
          : k \in {"malformed", "directory"}}
  \cup {(A :> Profile(r, <<>>)) @@ (B :> Profile(<<>>, <<>>)) @@ (Safe :> Profile(<<"safe">>, <<>>))
          : r \in {<<"..", "p", "safe.yaml">>, Safe, Dots \o <<"b.yaml">>, <<"b.yaml", "..", "b.yaml">>, <<"..">>}}

Entry(id, kebab, path) == [id |-> id, kebab |-> kebab, path |-> path]
CatalogFile(version, entries) == [kind |-> "catalog", version |-> version, entries |-> entries]
CatalogDisks ==
  {(<<"/", "p", "community", "catalog.yaml">> :> c) @@ (CB :> Profile(<<"..", "community", "c.yml">>, <<>>))
     @@ (C :> Profile(<<"safe">>, [name |-> "c"])) @@ (<<"/", "w", m>> :> [kind |-> "malformed"])
       : m \in {"Cargo.toml", "package.json", "pyproject.toml"},
         c \in {[kind |-> "malformed"], CatalogFile(2, <<>>), CatalogFile(1, <<>>),
                CatalogFile(1, <<Entry("mine", TRUE, <<".", "b.yaml">>), Entry("mine", TRUE, <<"c.yml">>)>>),
                CatalogFile(1, <<Entry("mine", FALSE, <<"b.yaml">>)>>),
                CatalogFile(1, <<Entry("mine", TRUE, <<"c.yml">>)>>),
                CatalogFile(1, <<Entry("mine", TRUE, <<"..", "b.yaml">>)>>),
                CatalogFile(1, <<Entry("mine", TRUE, B)>>)}}

(* The patterns *)
Patterns == UNION {[1 .. n -> {"A", "B", "*"}] : n \in 0 .. 3}
ScrubDisks ==
  {(A :> Profile(<<>>, [scrub |-> {p, <<"B">>}, passthrough |-> {q}, network |-> Filtered(TRUE, {"Api.test"})]))
     : p \in Patterns, q \in {<<>>, <<"A", "*", "B">>, <<"*">>}}

(* The paths *)
PathDisks ==
  {(A :> Profile(<<>>, [read |-> r, write |-> w, network |-> Mode("none"), files |-> n, mode |-> "direct"]))
     : n \in {16}, r \in {{<<"etc">>, <<"~", "c">>}, {<<".">>, <<"..", "h", "c">>}},
       w \in {{<<".", "out", "x">>}, {<<"out">>, <<"/", "w", "log">>}, {<<"out", "..", "log">>}, {<<"~", "c", "x">>}}}

MCAbiVersions == {1, 3}
MCDisks == ChainDisks \cup CatalogDisks \cup ScrubDisks \cup PathDisks
MCAsks == {<<>>, <<"a.yaml">>, <<"build">>, <<"mine">>}

Letters == UNION {[1 .. n -> {"A", "B"}] : n \in 1 .. 3}
MCHomeName == <<"H">>
MCEnvironments == {Letters \cup {MCHomeName, <<"*", "A">>}}
MCInternal == {<<"B", "B", "B">>}
MCProxyVars == {<<"A", "P">>}

(* On one disk the workspace has a link to the home directory; files and    *)
(* links come and go, one of which leads to itself.                         *)
MCTree ==
  (<<"/">> :> Dir) @@ (<<"/", "w">> :> Dir) @@ (<<"/", "t">> :> Dir) @@ (<<"/", "h">> :> Dir)
    @@ (<<"/", "w", "log">> :> File) @@ (<<"/", "w", "out">> :> Dir) @@ (<<"/", "lib">> :> Dir)
MCTrees == {MCTree, (<<"/", "w", "out">> :> Link(<<"..", "h">>)) @@ MCTree}
MCAppearing ==
  (<<"/", "h", "c">> :> {Dir, Link(<<"/", "w">>)})
    @@ (<<"/", "w", "out">> :> {File, Link(<<"/", "h">>)})
    @@ (<<"/", "w", "out", "x">> :> {Link(<<"/", "w", "out", "x">>)})
MCSystemPaths == {<<"/", "lib">>, <<"/", "lib64">>}

(* What is asked, the flags and the changes go with the disk.               *)
MCInit ==
  /\ Init
  /\ disk \in ScrubDisks \cup PathDisks => asked = <<"a.yaml">>
  /\ disk \in CatalogDisks => asked \in {<<>>, <<"mine">>}
  /\ disk \in ChainDisks /\ asked # <<"a.yaml">> => disk[A].extends = <<>>
  /\ disk \in ScrubDisks \cup PathDisks => flag = "none"
  /\ IF disk \in PathDisks THEN changes = MaxChanges ELSE changes = 0 /\ tree = MCTree

MCSpec == MCInit /\ [][Next]_vars /\ WF_vars(Progress)

=============================================================================
