---------------------------- MODULE MCMcpInstall ----------------------------
(* Instances of McpInstall for TLC.                                         *)
EXTENDS McpInstall, TLC

CONSTANTS r1, r2

Cmd(command, args) == [command |-> command, args |-> args]
Entry(name, c, other) == [name |-> name, command |-> c.command, args |-> c.args, other |-> other]

(* One server has a separator among its own arguments, the other one calls  *)
(* clawcrate without one.                                                   *)
Plain == Cmd("npx", <<"srv", "--", "x">>)
Given == Cmd("uvx", <<>>)
NoInner == Cmd("/bin/clawcrate", <<"mcp", "wrap">>)
ByHand == Cmd("/bin/clawcrate", <<"mcp", "wrap", "--", "npx", "srv", "--", "x">>)

MCMine == ("a" :> {Plain, Given}) @@ ("b" :> {NoInner, Cmd("node", <<"b">>)})

MCConfigs ==
  { Missing, Malformed, Whole(<<>>),
    Whole(<<Entry("a", Plain, 0), Entry("b", Cmd("node", <<"b">>), 0)>>),
    Whole(<<Entry("b", NoInner, 0), Entry("a", ByHand, 0)>>),
    Whole(<<Entry("a", Plain, 0), Entry("a", Given, 0)>>),
    Whole(<<Entry("b", Nobody, 0)>>) }

Install(name, profile, dryRun, c) ==
  [op |-> "install", name |-> name, profile |-> profile, dryRun |-> dryRun, command |-> c]
Uninstall(name, dryRun) ==
  [op |-> "uninstall", name |-> name, profile |-> NoProfile, dryRun |-> dryRun, command |-> Nobody]

MCRequests ==
  { Install("a", NoProfile, FALSE, Nobody), Install("a", "readonly", FALSE, Given),
    Install("a", NoProfile, TRUE, Nobody), Install("b", "readonly", FALSE, Nobody),
    Uninstall("a", FALSE), Uninstall("b", FALSE), Uninstall("a", TRUE) }

MCRuns == {r1, r2}
MCSymmetry == Permutations(MCRuns)

=============================================================================
