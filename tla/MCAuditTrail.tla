---------------------------- MODULE MCAuditTrail ----------------------------
(* Instance of AuditTrail for TLC: an ordinary event, a refused       *)
(* operation (terminal, and the run goes on) and the exit of the process.    *)
EXTENDS AuditTrail

CONSTANTS Started, Blocked, Exited

MCEvents == {Started, Blocked, Exited}
MCTerminal == {Blocked, Exited}
MCFinal == {Exited}
MCAllModes == {"plain", "chain", "sign"}
MCSignOnly == {"sign"}

=============================================================================
