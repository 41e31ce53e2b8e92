----------------------------- MODULE EgressProxy ----------------------------
(***************************************************************************)
(* The filtering proxy of crates/clawcrate-sandbox/src/egress_proxy.rs:    *)
(* the thread that accepts connections, one thread per connection, the     *)
(* bounded log of refusals, and the run that drains the log and drops the  *)
(* proxy (launch_and_capture in crates/clawcrate-cli/src/run.rs).  Around  *)
(* it: the clients inside the sandbox and the servers they ask for.        *)
(*                                                                         *)
(* Handler threads are detached: dropping the proxy joins the accepting    *)
(* thread and nothing else.  A host is the sequence of its labels as       *)
(* normalize_host leaves them; a spelling of it may carry a final dot.     *)
(***************************************************************************)
EXTENDS Naturals, FiniteSets, Sequences

CONSTANTS
  Conns,        (* the connections the clients make                          *)
  Requests,     (* per connection: what it may ask for, see IsRequest        *)
  Labels,       (* what a host name is made of                               *)
  Rules,        (* allowed_domains: "*.name" or name                         *)
  Addresses,    (* the hosts that parse as an IP address                     *)
  NoSni,        (* no server name can be read from the first bytes           *)
  EnforceSni,   (* enforce_sni of the configuration                          *)
  Limits,       (* max_active_handlers, as configured                        *)
  MaxDenials    (* MAX_RECORDED_DENIALS                                      *)

(* form: how far the request is well formed; tls: the port asked for is 443. *)
IsRequest(r) ==
  /\ r.form \in {"connect", "malformed", "method", "headers"}
  /\ r.tls \in BOOLEAN
  /\ r.host.labels \in Seq(Labels)
  /\ r.sni # NoSni => r.sni.labels \in Seq(Labels)

ASSUME ProxyAssumption ==
  /\ IsFiniteSet(Conns)
  /\ Limits \subseteq Nat /\ MaxDenials \in Nat
  /\ EnforceSni \in BOOLEAN
  /\ Rules \subseteq [wild : BOOLEAN, name : Seq(Labels)]
  /\ \A r \in Rules : r.name # <<>>
  /\ \A c \in Conns : \A r \in Requests[c] : IsRequest(r)

VARIABLES
  main,      (* the run: child, exited, drained, stopping, joined            *)
  shutdown,  (* the flag of the handle                                       *)
  acceptor,  (* the accepting thread: check, accept, ended                   *)
  limit,     (* the number of handlers it admits                             *)
  slots,     (* active_handlers                                              *)
  log,       (* the denials recorded and not drained                         *)
  dropped,   (* the denials counted and not stored                           *)
  report,    (* what drain_denials returned, and when                        *)
  conn,      (* per connection: where it or its handler is                   *)
  request,   (* per connection: what it asks for                             *)
  sent,      (* per connection: how much the client has sent                 *)
  open,      (* the connections that neither the client nor the proxy closed *)
  upstream,  (* the tunnels whose server side is open                        *)
  answer     (* per connection: the answer the handler wrote, or its refusal *)

runVars == <<main, shutdown, report, limit>>
logVars == <<log, dropped>>
clientVars == <<request, sent, open>>
vars == <<runVars, acceptor, slots, logVars, conn, clientVars, upstream, answer>>

Serving == {"spawned", "decide", "refuse_domain", "refuse_sni", "connect",
            "sni", "tunnel", "ending"}
Busy == {c \in Conns : conn[c] \in Serving}

Entries == [conn : Conns, reason : {"domain", "sni"}]

TypeOK ==
  /\ main \in {"child", "exited", "drained", "stopping", "joined"}
  /\ shutdown \in BOOLEAN
  /\ acceptor \in {"check", "accept", "ended"}
  /\ limit \in Nat \ {0} /\ slots \in 0 .. limit
  /\ log \in Seq(Entries) /\ Len(log) <= MaxDenials
  /\ dropped \in Nat
  /\ report \in [log : Seq(Entries), dropped : Nat, told : SUBSET Conns]
  /\ conn \in [Conns -> Serving \cup {"none", "pending", "done", "reset"}]
  /\ DOMAIN request = Conns /\ \A c \in Conns : request[c] \in Requests[c]
  /\ sent \in [Conns -> {"nothing", "request", "part", "hello"}]
  /\ open \subseteq Conns /\ upstream \subseteq Conns
  /\ answer \in [Conns -> {"none", "400", "405", "431", "502", "503", "200",
                           "403", "sni", "closed"}]

Init ==
  /\ main = "child" /\ shutdown = FALSE /\ acceptor = "check"
  /\ limit \in {IF n = 0 THEN 1 ELSE n : n \in Limits}
  /\ slots = 0 /\ log = <<>> /\ dropped = 0
  /\ report = [log |-> <<>>, dropped |-> 0, told |-> {}]
  /\ conn = [c \in Conns |-> "none"]
  /\ request \in {f \in [Conns -> UNION {Requests[c] : c \in Conns}] :
                      \A c \in Conns : f[c] \in Requests[c]}
  /\ sent = [c \in Conns |-> "nothing"]
  /\ open = {} /\ upstream = {}
  /\ answer = [c \in Conns |-> "none"]

-----------------------------------------------------------------------------
(* Hosts                                                                     *)

NormalizeHost(spelling) == spelling.labels

(* An address must be listed as such; a rule "*.name" stands for the hosts   *)
(* below the name and not for the name itself.                               *)
IsHostAllowed(spelling) ==
  LET host == NormalizeHost(spelling) IN
  /\ host # <<>>
  /\ \E r \in Rules :
       IF r.wild /\ host \notin Addresses
       THEN /\ Len(host) > Len(r.name)
            /\ SubSeq(host, Len(host) - Len(r.name) + 1, Len(host)) = r.name
       ELSE ~r.wild /\ host = r.name

HostnamesMatch(expected, observed) == NormalizeHost(expected) = NormalizeHost(observed)

-----------------------------------------------------------------------------
(* The clients and servers                                                   *)

Open(c) ==
  /\ conn[c] = "none" /\ acceptor # "ended"
  /\ conn' = [conn EXCEPT ![c] = "pending"]
  /\ open' = open \cup {c}
  /\ UNCHANGED <<runVars, acceptor, slots, logVars, request, sent, upstream, answer>>

(* A client may send the first bytes of TLS without waiting for the answer,  *)
(* and they may arrive in pieces.                                            *)
Send(c) ==
  /\ c \in open /\ conn[c] \in Serving \cup {"pending"}
  /\ \/ sent[c] = "nothing" /\ sent' = [sent EXCEPT ![c] = "request"]
     \/ /\ sent[c] = "request" /\ request[c].sni # NoSni
        /\ sent' = [sent EXCEPT ![c] = "part"]
     \/ sent[c] = "part" /\ sent' = [sent EXCEPT ![c] = "hello"]
  /\ UNCHANGED <<runVars, acceptor, slots, logVars, conn, request, open, upstream, answer>>

Close(c) ==
  /\ c \in open
  /\ open' = open \ {c}
  /\ UNCHANGED <<runVars, acceptor, slots, logVars, conn, request, sent, upstream, answer>>

UpstreamCloses(c) ==
  /\ c \in upstream /\ conn[c] = "tunnel"
  /\ upstream' = upstream \ {c}
  /\ UNCHANGED <<runVars, acceptor, slots, logVars, conn, clientVars, answer>>

-----------------------------------------------------------------------------
(* The accepting thread                                                      *)

(* When the thread ends its listener is closed, and with it whatever waited  *)
(* to be accepted.                                                           *)
CheckShutdown ==
  /\ acceptor = "check"
  /\ IF shutdown
     THEN /\ acceptor' = "ended"
          /\ conn' = [c \in Conns |-> IF conn[c] = "pending" THEN "reset" ELSE conn[c]]
          /\ open' = {c \in open : conn[c] # "pending"}
     ELSE acceptor' = "accept" /\ UNCHANGED <<conn, open>>
  /\ UNCHANGED <<runVars, slots, logVars, request, sent, upstream, answer>>

AcceptNothing ==
  /\ acceptor = "accept"
  /\ \A c \in Conns : conn[c] # "pending"
  /\ acceptor' = "check"
  /\ UNCHANGED <<runVars, slots, logVars, conn, clientVars, upstream, answer>>

TryAcquireHandlerSlot == slots < limit /\ slots' = slots + 1

Accept(c) ==
  /\ acceptor = "accept" /\ conn[c] = "pending"
  /\ acceptor' = "check"
  /\ TryAcquireHandlerSlot
  /\ conn' = [conn EXCEPT ![c] = "spawned"]
  /\ UNCHANGED <<runVars, logVars, clientVars, upstream, answer>>

Reject(c) ==
  /\ acceptor = "accept" /\ conn[c] = "pending"
  /\ acceptor' = "check"
  /\ ~ (slots < limit)
  /\ conn' = [conn EXCEPT ![c] = "done"]
  /\ answer' = [answer EXCEPT ![c] = "503"]
  /\ open' = open \ {c}
  /\ UNCHANGED <<runVars, slots, logVars, request, sent, upstream>>

-----------------------------------------------------------------------------
(* A handler                                                                 *)

(* A faulty variant: only a handler that answered gives its slot back.       *)
FinishAnswered(c) ==
  /\ conn[c] = "ending"
  /\ conn' = [conn EXCEPT ![c] = "done"]
  /\ slots' = IF answer[c] = "none" THEN slots ELSE slots - 1
  /\ open' = open \ {c}
  /\ UNCHANGED <<runVars, acceptor, logVars, request, sent, upstream, answer>>

(* The slot is given back when the thread ends, on whatever path.            *)
Finish(c) ==
  /\ conn[c] = "ending"
  /\ conn' = [conn EXCEPT ![c] = "done"]
  /\ slots' = slots - 1
  /\ open' = open \ {c}
  /\ UNCHANGED <<runVars, acceptor, logVars, request, sent, upstream, answer>>

Go(c, where) == conn' = [conn EXCEPT ![c] = where]

Respond(c, status) == answer' = [answer EXCEPT ![c] = status]

(* A faulty variant: the end of the input is taken for a line yet to come.   *)
HungUpRetried(c) ==
  /\ conn[c] = "spawned" /\ c \notin open /\ sent[c] = "nothing"
  /\ UNCHANGED vars

(* The client hung up before its request was complete.                       *)
HungUp(c) ==
  /\ conn[c] = "spawned" /\ c \notin open /\ sent[c] = "nothing"
  /\ Go(c, "ending")
  /\ UNCHANGED <<runVars, acceptor, slots, logVars, clientVars, upstream, answer>>

(* The request line and the headers.                                         *)
ReadRequest(c) ==
  /\ conn[c] = "spawned" /\ sent[c] # "nothing"
  /\ \/ request[c].form = "connect" /\ Go(c, "decide") /\ UNCHANGED answer
     \/ request[c].form = "malformed" /\ Go(c, "ending") /\ Respond(c, "400")
     \/ request[c].form = "method" /\ Go(c, "ending") /\ Respond(c, "405")
     \/ request[c].form = "headers" /\ Go(c, "ending") /\ Respond(c, "431")
  /\ UNCHANGED <<runVars, acceptor, slots, logVars, clientVars, upstream>>

(* A faulty variant: a full log is left as it is.                            *)
RecordUncounted(c, why) ==
  IF Len(log) >= MaxDenials
  THEN UNCHANGED <<log, dropped>>
  ELSE /\ log' = Append(log, [conn |-> c, reason |-> why])
       /\ UNCHANGED dropped

(* The first denials are kept, the further ones are counted.                 *)
Record(c, why) ==
  IF Len(log) >= MaxDenials
  THEN dropped' = dropped + 1 /\ UNCHANGED log
  ELSE /\ log' = Append(log, [conn |-> c, reason |-> why])
       /\ UNCHANGED dropped

Decide(c) ==
  /\ conn[c] = "decide"
  /\ IF IsHostAllowed(request[c].host)
     THEN Go(c, "connect") /\ UNCHANGED logVars
     ELSE Go(c, "refuse_domain") /\ Record(c, "domain")
  /\ UNCHANGED <<runVars, acceptor, slots, clientVars, upstream, answer>>

(* The refusal reaches the client: 403, or both sockets shut down.           *)
Refuse(c) ==
  /\ \/ conn[c] = "refuse_domain" /\ Respond(c, "403")
     \/ conn[c] = "refuse_sni" /\ Respond(c, "sni")
  /\ Go(c, "ending")
  /\ UNCHANGED <<runVars, acceptor, slots, logVars, clientVars, upstream>>

ConnectFails(c) ==
  /\ conn[c] = "connect"
  /\ Respond(c, "502")
  /\ Go(c, "ending")
  /\ UNCHANGED <<runVars, acceptor, slots, logVars, clientVars, upstream>>

Tunnel(c) == Go(c, "tunnel") /\ upstream' = upstream \cup {c}

(* The client may be gone when it is told that the connection stands.        *)
Connect(c) ==
  /\ conn[c] = "connect"
  /\ Respond(c, "200")
  /\ \/ EnforceSni /\ request[c].tls /\ Go(c, "sni") /\ UNCHANGED upstream
     \/ ~ (EnforceSni /\ request[c].tls) /\ Tunnel(c)
     \/ c \notin open /\ Go(c, "ending") /\ UNCHANGED upstream
  /\ UNCHANGED <<runVars, acceptor, slots, logVars, clientVars>>

(* extract_sni_from_client_hello finds a name only in a whole ClientHello.   *)
SniReadable(c) == sent[c] = "hello"

(* No name can be read from what arrived within 250 ms.                      *)
SniMissing(c) ==
  /\ conn[c] = "sni" /\ ~SniReadable(c)
  /\ Respond(c, "closed")
  /\ Go(c, "ending")
  /\ UNCHANGED <<runVars, acceptor, slots, logVars, clientVars, upstream>>

(* A faulty variant: any allowed name will do.                               *)
CheckSniAllowedOnly(c) ==
  /\ conn[c] = "sni" /\ SniReadable(c)
  /\ IF IsHostAllowed(request[c].sni)
     THEN Tunnel(c) /\ UNCHANGED logVars
     ELSE Go(c, "refuse_sni") /\ Record(c, "sni") /\ UNCHANGED upstream
  /\ UNCHANGED <<runVars, acceptor, slots, clientVars, answer>>

CheckSni(c) ==
  /\ conn[c] = "sni" /\ SniReadable(c)
  /\ IF /\ HostnamesMatch(request[c].host, request[c].sni)
        /\ IsHostAllowed(request[c].sni)
     THEN Tunnel(c) /\ UNCHANGED logVars
     ELSE Go(c, "refuse_sni") /\ Record(c, "sni") /\ UNCHANGED upstream
  /\ UNCHANGED <<runVars, acceptor, slots, clientVars, answer>>

(* Each direction ends when its source is at its end or its target is gone:  *)
(* with one side closed the other direction may go on.                       *)
TunnelEnds(c) ==
  /\ conn[c] = "tunnel"
  /\ c \notin open \/ c \notin upstream
  /\ upstream' = upstream \ {c}
  /\ Go(c, "ending")
  /\ UNCHANGED <<runVars, acceptor, slots, logVars, clientVars, answer>>

Handle(c) ==
  \/ HungUp(c) \/ ReadRequest(c) \/ Decide(c) \/ Refuse(c)
  \/ ConnectFails(c) \/ Connect(c) \/ SniMissing(c) \/ CheckSni(c)
  \/ TunnelEnds(c) \/ Finish(c)

-----------------------------------------------------------------------------
(* The run                                                                   *)

(* run_monitored_child returns.  Descendants of the child and the handlers   *)
(* that have read their requests go on.                                      *)
ChildExits ==
  /\ main = "child"
  /\ main' = "exited"
  /\ UNCHANGED <<shutdown, report, limit, acceptor, slots, logVars, conn, clientVars, upstream, answer>>

Refused == {c \in Conns : answer[c] \in {"403", "sni"}}

(* A faulty variant: the records stay in the log.                            *)
DrainCopies ==
  /\ main = "exited"
  /\ main' = "drained"
  /\ report' = [log |-> log, dropped |-> dropped, told |-> Refused]
  /\ dropped' = 0
  /\ UNCHANGED <<shutdown, limit, acceptor, slots, log, conn, clientVars, upstream, answer>>

(* drain_denials.  told is a history variable: the refusals the clients knew *)
(* of at that time.                                                          *)
Drain ==
  /\ main = "exited"
  /\ main' = "drained"
  /\ report' = [log |-> log, dropped |-> dropped, told |-> Refused]
  /\ log' = <<>> /\ dropped' = 0
  /\ UNCHANGED <<shutdown, limit, acceptor, slots, conn, clientVars, upstream, answer>>

(* Dropping the handle: after the drain, or by an early return of the run.   *)
DropProxy ==
  /\ main \in {"child", "exited", "drained"}
  /\ main' = "stopping"
  /\ shutdown' = TRUE
  /\ UNCHANGED <<report, limit, acceptor, slots, logVars, conn, clientVars, upstream, answer>>

Join ==
  /\ main = "stopping" /\ acceptor = "ended"
  /\ main' = "joined"
  /\ UNCHANGED <<shutdown, report, limit, acceptor, slots, logVars, conn, clientVars, upstream, answer>>

-----------------------------------------------------------------------------

AcceptorStep ==
  CheckShutdown \/ AcceptNothing \/ \E c \in Conns : Accept(c) \/ Reject(c)

Next ==
  \/ \E c \in Conns : Open(c) \/ Send(c) \/ Close(c) \/ UpstreamCloses(c) \/ Handle(c)
  \/ AcceptorStep
  \/ ChildExits \/ Drain \/ DropProxy \/ Join

Spec == Init /\ [][Next]_vars

(* The threads are scheduled.  A connection attempt and a write to a socket  *)
(* end; a server that is told of the end of its client closes in turn, and a *)
(* tunnel whose two sides are closed ends.                                   *)
Fairness ==
  /\ WF_vars(AcceptorStep)
  /\ WF_vars(Join)
  /\ \A c \in Conns :
       /\ WF_vars(Handle(c) /\ conn[c] # "tunnel")
       /\ WF_vars(UpstreamCloses(c) /\ c \notin open)
       /\ WF_vars(TunnelEnds(c) /\ c \notin open /\ c \notin upstream)

FairSpec == Spec /\ Fairness

-----------------------------------------------------------------------------
(* Properties                                                                *)

(* The count of active_handlers is the number of handlers at work, on every  *)
(* path through handle_client_connection: no slot is lost, none counted      *)
(* twice, and never are more than max_active_handlers at work.               *)
SlotsAreHandlers ==
  /\ slots = Cardinality(Busy)
  /\ slots <= limit

(* What the profile lets a client reach, stated by itself: a listed host, or *)
(* a name that is a listed name with labels before it.                       *)
Reachable(host) ==
  \/ [wild |-> FALSE, name |-> host] \in Rules
  \/ /\ host \notin Addresses
     /\ \E k \in 1 .. Len(host) - 1 :
          [wild |-> TRUE, name |-> SubSeq(host, k + 1, Len(host))] \in Rules

(* Bytes are relayed only to a host the profile lets the client reach, and   *)
(* on port 443 only for a client that names this very host in its TLS hello. *)
TunnelsAreAllowed ==
  \A c \in Conns : conn[c] = "tunnel" =>
    /\ request[c].form = "connect"
    /\ Reachable(request[c].host.labels)
    /\ EnforceSni /\ request[c].tls =>
         sent[c] = "hello" /\ request[c].sni.labels = request[c].host.labels

Stored == report.log \o log

Recorded == {c \in Conns : conn[c] \in {"refuse_domain", "refuse_sni"}} \cup Refused

(* Every connection refused for its host or its TLS name is accounted for    *)
(* exactly once, stored or counted, in the log or in the drained report, and *)
(* no other connection is: the trail reports no denial that did not happen.  *)
DenialsAreExact ==
  /\ \A i \in DOMAIN Stored : Stored[i].conn \in Recorded
  /\ \A i, j \in DOMAIN Stored : Stored[i].conn = Stored[j].conn => i = j
  /\ Len(Stored) + report.dropped + dropped = Cardinality(Recorded)

(* A refusal that a client had been told of when the log was drained is in   *)
(* the report, or the report says that it is incomplete and holds as many    *)
(* denials as the log can: record comes before the answer.                   *)
ToldIsReported ==
  main = "drained" =>
    \/ report.told \subseteq {report.log[i].conn : i \in DOMAIN report.log}
    \/ report.dropped > 0 /\ Len(report.log) = MaxDenials

(* A connection whose client has gone gives its slot back.                   *)
GoneClientFreesSlot ==
  \A c \in Conns : (conn[c] \in Serving /\ c \notin open) ~> conn[c] \notin Serving

(* Dropping the proxy returns, whatever its handlers are doing.              *)
DropReturns == main = "stopping" ~> main = "joined"

(* Neither a slot nor the run is held for ever by a client.                  *)
HandlersLetGo == GoneClientFreesSlot /\ DropReturns

=============================================================================
