------------------------- MODULE EgressProxyProofs --------------------------
(***************************************************************************)
(* Proofs about EgressProxy for any number of connections, any rules and   *)
(* any limits: types, the count of handlers, and what a tunnel leads to.   *)
(***************************************************************************)
EXTENDS EgressProxy, FiniteSetTheorems, TLAPS

-----------------------------------------------------------------------------
(* Types                                                                     *)

LEMMA TypeInit == Init => TypeOK
<1>1. SUFFICES ASSUME Init  PROVE TypeOK
  OBVIOUS
<1>2. limit \in Nat \ {0} /\ slots \in 0 .. limit
  BY <1>1, ProxyAssumption DEF Init
<1>3. DOMAIN request = Conns /\ \A c \in Conns : request[c] \in Requests[c]
  BY <1>1 DEF Init
<1>4. <<>> \in Seq(Entries) /\ Len(<<>>) <= MaxDenials
  BY ProxyAssumption
<1>5. report \in [log : Seq(Entries), dropped : Nat, told : SUBSET Conns]
  BY <1>1, <1>4 DEF Init
<1>6. QED  BY <1>1, <1>2, <1>3, <1>4, <1>5 DEF Init, TypeOK

LEMMA RecordType ==
  ASSUME TypeOK, NEW c \in Conns, NEW why \in {"domain", "sni"}, Record(c, why)
  PROVE  log' \in Seq(Entries) /\ Len(log') <= MaxDenials /\ dropped' \in Nat
<1> DEFINE entry == [conn |-> c, reason |-> why]
<1>1. log \in Seq(Entries) /\ Len(log) \in Nat /\ Len(log) <= MaxDenials
      /\ dropped \in Nat /\ MaxDenials \in Nat /\ entry \in Entries
  BY ProxyAssumption DEF TypeOK, Entries
<1>2. CASE Len(log) >= MaxDenials
  BY <1>1, <1>2 DEF Record
<1>3. CASE ~ (Len(log) >= MaxDenials)
  <2>1. log' = Append(log, entry) /\ dropped' = dropped
    BY <1>3 DEF Record
  <2>2. Append(log, entry) \in Seq(Entries) /\ Len(Append(log, entry)) = Len(log) + 1
    BY <1>1
  <2>3. QED  BY <1>1, <1>3, <2>1, <2>2
<1>4. QED  BY <1>2, <1>3

LEMMA TypeClient ==
  ASSUME TypeOK, NEW c \in Conns, Open(c) \/ Send(c) \/ Close(c) \/ UpstreamCloses(c)
  PROVE  TypeOK'
<1>1. CASE Open(c)
  BY <1>1 DEF TypeOK, Open, runVars, logVars
<1>2. CASE Send(c)
  BY <1>2 DEF TypeOK, Send, runVars, logVars
<1>3. CASE Close(c)
  BY <1>3 DEF TypeOK, Close, runVars, logVars
<1>4. CASE UpstreamCloses(c)
  BY <1>4 DEF TypeOK, UpstreamCloses, runVars, logVars, clientVars
<1>5. QED  BY <1>1, <1>2, <1>3, <1>4

LEMMA TypeAcceptor ==
  ASSUME TypeOK, AcceptorStep
  PROVE  TypeOK'
<1>1. CASE CheckShutdown
  BY <1>1 DEF TypeOK, CheckShutdown, runVars, logVars
<1>2. CASE AcceptNothing
  BY <1>2 DEF TypeOK, AcceptNothing, runVars, logVars, clientVars
<1>3. ASSUME NEW c \in Conns, Accept(c)  PROVE TypeOK'
  BY <1>3 DEF TypeOK, Accept, TryAcquireHandlerSlot, Serving, runVars, logVars, clientVars
<1>4. ASSUME NEW c \in Conns, Reject(c)  PROVE TypeOK'
  BY <1>4 DEF TypeOK, Reject, runVars, logVars
<1>5. QED  BY <1>1, <1>2, <1>3, <1>4 DEF AcceptorStep

LEMMA TypeRun ==
  ASSUME TypeOK, ChildExits \/ Drain \/ DropProxy \/ Join
  PROVE  TypeOK'
<1>1. CASE ChildExits
  BY <1>1 DEF TypeOK, ChildExits, logVars, clientVars
<1>2. CASE Drain
  <2>1. Refused \in SUBSET Conns
    BY DEF Refused
  <2>2. log' = <<>> /\ <<>> \in Seq(Entries) /\ Len(<<>>) <= MaxDenials
    BY <1>2, ProxyAssumption DEF Drain
  <2>3. report' \in [log : Seq(Entries), dropped : Nat, told : SUBSET Conns]
    BY <1>2, <2>1 DEF TypeOK, Drain
  <2>4. QED  BY <1>2, <2>2, <2>3 DEF TypeOK, Drain, clientVars
<1>3. CASE DropProxy
  BY <1>3 DEF TypeOK, DropProxy, logVars, clientVars
<1>4. CASE Join
  BY <1>4 DEF TypeOK, Join, logVars, clientVars
<1>5. QED  BY <1>1, <1>2, <1>3, <1>4

(* A handler that goes on from one place to another keeps its slot.          *)
LEMMA GoKeepsBusy ==
  ASSUME TypeOK, NEW c \in Conns, conn[c] \in Serving,
         NEW where \in Serving, Go(c, where)
  PROVE  /\ Busy' = Busy
         /\ conn' \in [Conns -> Serving \cup {"none", "pending", "done", "reset"}]
  BY DEF TypeOK, Go, Busy

(* Every step of a handler but the last one.                                 *)
HandlerMoves(c) ==
  \/ HungUp(c) \/ ReadRequest(c) \/ Decide(c) \/ Refuse(c)
  \/ ConnectFails(c) \/ Connect(c) \/ SniMissing(c) \/ CheckSni(c) \/ TunnelEnds(c)

LEMMA HandlerKeepsBusy ==
  ASSUME TypeOK, NEW c \in Conns, HandlerMoves(c)
  PROVE  /\ Busy' = Busy
         /\ conn' \in [Conns -> Serving \cup {"none", "pending", "done", "reset"}]
<1> DEFINE Moved == \E where \in Serving : Go(c, where)
<1>1. conn[c] \in Serving
  BY DEF HandlerMoves, Serving, HungUp, ReadRequest, Decide, Refuse, ConnectFails,
         Connect, SniMissing, CheckSni, TunnelEnds
<1>2. Moved
  <2>1. CASE HungUp(c) \/ ReadRequest(c) \/ Decide(c)
    BY <2>1 DEF HungUp, ReadRequest, Decide, Serving
  <2>2. CASE Refuse(c) \/ ConnectFails(c) \/ SniMissing(c) \/ TunnelEnds(c)
    BY <2>2 DEF Refuse, ConnectFails, SniMissing, TunnelEnds, Serving
  <2>3. CASE Connect(c) \/ CheckSni(c)
    BY <2>3 DEF Connect, CheckSni, Tunnel, Serving
  <2>4. QED  BY <2>1, <2>2, <2>3 DEF HandlerMoves
<1>3. QED  BY <1>1, <1>2, GoKeepsBusy

LEMMA HandlerKeepsRun ==
  ASSUME NEW c \in Conns, HandlerMoves(c)
  PROVE  UNCHANGED <<runVars, acceptor, slots, clientVars>>
  BY DEF HandlerMoves, HungUp, ReadRequest, Decide, Refuse, ConnectFails,
         Connect, SniMissing, CheckSni, TunnelEnds

LEMMA HandlerLog ==
  ASSUME TypeOK, NEW c \in Conns, HandlerMoves(c)
  PROVE  log' \in Seq(Entries) /\ Len(log') <= MaxDenials /\ dropped' \in Nat
<1>1. (\E why \in {"domain", "sni"} : Record(c, why)) \/ UNCHANGED logVars
  BY DEF HandlerMoves, HungUp, ReadRequest, Decide, Refuse, ConnectFails,
         Connect, SniMissing, CheckSni, TunnelEnds
<1>2. CASE UNCHANGED logVars
  BY <1>2 DEF TypeOK, logVars
<1>3. QED  BY <1>1, <1>2, RecordType

Answers == {"none", "400", "405", "431", "502", "503", "200", "403", "sni", "closed"}

LEMMA HandlerAnswers ==
  ASSUME TypeOK, NEW c \in Conns, HandlerMoves(c)
  PROVE  answer' \in [Conns -> Answers] /\ upstream' \subseteq Conns
<1>0. answer \in [Conns -> Answers] /\ upstream \subseteq Conns
  BY DEF TypeOK, Answers
<1>1. CASE HungUp(c) \/ Decide(c) \/ CheckSni(c) \/ TunnelEnds(c)
  BY <1>0, <1>1 DEF HungUp, Decide, CheckSni, TunnelEnds, Tunnel
<1>2. CASE ReadRequest(c)
  BY <1>0, <1>2 DEF ReadRequest, Respond, Answers
<1>3. CASE Refuse(c) \/ ConnectFails(c) \/ SniMissing(c)
  BY <1>0, <1>3 DEF Refuse, ConnectFails, SniMissing, Respond, Answers
<1>4. CASE Connect(c)
  BY <1>0, <1>4 DEF Connect, Tunnel, Respond, Answers
<1>5. QED  BY <1>1, <1>2, <1>3, <1>4 DEF HandlerMoves

LEMMA TypeHandler ==
  ASSUME TypeOK, NEW c \in Conns, HandlerMoves(c)
  PROVE  TypeOK'
  BY HandlerKeepsBusy, HandlerKeepsRun, HandlerLog, HandlerAnswers
     DEF TypeOK, Answers, runVars, clientVars

-----------------------------------------------------------------------------
(* The slots                                                                 *)

(* Types and slots hold each other up: giving back a slot leaves a number    *)
(* because the count is that of the handlers at work.                        *)
SlotInv == TypeOK /\ SlotsAreHandlers

LEMMA BusyFinite == Busy \in SUBSET Conns /\ IsFiniteSet(Busy)
  BY ProxyAssumption, FS_Subset DEF Busy

LEMMA SlotInit == Init => SlotInv
<1>1. SUFFICES ASSUME Init  PROVE SlotInv
  OBVIOUS
<1>2. TypeOK
  BY <1>1, TypeInit
<1>3. Busy = {}
  BY <1>1 DEF Init, Busy, Serving
<1>4. slots = 0 /\ limit \in Nat
  BY <1>1, <1>2 DEF Init, TypeOK
<1>5. QED  BY <1>2, <1>3, <1>4, FS_EmptySet DEF SlotInv, SlotsAreHandlers

LEMMA SlotTaken ==
  ASSUME SlotInv, NEW c \in Conns, Accept(c)
  PROVE  SlotInv'
<1>1. TypeOK'
  BY TypeAcceptor DEF SlotInv, AcceptorStep
<1>2. Busy' = Busy \cup {c} /\ c \notin Busy
  BY DEF SlotInv, TypeOK, Accept, Busy, Serving
<1>3. Cardinality(Busy') = Cardinality(Busy) + 1
  BY <1>2, BusyFinite, FS_AddElement
<1>4. QED
  BY <1>1, <1>3 DEF SlotInv, TypeOK, SlotsAreHandlers, Accept, TryAcquireHandlerSlot, runVars

LEMMA SlotGiven ==
  ASSUME SlotInv, NEW c \in Conns, Finish(c)
  PROVE  SlotInv'
<1>1. Busy' = Busy \ {c} /\ c \in Busy
  BY DEF SlotInv, TypeOK, Finish, Busy, Serving
<1>2. Cardinality(Busy') = Cardinality(Busy) - 1 /\ Cardinality(Busy') \in Nat
  BY <1>1, BusyFinite, FS_RemoveElement, FS_Subset, FS_CardinalityType
<1>3. slots' = Cardinality(Busy') /\ slots' \in 0 .. limit' /\ limit' = limit
  BY <1>2 DEF SlotInv, TypeOK, SlotsAreHandlers, Finish, runVars
<1>4. TypeOK'
  BY <1>3 DEF SlotInv, TypeOK, Finish, runVars, logVars
<1>5. QED  BY <1>3, <1>4 DEF SlotInv, SlotsAreHandlers, TypeOK

LEMMA SlotKept ==
  ASSUME SlotInv, TypeOK', Busy' = Busy, UNCHANGED <<slots, limit>>
  PROVE  SlotInv'
  BY DEF SlotInv, SlotsAreHandlers

LEMMA SlotStep == SlotInv /\ [Next]_vars => SlotInv'
<1>1. SUFFICES ASSUME SlotInv, [Next]_vars  PROVE SlotInv'
  OBVIOUS
<1>0. TypeOK
  BY <1>1 DEF SlotInv
<1>2. ASSUME NEW c \in Conns, Open(c) \/ Send(c) \/ Close(c) \/ UpstreamCloses(c)
      PROVE SlotInv'
  <2>1. TypeOK'
    BY <1>0, <1>2, TypeClient
  <2>2. Busy' = Busy /\ UNCHANGED <<slots, limit>>
    BY <1>0, <1>2 DEF TypeOK, Open, Send, Close, UpstreamCloses, Busy, Serving, runVars
  <2>3. QED  BY <1>1, <2>1, <2>2, SlotKept
<1>3. ASSUME NEW c \in Conns, Handle(c)  PROVE SlotInv'
  <2>1. CASE Finish(c)
    BY <1>1, <2>1, SlotGiven
  <2>2. CASE HandlerMoves(c)
    BY <1>0, <1>1, <2>2, TypeHandler, HandlerKeepsBusy, HandlerKeepsRun, SlotKept DEF runVars
  <2>3. QED  BY <1>3, <2>1, <2>2 DEF Handle, HandlerMoves
<1>4. CASE AcceptorStep
  <2>1. TypeOK'
    BY <1>0, <1>4, TypeAcceptor
  <2>2. CASE CheckShutdown \/ AcceptNothing
    <3>1. Busy' = Busy /\ UNCHANGED <<slots, limit>>
      BY <1>0, <2>2 DEF TypeOK, CheckShutdown, AcceptNothing, Busy, Serving, runVars
    <3>2. QED  BY <1>1, <2>1, <3>1, SlotKept
  <2>3. ASSUME NEW c \in Conns, Accept(c)  PROVE SlotInv'
    BY <1>1, <2>3, SlotTaken
  <2>4. ASSUME NEW c \in Conns, Reject(c)  PROVE SlotInv'
    <3>1. Busy' = Busy /\ UNCHANGED <<slots, limit>>
      BY <1>0, <2>4 DEF TypeOK, Reject, Busy, Serving, runVars
    <3>2. QED  BY <1>1, <2>1, <3>1, SlotKept
  <2>5. QED  BY <1>4, <2>2, <2>3, <2>4 DEF AcceptorStep
<1>5. CASE ChildExits \/ Drain \/ DropProxy \/ Join
  <2>1. TypeOK'
    BY <1>0, <1>5, TypeRun
  <2>2. Busy' = Busy /\ UNCHANGED <<slots, limit>>
    BY <1>5 DEF ChildExits, Drain, DropProxy, Join, Busy
  <2>3. QED  BY <1>1, <2>1, <2>2, SlotKept
<1>6. CASE UNCHANGED vars
  <2>1. TypeOK'
    BY <1>0, <1>6 DEF TypeOK, vars, runVars, logVars, clientVars
  <2>2. Busy' = Busy /\ UNCHANGED <<slots, limit>>
    BY <1>6 DEF vars, runVars, Busy
  <2>3. QED  BY <1>1, <2>1, <2>2, SlotKept
<1>7. QED  BY <1>1, <1>2, <1>3, <1>4, <1>5, <1>6 DEF Next

(* The state of the proxy, of its handlers and of the denial log stays       *)
(* within its types; in particular the log never holds more than             *)
(* MAX_RECORDED_DENIALS records, whatever the clients ask for.               *)
THEOREM TypesHold == Spec => []TypeOK
<1>1. SlotInv => TypeOK
  BY DEF SlotInv
<1>2. QED  BY SlotInit, SlotStep, <1>1, PTL DEF Spec

(* active_handlers counts the handlers at work exactly and stays within      *)
(* max_active_handlers, for any number of connections and any limit.         *)
THEOREM SlotsHold == Spec => []SlotsAreHandlers
<1>1. SlotInv => SlotsAreHandlers
  BY DEF SlotInv
<1>2. QED  BY SlotInit, SlotStep, <1>1, PTL DEF Spec

-----------------------------------------------------------------------------
(* Tunnels                                                                   *)

LEMMA Before ==
  ASSUME NEW a \in Nat, NEW b \in Nat, b # 0, a > b
  PROVE  a - b \in 1 .. a - 1
  OBVIOUS

(* is_host_allowed admits a host only if the rules let the client reach it:  *)
(* the suffix it compares starts where a label starts.                       *)
LEMMA AllowedReachable ==
  ASSUME NEW spelling, spelling.labels \in Seq(Labels), IsHostAllowed(spelling)
  PROVE  Reachable(spelling.labels)
<1> DEFINE host == spelling.labels
<1>1. PICK r \in Rules :
        IF r.wild /\ host \notin Addresses
        THEN /\ Len(host) > Len(r.name)
             /\ SubSeq(host, Len(host) - Len(r.name) + 1, Len(host)) = r.name
        ELSE ~r.wild /\ host = r.name
  BY DEF IsHostAllowed, NormalizeHost
<1>2. r \in [wild : BOOLEAN, name : Seq(Labels)] /\ r.name # <<>>
  BY ProxyAssumption
<1>3. r = [wild |-> r.wild, name |-> r.name] /\ r.wild \in BOOLEAN
  BY <1>2
<1>4. CASE ~r.wild /\ host = r.name
  <2>1. r = [wild |-> FALSE, name |-> host]
    BY <1>3, <1>4
  <2>2. QED  BY <2>1 DEF Reachable
<1>5. CASE r.wild /\ host \notin Addresses
  <2> DEFINE k == Len(host) - Len(r.name)
  <2>1. Len(host) > Len(r.name) /\ SubSeq(host, k + 1, Len(host)) = r.name
    BY <1>1, <1>5
  <2>2. Len(r.name) \in Nat /\ Len(r.name) # 0
    BY <1>2
  <2>3. Len(host) \in Nat
    OBVIOUS
  <2>4. k \in 1 .. Len(host) - 1
    BY <2>1, <2>2, <2>3, Before
  <2>5. r = [wild |-> TRUE, name |-> SubSeq(host, k + 1, Len(host))]
    BY <1>3, <1>5, <2>1
  <2>6. QED  BY <1>5, <2>4, <2>5 DEF Reachable
<1>6. QED  BY <1>1, <1>4, <1>5

(* What a handler knows about its request, place by place.                   *)
Checked(c) ==
  /\ conn[c] \in {"decide", "connect", "sni", "tunnel"} => request[c].form = "connect"
  /\ conn[c] \in {"connect", "sni", "tunnel"} => IsHostAllowed(request[c].host)
  /\ conn[c] = "tunnel" /\ EnforceSni /\ request[c].tls =>
       sent[c] = "hello" /\ HostnamesMatch(request[c].host, request[c].sni)

TunnelInv == TypeOK /\ \A c \in Conns : Checked(c)

(* A connection keeps what was checked when it stays where it is, or ends,   *)
(* and the client's hello stays sent.                                        *)
LEMMA StaysChecked ==
  ASSUME NEW c \in Conns, Checked(c), UNCHANGED request,
         conn'[c] = conn[c] \/ conn'[c] \notin {"decide", "connect", "sni", "tunnel"},
         sent[c] = "hello" => sent'[c] = "hello"
  PROVE  Checked(c)'
  BY DEF Checked, IsHostAllowed, HostnamesMatch, NormalizeHost

LEMMA HandlerChecked ==
  ASSUME TypeOK, NEW c \in Conns, HandlerMoves(c), Checked(c)
  PROVE  Checked(c)'
<1>0. conn \in [Conns -> Serving \cup {"none", "pending", "done", "reset"}]
      /\ request' = request /\ sent' = sent
  BY HandlerKeepsRun DEF TypeOK, clientVars
<1>1. CASE HungUp(c) \/ Refuse(c) \/ ConnectFails(c) \/ SniMissing(c) \/ TunnelEnds(c)
  <2>1. conn'[c] = "ending"
    BY <1>0, <1>1 DEF HungUp, Refuse, ConnectFails, SniMissing, TunnelEnds, Go
  <2>2. QED  BY <1>0, <2>1, StaysChecked
<1>2. CASE ReadRequest(c)
  <2>1. CASE request[c].form = "connect" /\ Go(c, "decide")
    BY <1>0, <2>1 DEF Go, Checked
  <2>2. CASE Go(c, "ending")
    BY <1>0, <2>2, StaysChecked DEF Go
  <2>3. QED  BY <1>2, <2>1, <2>2 DEF ReadRequest
<1>3. CASE Decide(c)
  <2>1. CASE IsHostAllowed(request[c].host) /\ Go(c, "connect")
    BY <1>0, <1>3, <2>1 DEF Go, Checked, Decide, IsHostAllowed, NormalizeHost
  <2>2. CASE Go(c, "refuse_domain")
    BY <1>0, <2>2, StaysChecked DEF Go
  <2>3. QED  BY <1>3, <2>1, <2>2 DEF Decide
<1>4. CASE Connect(c)
  <2>1. conn[c] = "connect" /\ conn'[c] \in {"sni", "tunnel", "ending"}
    BY <1>0, <1>4 DEF Connect, Tunnel, Go
  <2>2. conn'[c] = "tunnel" => ~ (EnforceSni /\ request[c].tls)
    BY <1>0, <1>4 DEF Connect, Tunnel, Go
  <2>3. QED  BY <1>0, <2>1, <2>2 DEF Checked, IsHostAllowed, NormalizeHost
<1>5. CASE CheckSni(c)
  <2>1. CASE HostnamesMatch(request[c].host, request[c].sni) /\ Go(c, "tunnel")
    BY <1>0, <1>5, <2>1 DEF CheckSni, SniReadable, Go, Checked, IsHostAllowed, HostnamesMatch, NormalizeHost
  <2>2. CASE Go(c, "refuse_sni")
    BY <1>0, <2>2, StaysChecked DEF Go
  <2>3. QED  BY <1>5, <2>1, <2>2 DEF CheckSni, Tunnel
<1>6. QED  BY <1>1, <1>2, <1>3, <1>4, <1>5 DEF HandlerMoves

LEMMA TunnelStep == TunnelInv /\ TypeOK' /\ [Next]_vars => TunnelInv'
<1>1. SUFFICES ASSUME TunnelInv, TypeOK', [Next]_vars, NEW d \in Conns
               PROVE  Checked(d)'
  BY DEF TunnelInv
<1>2. TypeOK /\ Checked(d)
  BY <1>1 DEF TunnelInv
<1>3. ASSUME NEW c \in Conns, Open(c) \/ Send(c) \/ Close(c) \/ UpstreamCloses(c)
      PROVE Checked(d)'
  <2>1. /\ UNCHANGED request
        /\ conn'[d] = conn[d] \/ conn'[d] = "pending"
        /\ sent[d] = "hello" => sent'[d] = "hello"
    BY <1>2, <1>3 DEF TypeOK, Open, Send, Close, UpstreamCloses, clientVars
  <2>2. QED  BY <1>2, <2>1, StaysChecked
<1>4. ASSUME NEW c \in Conns, HandlerMoves(c)  PROVE Checked(d)'
  <2>1. CASE c = d
    BY <1>2, <1>4, <2>1, HandlerChecked
  <2>2. CASE c # d
    <3>1. UNCHANGED <<request, sent>>
      BY <1>4, HandlerKeepsRun DEF clientVars
    <3>2. conn'[d] = conn[d]
      BY <1>2, <1>4, <2>2
         DEF TypeOK, HandlerMoves, HungUp, ReadRequest, Decide, Refuse, ConnectFails,
             Connect, SniMissing, CheckSni, TunnelEnds, Tunnel, Go
    <3>3. QED  BY <1>2, <3>1, <3>2, StaysChecked
  <2>3. QED  BY <2>1, <2>2
<1>5. ASSUME NEW c \in Conns, Finish(c)  PROVE Checked(d)'
  <2>1. UNCHANGED <<request, sent>> /\ (conn'[d] = conn[d] \/ conn'[d] = "done")
    BY <1>2, <1>5 DEF TypeOK, Finish
  <2>2. QED  BY <1>2, <2>1, StaysChecked
<1>6. CASE AcceptorStep
  <2>1. /\ UNCHANGED <<request, sent>>
        /\ conn'[d] = conn[d] \/ conn'[d] \in {"spawned", "reset", "done"}
    BY <1>2, <1>6
       DEF TypeOK, AcceptorStep, CheckShutdown, AcceptNothing, Accept, Reject, clientVars
  <2>2. QED  BY <1>2, <2>1, StaysChecked
<1>7. CASE ChildExits \/ Drain \/ DropProxy \/ Join \/ UNCHANGED vars
  <2>1. UNCHANGED <<request, sent, conn>>
    BY <1>7 DEF ChildExits, Drain, DropProxy, Join, clientVars, vars
  <2>2. QED  BY <1>2, <2>1, StaysChecked
<1>8. QED
  BY <1>1, <1>3, <1>4, <1>5, <1>6, <1>7 DEF Next, Handle, HandlerMoves

(* For any rules, requests and number of connections, bytes are relayed only *)
(* to a host the rules name, and on port 443 only for a client whose TLS     *)
(* hello names that same host.                                               *)
THEOREM TunnelsHold == Spec => []TunnelsAreAllowed
<1>1. Init => TunnelInv
  BY TypeInit DEF Init, TunnelInv, Checked
<1>2. TunnelInv => TunnelsAreAllowed
  <2>1. SUFFICES ASSUME TunnelInv, NEW c \in Conns, conn[c] = "tunnel"
                 PROVE  /\ request[c].form = "connect"
                        /\ Reachable(request[c].host.labels)
                        /\ EnforceSni /\ request[c].tls =>
                             sent[c] = "hello"
                             /\ request[c].sni.labels = request[c].host.labels
    BY DEF TunnelsAreAllowed
  <2>2. Checked(c) /\ request[c].host.labels \in Seq(Labels)
    BY <2>1, ProxyAssumption DEF TunnelInv, TypeOK, IsRequest
  <2>3. IsHostAllowed(request[c].host)
    BY <2>1, <2>2 DEF Checked
  <2>4. Reachable(request[c].host.labels)
    BY <2>2, <2>3, AllowedReachable
  <2>5. QED  BY <2>1, <2>2, <2>4 DEF Checked, HostnamesMatch, NormalizeHost
<1>3. QED  BY TypesHold, TunnelStep, <1>1, <1>2, PTL DEF Spec

-----------------------------------------------------------------------------
(* The denial log                                                            *)

(* A connection that was told of its refusal is at its end, and nothing was  *)
(* drained before the run got that far.                                      *)
ExactInv ==
  /\ TypeOK
  /\ DenialsAreExact
  /\ \A c \in Refused : conn[c] \in {"ending", "done"}
  /\ main \in {"child", "exited"} => report.log = <<>> /\ report.dropped = 0

LEMMA AppendBehind ==
  ASSUME NEW S, NEW s \in Seq(S), NEW t \in Seq(S), NEW e \in S
  PROVE  s \o Append(t, e) = Append(s \o t, e)
<1>1. /\ s \o Append(t, e) \in Seq(S) /\ Append(s \o t, e) \in Seq(S)
      /\ Len(s) \in Nat /\ Len(t) \in Nat
      /\ Len(s \o Append(t, e)) = Len(s) + Len(t) + 1
      /\ Len(Append(s \o t, e)) = Len(s) + Len(t) + 1
  OBVIOUS
<1>2. \A i \in 1 .. Len(s) + Len(t) + 1 : (s \o Append(t, e))[i] = Append(s \o t, e)[i]
  OBVIOUS
<1>3. QED  BY <1>1, <1>2

LEMMA StoredType ==
  ASSUME TypeOK
  PROVE  Stored \in Seq(Entries)
  BY DEF TypeOK, Stored

LEMMA RecordedFinite == Recorded \in SUBSET Conns /\ IsFiniteSet(Recorded)
  BY ProxyAssumption, FS_Subset DEF Recorded, Refused

(* A step that records nothing and refuses nobody new.                       *)
LEMMA ExactKept ==
  ASSUME ExactInv, TypeOK', UNCHANGED <<log, dropped, report>>,
         Recorded' = Recorded,
         \A c \in Refused' : conn'[c] \in {"ending", "done"},
         main' \in {"child", "exited"} => main \in {"child", "exited"}
  PROVE  ExactInv'
<1>1. Stored' = Stored
  BY DEF Stored
<1>2. DenialsAreExact'
  BY <1>1 DEF ExactInv, DenialsAreExact
<1>3. QED  BY <1>2 DEF ExactInv

(* A denial is recorded: it is stored behind the others, or counted.         *)
LEMMA ExactRecord ==
  ASSUME ExactInv, TypeOK', NEW c \in Conns, NEW why \in {"domain", "sni"},
         Record(c, why), c \notin Recorded, Recorded' = Recorded \cup {c},
         UNCHANGED <<report, main>>,
         \A d \in Refused' : conn'[d] \in {"ending", "done"}
  PROVE  ExactInv'
<1> DEFINE entry == [conn |-> c, reason |-> why]
<1>1. /\ Stored \in Seq(Entries) /\ entry \in Entries /\ log \in Seq(Entries)
      /\ report.log \in Seq(Entries) /\ report.dropped \in Nat /\ dropped \in Nat
      /\ Len(Stored) \in Nat
  BY StoredType DEF ExactInv, TypeOK, Entries
<1>2. Cardinality(Recorded') = Cardinality(Recorded) + 1 /\ Cardinality(Recorded) \in Nat
  BY RecordedFinite, FS_AddElement, FS_CardinalityType
<1>3. Len(Stored) + report.dropped + dropped = Cardinality(Recorded)
  BY DEF ExactInv, DenialsAreExact
<1>4. CASE Len(log) >= MaxDenials
  <2>1. Stored' = Stored /\ dropped' = dropped + 1
    BY <1>4 DEF Record, Stored
  <2>2. Len(Stored) + report.dropped + (dropped + 1) = Cardinality(Recorded) + 1
    <3>1. PICK b \in Nat : b = report.dropped
      BY <1>1
    <3>2. PICK n \in Nat : n = Cardinality(Recorded)
      BY <1>2
    <3>3. PICK k \in Nat : k = Len(Stored)
      BY <1>1
    <3>4. k + b + dropped = n
      BY <1>3, <3>1, <3>2, <3>3
    <3>5. k + b + (dropped + 1) = n + 1
      BY <1>1, <3>4
    <3>6. QED  BY <3>1, <3>2, <3>3, <3>5
  <2>3. DenialsAreExact'
    BY <1>2, <2>1, <2>2 DEF ExactInv, DenialsAreExact
  <2>4. QED  BY <2>3 DEF ExactInv
<1>5. CASE ~ (Len(log) >= MaxDenials)
  <2>1. Stored' = Append(Stored, entry) /\ dropped' = dropped
    <3>1. log' = Append(log, entry) /\ dropped' = dropped
      BY <1>5 DEF Record
    <3>2. Stored' = report.log \o Append(log, entry)
      BY <3>1 DEF Stored
    <3>3. report.log \o Append(log, entry) = Append(report.log \o log, entry)
      <4>1. \A s, t \in Seq(Entries), e \in Entries :
              s \o Append(t, e) = Append(s \o t, e)
        BY AppendBehind
      <4>2. QED  BY <1>1, <4>1
    <3>4. QED  BY <3>1, <3>2, <3>3 DEF Stored
  <2>2. /\ Len(Stored') = Len(Stored) + 1 /\ Len(Stored) \in Nat
        /\ DOMAIN Stored' = 1 .. Len(Stored) + 1 /\ DOMAIN Stored = 1 .. Len(Stored)
        /\ \A i \in DOMAIN Stored : Stored'[i] = Stored[i]
        /\ Stored'[Len(Stored) + 1] = entry
    BY <1>1, <2>1
  <2>3. \A i \in DOMAIN Stored' : i \in DOMAIN Stored \/ i = Len(Stored) + 1
    BY <2>2
  <2>4. \A i \in DOMAIN Stored : Stored[i].conn \in Recorded /\ Stored[i].conn # c
    BY DEF ExactInv, DenialsAreExact
  <2>5. \A i \in DOMAIN Stored' : Stored'[i].conn \in Recorded'
    BY <2>2, <2>3, <2>4
  <2>6. ASSUME NEW i \in DOMAIN Stored', NEW j \in DOMAIN Stored',
               Stored'[i].conn = Stored'[j].conn
        PROVE  i = j
    <3>1. CASE i \in DOMAIN Stored /\ j \in DOMAIN Stored
      BY <2>2, <2>6, <3>1 DEF ExactInv, DenialsAreExact
    <3>2. CASE i = Len(Stored) + 1 \/ j = Len(Stored) + 1
      BY <2>2, <2>3, <2>4, <2>6, <3>2
    <3>3. QED  BY <2>3, <3>1, <3>2
  <2>7. Len(Stored') + report.dropped + dropped = Cardinality(Recorded')
    BY <1>1, <1>2, <1>3, <2>2
  <2>8. DenialsAreExact'
    BY <2>1, <2>5, <2>6, <2>7 DEF DenialsAreExact
  <2>9. QED  BY <2>8 DEF ExactInv
<1>6. QED  BY <1>4, <1>5

LEMMA HandlerExact ==
  ASSUME ExactInv, TypeOK', NEW c \in Conns, HandlerMoves(c)
  PROVE  ExactInv'
<1>1. /\ conn \in [Conns -> Serving \cup {"none", "pending", "done", "reset"}]
      /\ answer \in [Conns -> Answers]
      /\ \A d \in Conns : answer[d] \in {"403", "sni"} => conn[d] \in {"ending", "done"}
  BY DEF ExactInv, TypeOK, Answers, Refused
<1>2. UNCHANGED <<report, main>>
  BY HandlerKeepsRun DEF runVars
<1>3. CASE HungUp(c) \/ ReadRequest(c) \/ ConnectFails(c) \/ Connect(c) \/ SniMissing(c)
           \/ TunnelEnds(c)
  <2>1. /\ conn[c] \in {"spawned", "connect", "sni", "tunnel"}
        /\ conn'[c] \in {"decide", "sni", "tunnel", "ending"}
        /\ \A d \in Conns \ {c} : conn'[d] = conn[d] /\ answer'[d] = answer[d]
        /\ answer'[c] = answer[c] \/ answer'[c] \in {"400", "405", "431", "502", "200", "closed"}
        /\ UNCHANGED <<log, dropped>>
    BY <1>1, <1>3
       DEF HungUp, ReadRequest, ConnectFails, Connect, Tunnel, SniMissing, TunnelEnds, Go,
           Respond, logVars
  <2>2. Refused' = Refused /\ c \notin Refused /\ Recorded' = Recorded
    BY <1>1, <2>1 DEF Refused, Recorded
  <2>3. \A d \in Refused' : conn'[d] \in {"ending", "done"}
    BY <1>1, <2>1, <2>2 DEF Refused
  <2>4. QED  BY <1>2, <2>1, <2>2, <2>3, ExactKept
<1>4. CASE Refuse(c)
  <2>1. /\ conn[c] \in {"refuse_domain", "refuse_sni"} /\ conn'[c] = "ending"
        /\ \A d \in Conns \ {c} : conn'[d] = conn[d] /\ answer'[d] = answer[d]
        /\ answer'[c] \in {"403", "sni"}
        /\ UNCHANGED <<log, dropped>>
    BY <1>1, <1>4 DEF Refuse, Go, Respond, logVars
  <2>2. Refused' = Refused \cup {c} /\ Recorded' = Recorded
    BY <1>1, <2>1 DEF Refused, Recorded
  <2>3. \A d \in Refused' : conn'[d] \in {"ending", "done"}
    BY <1>1, <2>1, <2>2 DEF Refused
  <2>4. QED  BY <1>2, <2>1, <2>2, <2>3, ExactKept
<1>5. CASE Decide(c) \/ CheckSni(c)
  <2>1. /\ conn[c] \in {"decide", "sni"} /\ UNCHANGED answer
        /\ \A d \in Conns \ {c} : conn'[d] = conn[d]
    BY <1>1, <1>5 DEF Decide, CheckSni, Go, Tunnel
  <2>2. Refused' = Refused /\ c \notin Recorded
    BY <1>1, <2>1 DEF Refused, Recorded
  <2>3. \A d \in Refused' : conn'[d] \in {"ending", "done"}
    BY <1>1, <2>1, <2>2 DEF Refused, Recorded
  <2>4. CASE conn'[c] \in {"connect", "tunnel"} /\ UNCHANGED <<log, dropped>>
    <3>1. Recorded' = Recorded
      BY <1>1, <2>1, <2>2, <2>4 DEF Recorded
    <3>2. QED  BY <1>2, <2>3, <2>4, <3>1, ExactKept
  <2>5. ASSUME NEW why \in {"domain", "sni"}, Record(c, why),
               conn'[c] \in {"refuse_domain", "refuse_sni"}
        PROVE  ExactInv'
    <3>1. Recorded' = Recorded \cup {c}
      BY <1>1, <2>1, <2>2, <2>5 DEF Recorded
    <3>2. QED  BY <1>2, <2>2, <2>3, <2>5, <3>1, ExactRecord
  <2>6. QED  BY <1>1, <1>5, <2>4, <2>5 DEF Decide, CheckSni, Go, Tunnel, logVars
<1>6. QED  BY <1>3, <1>4, <1>5 DEF HandlerMoves

LEMMA ExactStep == ExactInv /\ TypeOK' /\ [Next]_vars => ExactInv'
<1>1. SUFFICES ASSUME ExactInv, TypeOK', [Next]_vars  PROVE ExactInv'
  OBVIOUS
<1>2. /\ conn \in [Conns -> Serving \cup {"none", "pending", "done", "reset"}]
      /\ answer \in [Conns -> Answers]
      /\ \A d \in Conns : answer[d] \in {"403", "sni"} => conn[d] \in {"ending", "done"}
  BY <1>1 DEF ExactInv, TypeOK, Answers, Refused
<1>3. ASSUME UNCHANGED <<log, dropped, report>>,
             \A d \in Conns : \/ conn'[d] = conn[d] /\ answer'[d] = answer[d]
                             \/ /\ conn[d] \in {"none", "pending"}
                                /\ conn'[d] \in {"pending", "spawned", "reset", "done"}
                                /\ answer'[d] = answer[d] \/ answer'[d] = "503"
                             \/ /\ conn[d] = "ending" /\ conn'[d] = "done"
                                /\ answer'[d] = answer[d],
             main' \in {"child", "exited"} => main \in {"child", "exited"}
      PROVE  ExactInv'
  <2>1. Refused' = Refused /\ Recorded' = Recorded
    BY <1>2, <1>3 DEF Refused, Recorded
  <2>2. \A d \in Refused' : conn'[d] \in {"ending", "done"}
    BY <1>2, <1>3, <2>1 DEF Refused
  <2>3. QED  BY <1>1, <1>3, <2>1, <2>2, ExactKept
<1>4. ASSUME NEW c \in Conns, Open(c) \/ Send(c) \/ Close(c) \/ UpstreamCloses(c)
      PROVE ExactInv'
  BY <1>2, <1>3, <1>4 DEF Open, Send, Close, UpstreamCloses, runVars, logVars
<1>5. ASSUME NEW c \in Conns, Finish(c)  PROVE ExactInv'
  BY <1>2, <1>3, <1>5 DEF Finish, runVars, logVars
<1>6. ASSUME NEW c \in Conns, HandlerMoves(c)  PROVE ExactInv'
  BY <1>1, <1>6, HandlerExact
<1>7. CASE AcceptorStep
  BY <1>2, <1>3, <1>7
     DEF AcceptorStep, CheckShutdown, AcceptNothing, Accept, Reject, runVars, logVars
<1>8. CASE ChildExits \/ DropProxy \/ Join \/ UNCHANGED vars
  BY <1>3, <1>8 DEF ChildExits, DropProxy, Join, vars, runVars, logVars
<1>9. CASE Drain
  <2>1. report.log = <<>> /\ report.dropped = 0
    BY <1>1, <1>9 DEF ExactInv, Drain
  <2>2. log \in Seq(Entries) /\ dropped \in Nat
    BY <1>1 DEF ExactInv, TypeOK
  <2>3. Stored = log /\ Stored' = log
    BY <1>9, <2>1, <2>2 DEF Drain, Stored
  <2>4. report'.dropped = dropped /\ dropped' = 0
    BY <1>9 DEF Drain
  <2>5. Recorded' = Recorded /\ Refused' = Refused
    BY <1>9 DEF Drain, Recorded, Refused
  <2>6. Len(log) \in Nat
    BY <2>2
  <2>7. Len(Stored') + report'.dropped + dropped' = Len(Stored) + report.dropped + dropped
    BY <2>1, <2>2, <2>3, <2>4, <2>6
  <2>8. DenialsAreExact'
    BY <1>1, <2>3, <2>5, <2>7 DEF ExactInv, DenialsAreExact
  <2>9. QED  BY <1>1, <1>9, <2>5, <2>8 DEF ExactInv, Drain
<1>10. QED
  BY <1>1, <1>4, <1>5, <1>6, <1>7, <1>8, <1>9 DEF Next, Handle, HandlerMoves

(* The log and the report together hold every refusal the proxy decided on   *)
(* exactly once, or count it, and hold nothing else: draining replays no     *)
(* record and loses none, and an allowed connection is never reported.       *)
THEOREM DenialsHold == Spec => []DenialsAreExact
<1>1. Init => ExactInv
  <2>1. SUFFICES ASSUME Init  PROVE ExactInv
    OBVIOUS
  <2>2. Stored = <<>> /\ Recorded = {} /\ Refused = {}
    BY <2>1 DEF Init, Stored, Recorded, Refused
  <2>3. DenialsAreExact
    BY <2>1, <2>2, FS_EmptySet DEF Init, DenialsAreExact
  <2>4. QED  BY <2>1, <2>2, <2>3, TypeInit DEF Init, ExactInv
<1>2. ExactInv => DenialsAreExact
  BY DEF ExactInv
<1>3. QED  BY TypesHold, ExactStep, <1>1, <1>2, PTL DEF Spec

-----------------------------------------------------------------------------
(* The report                                                                *)

InLog(c) == \E i \in DOMAIN log : log[i].conn = c
LogFull == dropped > 0 /\ Len(log) = MaxDenials
Undrained == main \in {"child", "exited"}

(* Before the drain, what was refused is in the log or the log is full and   *)
(* counts; what the report holds does not change any more.                   *)
ToldInv ==
  /\ Undrained => (\A c \in Recorded : InLog(c)) \/ LogFull
  /\ ToldIsReported

(* A step that records nothing.                                              *)
LEMMA ToldKept ==
  ASSUME ToldInv, Recorded' \subseteq Recorded, UNCHANGED <<log, dropped, report>>,
         Undrained' => Undrained, main' = "drained" => main = "drained"
  PROVE  ToldInv'
BY DEF ToldInv, InLog, LogFull, ToldIsReported

(* A step that records one denial.                                           *)
LEMMA ToldRecord ==
  ASSUME TypeOK, ToldInv, NEW c \in Conns, NEW why \in {"domain", "sni"}, Record(c, why),
         Recorded' \subseteq Recorded \cup {c}, UNCHANGED <<report, main>>
  PROVE  ToldInv'
<1> DEFINE entry == [conn |-> c, reason |-> why]
<1>1. /\ log \in Seq(Entries) /\ Len(log) \in Nat /\ Len(log) <= MaxDenials /\ dropped \in Nat
      /\ MaxDenials \in Nat
  BY ProxyAssumption DEF TypeOK
<1>2. ToldIsReported'
  BY DEF ToldInv, ToldIsReported
<1>3. CASE Len(log) >= MaxDenials
  <2>1. LogFull'
    BY <1>1, <1>3 DEF Record, LogFull
  <2>2. QED  BY <1>2, <2>1 DEF ToldInv
<1>4. CASE ~ (Len(log) >= MaxDenials)
  <2>1. log' = Append(log, entry) /\ ~LogFull
    BY <1>1, <1>4 DEF Record, LogFull
  <2>2. /\ DOMAIN log' = 1 .. Len(log) + 1 /\ DOMAIN log = 1 .. Len(log)
        /\ \A i \in DOMAIN log : log'[i] = log[i]
        /\ log'[Len(log) + 1] = entry
    BY <1>1, <2>1
  <2>3. \A d \in Conns : InLog(d) => InLog(d)'
    BY <1>1, <2>2 DEF InLog
  <2>4. InLog(c)'
    BY <1>1, <2>2 DEF InLog
  <2>5. Undrained' => \A d \in Recorded' : InLog(d)'
    BY <2>1, <2>3, <2>4 DEF ToldInv, Undrained, Recorded, Refused
  <2>6. QED  BY <1>2, <2>5 DEF ToldInv
<1>5. QED  BY <1>3, <1>4

LEMMA ToldHandler ==
  ASSUME TypeOK, ToldInv, NEW c \in Conns, HandlerMoves(c)
  PROVE  ToldInv'
<1>1. /\ conn \in [Conns -> Serving \cup {"none", "pending", "done", "reset"}]
      /\ answer \in [Conns -> Answers]
  BY DEF TypeOK, Answers
<1>2. UNCHANGED <<report, main>>
  BY HandlerKeepsRun DEF runVars
<1>3. CASE HungUp(c) \/ ReadRequest(c) \/ ConnectFails(c) \/ Connect(c) \/ SniMissing(c)
           \/ TunnelEnds(c) \/ Refuse(c)
  <2>1. Recorded' \subseteq Recorded /\ UNCHANGED <<log, dropped>>
    BY <1>1, <1>3
       DEF HungUp, ReadRequest, ConnectFails, Connect, Tunnel, SniMissing, TunnelEnds, Refuse, Go,
           Respond, logVars, Recorded, Refused
  <2>2. QED  BY <1>2, <2>1, ToldKept DEF Undrained
<1>4. CASE Decide(c) \/ CheckSni(c)
  <2>1. Recorded' \subseteq Recorded \cup {c}
    BY <1>1, <1>4 DEF Decide, CheckSni, Go, Tunnel, Recorded, Refused
  <2>2. CASE conn'[c] \in {"connect", "tunnel"} /\ UNCHANGED <<log, dropped>>
    <3>1. Recorded' \subseteq Recorded
      BY <1>1, <1>4, <2>2 DEF Decide, CheckSni, Go, Tunnel, Recorded, Refused
    <3>2. QED  BY <1>2, <2>2, <3>1, ToldKept DEF Undrained
  <2>3. CASE \E why \in {"domain", "sni"} : Record(c, why)
    BY <1>2, <2>1, <2>3, ToldRecord
  <2>4. QED  BY <1>1, <1>4, <2>2, <2>3 DEF Decide, CheckSni, Go, Tunnel, logVars
<1>5. QED  BY <1>3, <1>4 DEF HandlerMoves

LEMMA ToldStep == ToldInv /\ TypeOK /\ [Next]_vars => ToldInv'
<1>1. SUFFICES ASSUME ToldInv, TypeOK, [Next]_vars  PROVE ToldInv'
  OBVIOUS
<1>2. /\ conn \in [Conns -> Serving \cup {"none", "pending", "done", "reset"}]
      /\ answer \in [Conns -> Answers]
  BY <1>1 DEF TypeOK, Answers
<1>3. ASSUME NEW c \in Conns, Open(c) \/ Send(c) \/ Close(c) \/ UpstreamCloses(c) \/ Finish(c)
      PROVE  ToldInv'
  <2>1. Recorded' \subseteq Recorded /\ UNCHANGED <<log, dropped, report, main>>
    BY <1>2, <1>3 DEF Open, Send, Close, UpstreamCloses, Finish, runVars, logVars, Recorded, Refused
  <2>2. QED  BY <1>1, <2>1, ToldKept DEF Undrained
<1>4. ASSUME NEW c \in Conns, HandlerMoves(c)  PROVE ToldInv'
  BY <1>1, <1>4, ToldHandler
<1>5. CASE AcceptorStep
  <2>1. Recorded' \subseteq Recorded /\ UNCHANGED <<log, dropped, report, main>>
    BY <1>2, <1>5
    DEF AcceptorStep, CheckShutdown, AcceptNothing, Accept, Reject, runVars, logVars, Recorded, Refused
  <2>2. QED  BY <1>1, <2>1, ToldKept DEF Undrained
<1>6. CASE ChildExits \/ DropProxy \/ Join \/ UNCHANGED vars
  <2>1. Recorded' \subseteq Recorded /\ UNCHANGED <<log, dropped, report>>
        /\ (Undrained' => Undrained) /\ (main' = "drained" => main = "drained")
    BY <1>6 DEF ChildExits, DropProxy, Join, vars, runVars, logVars, Recorded, Refused, Undrained
  <2>2. QED  BY <1>1, <2>1, ToldKept
<1>7. CASE Drain
  <2>1. /\ (\A c \in Recorded : InLog(c)) \/ LogFull
        /\ report' = [log |-> log, dropped |-> dropped, told |-> Refused] /\ main' = "drained"
    BY <1>1, <1>7 DEF ToldInv, Undrained, Drain
  <2>2. Refused \subseteq Recorded
    BY DEF Recorded
  <2>3. report'.told \subseteq {report'.log[i].conn : i \in DOMAIN report'.log}
        \/ (report'.dropped > 0 /\ Len(report'.log) = MaxDenials)
    BY <2>1, <2>2 DEF InLog, LogFull
  <2>4. QED  BY <2>1, <2>3 DEF ToldInv, ToldIsReported, Undrained
<1>8. QED  BY <1>1, <1>3, <1>4, <1>5, <1>6, <1>7 DEF Next, Handle, HandlerMoves

(* Whatever a client had been told of its refusal when the run drained the   *)
(* log is in the report, or the report is full and says that it is not all:  *)
(* for any number of connections and any size of the log.                    *)
THEOREM ReportIsComplete == Spec => []ToldIsReported
<1>1. Init => ToldInv
  BY DEF Init, ToldInv, ToldIsReported, Recorded, Refused
<1>2. ToldInv => ToldIsReported
  BY DEF ToldInv
<1>3. QED  BY TypesHold, ToldStep, <1>1, <1>2, PTL DEF Spec

=============================================================================
