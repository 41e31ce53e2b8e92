--------------------------- MODULE MCEgressProxy ----------------------------
(* Instance of EgressProxy for TLC: one host listed by name, one domain by a *)
(* wildcard, an address that ends like a name, and clients that ask for      *)
(* them, rightly and wrongly.                                                *)
EXTENDS EgressProxy, TLC

Plain(labels) == [labels |-> labels, rooted |-> FALSE]
Rooted(labels) == [labels |-> labels, rooted |-> TRUE]

Api == <<"api", "test">>
Pkg == <<"pkg", "dev">>
Registry == <<"registry", "pkg", "dev">>
Loopback == <<"127", "0", "0", "1">>

MCLabels == {"api", "test", "pkg", "dev", "registry", "127", "0", "1"}
MCRules == {[wild |-> FALSE, name |-> Api], [wild |-> TRUE, name |-> Pkg],
            [wild |-> TRUE, name |-> <<"0", "0", "1">>]}
MCAddresses == {Loopback}

Ask(form, host, tls, sni) == [form |-> form, host |-> host, tls |-> tls, sni |-> sni]

DomainRefused == Ask("connect", Plain(Pkg), TRUE, NoSni)
AddressRefused == Ask("connect", Plain(Loopback), FALSE, NoSni)
SniRefused == Ask("connect", Plain(Api), TRUE, Plain(Registry))
TlsAllowed == Ask("connect", Plain(Api), TRUE, Rooted(Api))
PlainAllowed == Ask("connect", Rooted(Registry), FALSE, NoSni)
Illegal == {Ask(form, Plain(Api), FALSE, NoSni) : form \in {"malformed", "method", "headers"}}

CONSTANTS Client1, Client2
MCConns == {Client1, Client2}
MCRequests ==
  (Client1 :> {DomainRefused}) @@
  (Client2 :> {AddressRefused, SniRefused, TlsAllowed, PlainAllowed} \cup Illegal)

=============================================================================
