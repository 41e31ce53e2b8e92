----------------------------- MODULE ApiService -----------------------------
(***************************************************************************)
(* What `clawcrate api` promises its clients about the requests it hands   *)
(* to its worker pool: each one is turned away at once or accepted, an     *)
(* accepted one is carried out by one worker and answered once, no more    *)
(* than Capacity wait and no more than PoolSize are carried out at a time. *)
(***************************************************************************)
EXTENDS Naturals, FiniteSets

CONSTANTS
  Requests,  (* the delegated requests that reach the server                 *)
  Capacity,  (* how many may wait                                            *)
  PoolSize   (* how many may be carried out at once                          *)

VARIABLE status   (* request -> what its client has come to                  *)

Having(state) == {r \in Requests : status[r] = state}
Becomes(r, state) == status' = [status EXCEPT ![r] = state]

Init == status = [r \in Requests |-> "unsent"]

Accept(r) ==
  /\ r \in Having("unsent")
  /\ Cardinality(Having("accepted")) < Capacity
  /\ Becomes(r, "accepted")

TurnAway(r) ==
  /\ r \in Having("unsent")
  /\ Becomes(r, "turned away")

Start(r) ==
  /\ r \in Having("accepted")
  /\ Cardinality(Having("started")) < PoolSize
  /\ Becomes(r, "started")

Answer(r) ==
  /\ r \in Having("started")
  /\ Becomes(r, "answered")

Next == \E r \in Requests : Accept(r) \/ TurnAway(r) \/ Start(r) \/ Answer(r)

Spec == Init /\ [][Next]_status

=============================================================================
