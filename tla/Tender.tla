-------------------------------- MODULE Tender --------------------------------
(***************************************************************************)
(* What sourcing promises, whatever its handlers do in between: goods are  *)
(* asked for from chosen vendors, only a vendor who was asked offers, only *)
(* an offer is taken up, the vendor answers an award once, and what was    *)
(* accepted is fulfilled at most once.  Sourcing implements it, and so     *)
(* does Fulfilment.                                                        *)
(***************************************************************************)
EXTENDS Naturals, Sequences

CONSTANT Vendors

VARIABLES
    asked,    \* per request for quotation, the vendors asked
    offers,   \* who offered for what
    awards    \* the offers taken up

vars == <<asked, offers, awards>>

Init ==
    /\ asked = <<>>
    /\ offers = {}
    /\ awards = <<>>

Ask ==
    /\ \E chosen \in SUBSET Vendors : asked' = Append(asked, chosen)
    /\ UNCHANGED <<offers, awards>>

Offer ==
    /\ \E r \in DOMAIN asked : \E v \in asked[r] : offers' = offers \cup {<<r, v>>}
    /\ UNCHANGED <<asked, awards>>

TakeUp ==
    /\ \E offer \in offers :
          awards' = Append(awards, [rfq |-> offer[1], vendor |-> offer[2], state |-> "pending"])
    /\ UNCHANGED <<asked, offers>>

Move(from, to) ==
    /\ \E a \in DOMAIN awards :
          /\ awards[a].state = from
          /\ awards' = [awards EXCEPT ![a].state = to]
    /\ UNCHANGED <<asked, offers>>

Next ==
    \/ Ask
    \/ Offer
    \/ TakeUp
    \/ Move("pending", "accepted")
    \/ Move("pending", "rejected")
    \/ Move("accepted", "fulfilled")

Spec == Init /\ [][Next]_vars
=============================================================================
