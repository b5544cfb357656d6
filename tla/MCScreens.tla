----------------------------- MODULE MCScreens -----------------------------
(* Reports for TLC: the keys of the bookings and two piles.                *)
EXTENDS Reports, TLC

CONSTANTS store, annex, maize, rice

MCKey == BookingKey

MCLot == {<<store, maize>>, <<annex, rice>>}

MCOnePile == {<<store, maize>>}

ASSUME KeyAssumption == BookingAssumption

(* The two piles change places: another warehouse, another commodity.      *)
Swap == (store :> annex) @@ (annex :> store) @@ (maize :> rice) @@ (rice :> maize)

Who == Permutations(Client) \cup Permutations(Txn)

(* No screen reads the quantity of an event and no booking goes by it:     *)
(* after a correction it is all that is left of the figures before.        *)
Shown ==
    <<minted, receipt, lot, request, lien,
      [k \in Key |-> <<event[k].type, event[k].from>>]>>

WhoAndWhere == Who \cup {Swap}
=============================================================================
