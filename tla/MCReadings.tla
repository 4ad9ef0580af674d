----------------------------- MODULE MCReadings -----------------------------
(***************************************************************************)
(* Small instances of Readings: two nested networks; a phone and a guest   *)
(* on the air, a client of the VPN, which has neither MAC nor network.     *)
(***************************************************************************)
EXTENDS Readings

CONSTANTS phone, visitor, remote, wide, narrow, sw

MCAttr == (phone   :> [mac |-> TRUE,  guest |-> FALSE, type |-> "WIRELESS", ssid |-> "house"])
       @@ (visitor :> [mac |-> TRUE,  guest |-> TRUE,  type |-> "WIRELESS", ssid |-> "house"])
       @@ (remote  :> [mac |-> FALSE, guest |-> FALSE, type |-> "VPN",      ssid |-> ""])
MCRank == (phone :> 2) @@ (visitor :> 1) @@ (remote :> 3)
MCPrefix == (phone   :> ((wide :> 16) @@ (narrow :> 24)))
         @@ (visitor :> ((wide :> 16) @@ (narrow :> NoMatch)))
         @@ (remote  :> ((wide :> NoMatch) @@ (narrow :> NoMatch)))
MCAssigned == (phone :> narrow) @@ (visitor :> wide) @@ (remote :> NoNet)
MCVlan == (wide :> 1) @@ (narrow :> 20)

Open == [exclude |-> {}, include |-> {}, guests |-> FALSE, types |-> {},
         networks |-> {}, vlans |-> {}, ssids |-> {}, max |-> 2]
OnVlan20  == [Open EXCEPT !.vlans = {20}, !.types = {"WIRELESS"}, !.max = 1]
OnWide    == [Open EXCEPT !.networks = {wide}, !.guests = TRUE]
ByMac     == [Open EXCEPT !.include = {phone, visitor}, !.exclude = {visitor}, !.vlans = {1}]
OnSsid    == [Open EXCEPT !.ssids = {"house"}]
MCFilters == {Open, OnVlan20, OnWide, ByMac, OnSsid}
=============================================================================
