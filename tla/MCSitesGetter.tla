--------------------------- MODULE MCSitesGetter ---------------------------
(* Two sites, one of them without an IPv6 address, and a payload each that  *)
(* is whole, empty, short, and spoilt at its end.                           *)
EXTENDS SitesGetter

CONSTANTS bad, noPingers

Near == [name |-> "near", ipv4 |-> <<"4.1">>, ipv6 |-> <<>>]
Far == [name |-> "far", ipv4 |-> <<"4.2", "4.3">>, ipv6 |-> <<"6.2">>]

MCSite == {Near, Far}
MCPayload == {<<Near, Far>>, <<>>, <<Far>>, <<Far, bad>>}
=============================================================================
