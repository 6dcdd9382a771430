----------------------------- MODULE MCPairing -----------------------------
(***************************************************************************)
(* Instances of Pairing for TLC: two connections in all, of a phone that   *)
(* tries two addresses or is given a code twice, or of a phone and a       *)
(* browser with the same token.                                            *)
(***************************************************************************)
EXTENDS Pairing, TLC

CONSTANTS phone, browser, t1, lan, tail, loop

HostOfKind(kind, id) == [kind |-> kind, id |-> id]
Lan == HostOfKind("private", lan)
Tailnet == HostOfKind("tailnet", tail)
Loopback == HostOfKind("loopback", loop)
Hosts == {Lan, Tailnet, Loopback}

Json(addrs) == [form |-> "json", token |-> t1, spki |-> TRUE, port |-> TRUE, addrs |-> addrs]

\* The code of a daemon bound to an address of its own, a URL without an
\* address, and a text.
Codes ==
  {Json(AdvertisedAddrs(Lan, <<Lan, Tailnet>>)),
   [Json(<<>>) EXCEPT !.form = "url"],
   [Json(<<>>) EXCEPT !.form = "text"]}

Bounds == {phone :> 2 @@ browser :> 0, phone :> 1 @@ browser :> 1}
=============================================================================
