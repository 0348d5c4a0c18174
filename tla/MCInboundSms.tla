---------------------------- MODULE MCInboundSms ----------------------------
(* Small instances of InboundSms: a long message a in two segments, the    *)
(* first segment of another one, b, with the same reference, and a short   *)
(* message c; c is the youngest.                                           *)
EXTENDS InboundSms, TLC

CONSTANTS a1, a2, b1, c1, a, b, c

MCMessageOf   == (a1 :> a) @@ (a2 :> a) @@ (b1 :> b) @@ (c1 :> c)
MCPartOf      == (a1 :> 1) @@ (a2 :> 2) @@ (b1 :> 1) @@ (c1 :> 1)
MCTotalOf     == (a :> 2) @@ (b :> 2) @@ (c :> 1)
MCReferenceOf == (a :> "long") @@ (b :> "long") @@ (c :> "short")
MCSenderOf    == (a :> "sender") @@ (b :> "sender") @@ (c :> "sender")
MCRankOf      == (a1 :> 1) @@ (b1 :> 2) @@ (a2 :> 3) @@ (c1 :> 4)
MCAgeOf       == [d \in Deliveries |-> MCRankOf[d]]
=============================================================================
