--------------------------- MODULE MCOutboundSms ---------------------------
(* Small instances of OutboundSms: two requests, for two operations or for *)
(* one (a retry); the length of the first operation's body is a parameter. *)
EXTENDS OutboundSms, TLC

CONSTANTS r1, r2, o1, o2, OperationOfR2, SegmentsOfO1

MCOperationOf == (r1 :> o1) @@ (r2 :> OperationOfR2)
MCSegmentsOf  == (o1 :> SegmentsOfO1) @@ (o2 :> 1)
=============================================================================
