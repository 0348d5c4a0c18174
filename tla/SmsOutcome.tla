----------------------------- MODULE SmsOutcome -----------------------------
(***************************************************************************)
(* What simplus promises about outbound messages, without gates, workers,  *)
(* reports, passes or restarts: the abstract specification OutboundSms is  *)
(* shown to implement.                                                     *)
(*                                                                         *)
(*  - an operation has at most one live message, and only a live message   *)
(*    that is still queued is submitted to the network, at most once;      *)
(*  - the network confirms only what was submitted;                        *)
(*  - "sent" is shown only for a confirmed message, "failed" and "sent"    *)
(*    are final, "unconfirmed" is what may still become either;            *)
(*  - a user may delete a message at any time, in any status.              *)
(***************************************************************************)
CONSTANTS Messages, Operations, OperationOf

VARIABLES
  status,     \* what the message list shows
  submitted,  \* messages handed to the transport
  confirmed   \* messages the network confirmed completely

vars == << status, submitted, confirmed >>

Live == {"queued", "unconfirmed", "sent", "failed"}

Init ==
  /\ status = [m \in Messages |-> "absent"]
  /\ submitted = {}
  /\ confirmed = {}

Create(m) ==
  /\ status[m] = "absent"
  /\ \A other \in Messages :
       OperationOf[other] = OperationOf[m] => status[other] \notin Live
  /\ status' = [status EXCEPT ![m] = "queued"]
  /\ UNCHANGED << submitted, confirmed >>

(* A message deleted while it waits is still submitted.                    *)
Submit(m) ==
  /\ status[m] \in {"queued", "deleted"}
  /\ m \notin submitted
  /\ submitted' = submitted \cup {m}
  /\ UNCHANGED << status, confirmed >>

Confirm(m) ==
  /\ m \in submitted
  /\ confirmed' = confirmed \cup {m}
  /\ UNCHANGED << status, submitted >>

Settle(m, verdict) ==
  /\ status[m] \in {"queued", "unconfirmed"}
  /\ verdict = "sent" => m \in confirmed
  /\ status' = [status EXCEPT ![m] = verdict]
  /\ UNCHANGED << submitted, confirmed >>

(* A restart leaves no message queued.                                     *)
Interrupt ==
  /\ status' = [m \in Messages |->
                  IF status[m] = "queued" THEN "unconfirmed" ELSE status[m]]
  /\ UNCHANGED << submitted, confirmed >>

Delete(m) ==
  /\ status[m] \in Live
  /\ status' = [status EXCEPT ![m] = "deleted"]
  /\ UNCHANGED << submitted, confirmed >>

Next ==
  \/ \E m \in Messages :
       \/ Create(m) \/ Submit(m) \/ Confirm(m) \/ Delete(m)
       \/ \E verdict \in {"sent", "failed", "unconfirmed"} : Settle(m, verdict)
  \/ Interrupt

Spec == Init /\ [][Next]_vars
=============================================================================
