---------------------------- MODULE MCImsWorker ----------------------------
(* A VoWiFi worker on a small instance: text messages on their way through *)
(* it, the correlation of their reports, and the registration it keeps.    *)
(* `side' picks the one a behaviour is about; the others stay as they      *)
(* start.                                                                  *)
EXTENDS MCOutboundSms, ImsCorrelation, ImsRegistration

VARIABLE side

workerRunVars == <<side, vars, correlationVars, imsVars>>

WorkerInit == /\ side \in {"messages", "correlation", "registration"}
              /\ Init /\ CorrelationInit /\ ImsInit
              /\ side # "correlation" => gateway = "requires"

OfMessages     == side = "messages" /\ UNCHANGED <<side, correlationVars, imsVars>>
OfCorrelation  == side = "correlation" /\ UNCHANGED <<side, vars, imsVars>>
OfRegistration == side = "registration" /\ UNCHANGED <<side, vars, correlationVars>>

WorkerNext == \/ OfMessages /\ Next
              \/ OfCorrelation /\ CorrelationNext
              \/ OfRegistration /\ ImsNext

WorkerSpec == WorkerInit /\ [][WorkerNext]_workerRunVars
=============================================================================
