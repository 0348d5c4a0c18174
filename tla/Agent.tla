------------------------------- MODULE Agent --------------------------------
(* What runs in simplus-agent or feeds from it, of which the theorems of   *)
(* Agent_proofs are: the device gate, the news of the hardware, radio      *)
(* commands, the leases of resource groups, the SIM and the conversations  *)
(* with a modem.                                                           *)
EXTENDS DeviceGate, HardwareNews, OutcomeLedger, ResourceLeases, SimIdentity,
        AtLine

(* A radio command runs at most once, alone, and its recorded outcome is   *)
(* what happened; leases held together fit their group's limits and their  *)
(* tokens fence earlier holders (OutcomeStore, CommandService,             *)
(* resource_leases.go).                                                    *)
CommandsAreSafe == LedgerIsSafe /\ LeasesAreSafe

(* Every channel of the card that was opened is closed again, and an       *)
(* identity is of one source (ml307a_isim.go, sim_identity.go); what is    *)
(* said of a message is so whatever lines of given-up commands are still   *)
(* to come, and the terminal is left as it was found (attransport,         *)
(* standardsms, atremote).                                                 *)
ConversationsAreSafe == SimIsSafe /\ LineIsSafe
=============================================================================
