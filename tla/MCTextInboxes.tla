--------------------------- MODULE MCTextInboxes ---------------------------
(* The two ways a text message comes in, an IMS session and a modem, and   *)
(* the modem's way out.  `side' picks the one a behaviour is about; the    *)
(* others stay as they start.                                              *)
EXTENDS MCInboundSms, ModemInbox, ModemSend

CONSTANTS p1, p2, u

VARIABLE side

MCTextOf      == (p1 :> "p") @@ (p2 :> "p") @@ (u :> "u")
MCTotalOfText == ("p" :> 2) @@ ("u" :> 1)
MCAgeOfEntry  == (p1 :> 1) @@ (p2 :> 2) @@ (u :> 3)

textVars == <<side, vars, inboxVars, sendVars>>

TextInit == /\ side \in {"ims", "storage", "outgoing"}
            /\ Init /\ InboxInit /\ SendInit

OverIms   == side = "ims" /\ UNCHANGED <<side, inboxVars, sendVars>>
InStorage == side = "storage" /\ UNCHANGED <<side, vars, sendVars>>
GoingOut  == side = "outgoing" /\ UNCHANGED <<side, vars, inboxVars>>

TextNext == \/ OverIms /\ Next
            \/ InStorage /\ InboxNext
            \/ GoingOut /\ SendNext

(* The fairness of InboundSms and of ModemInbox.                           *)
TextSpec == /\ TextInit /\ [][TextNext]_textVars
            /\ WF_textVars(OverIms /\ PassStep)
            /\ WF_textVars(InStorage /\ ListStorage)
            /\ WF_textVars(InStorage /\ CallStep)
=============================================================================
