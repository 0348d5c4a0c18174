------------------------------- MODULE MCAgent -------------------------------
(* Components of simplus-agent, the codec it shares with the VoWiFi worker *)
(* and simplusd, and the news of its hardware on their way to a browser.   *)
(* They share no state in the models: `side' picks the one a behaviour is  *)
(* about, and the others stay as they start.                               *)
EXTENDS Agent, TLC

CONSTANTS MaxOctets, GsmSingle, GsmConcat, Ucs2Single, Ucs2Concat, MaxSeptets,
          MaxUnits, MaxForeign

VARIABLES
  side,
  draft, pdus, sentBy

CONSTANTS h1, h2, h3, m1, s1

Interchangeable == Permutations(Operations) \cup Permutations(Browsers)
                     \cup Permutations(Aids)

(* Commands of two owners and of two groups, one operation id used twice.  *)
Command(o, t, r, g) == [operation |-> o, group |-> g, generation |-> 1,
                        token |-> t, life |-> 1, revision |-> r]
MCCommands == {Command("o1", 1, 1, "g"), Command("o2", 2, 1, "g"),
               Command("o1", 2, 1, "g"), Command("o3", 3, 2, "h"),
               [Command("o2", 2, 1, "g") EXCEPT !.life = 2]}

MCGroupOf == (h1 :> "g") @@ (h2 :> "g") @@ (h3 :> "g")
MCKindOf  == (h1 :> "operation") @@ (h2 :> "operation") @@ (h3 :> "call")

(* Files of an application that is not on the card are not looked at.      *)
MCCards == {c \in Cards : \A a \in Aids \ c.applications, f \in Files :
                            c.files[a][f] = "padding"}

Codec == INSTANCE SmsCodec

ASSUME Codec!CodecAssumption
(* The limits of the code itself hold what they are said to hold, too.     *)
RealCodec == INSTANCE SmsCodec WITH MaxOctets <- 140, GsmSingle <- 160,
               GsmConcat <- 153, Ucs2Single <- 70, Ucs2Concat <- 67
ASSUME RealCodec!CodecAssumption

codecVars == <<draft, pdus, sentBy>>
agentVars == <<side, gateVars, ledgerVars, leaseVars, newsVars, simVars,
                 lineVars, codecVars>>

(* What the other sides start with is not looked at: one value is enough.  *)
AgentInit ==
  /\ side \in {"gate", "ledger", "leases", "news", "sim", "line", "codec"}
  /\ IF side # "gate"
       THEN plugged = [p \in Ports |-> [modem |-> m1, sim |-> s1]] ELSE TRUE
  /\ IF side # "sim"
       THEN card = [directory |-> "listed", applications |-> Aids, channels |-> 1,
                    files |-> [a \in Aids |-> [f \in Files |-> "padding"]]]
       ELSE card \in MCCards
  /\ IF side # "line"
       THEN transport = "at" ELSE TRUE
  /\ GateInit
  /\ LedgerInit
  /\ LeaseInit
  /\ NewsInit
  /\ SimInit
  /\ LineInit
  /\ Codec!CodecInit

GateOnly == UNCHANGED <<side, ledgerVars, leaseVars, newsVars, simVars,
                        lineVars, codecVars>>
LedgerOnly == UNCHANGED <<side, gateVars, leaseVars, newsVars, simVars,
                          lineVars, codecVars>>
LeaseOnly == UNCHANGED <<side, gateVars, ledgerVars, newsVars, simVars,
                         lineVars, codecVars>>
NewsOnly == UNCHANGED <<side, gateVars, ledgerVars, leaseVars, simVars,
                        lineVars, codecVars>>
CardOnly == UNCHANGED <<side, gateVars, ledgerVars, leaseVars, newsVars,
                        lineVars, codecVars>>
LineOnly == UNCHANGED <<side, gateVars, ledgerVars, leaseVars, newsVars,
                        simVars, codecVars>>
CodecOnly == UNCHANGED <<side, gateVars, ledgerVars, leaseVars, newsVars,
                         simVars, lineVars>>

AgentNext ==
  \/ side = "gate" /\ GateOnly /\ GateNext
  \/ side = "ledger" /\ LedgerOnly /\ LedgerNext
  \/ side = "leases" /\ LeaseOnly /\ LeaseNext
  \/ side = "news" /\ NewsOnly /\ NewsNext
  \/ side = "sim" /\ CardOnly /\ SimNext
  \/ side = "line" /\ LineOnly /\ LineNext
  \/ side = "codec" /\ CodecOnly /\ Codec!CodecNext

AgentSpec == AgentInit /\ [][AgentNext]_agentVars

(* A text in segments is read as it was written, and what the worker keeps *)
(* of a stranger's is carried on, with the known exceptions (smscodec).    *)
TextsAreRead == side = "codec" => Codec!CodecTypeOK /\ Codec!CodecIsSafe

=============================================================================
