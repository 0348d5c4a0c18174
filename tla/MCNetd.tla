------------------------------ MODULE MCNetd ------------------------------
(* simplus-netd's two kinds of supervised processes, VoWiFi workers of two *)
(* Lines and Mihomo, and the installation of Mihomo's binary.  `side'      *)
(* picks the one a behaviour is about; the others stay as they start.      *)
EXTENDS MCVowifiLifecycle, Mihomo

VARIABLE side

netdRunVars == <<side, vars, mihomoVars, coreVars>>

NetdInit == /\ side \in {"vowifi", "mihomo", "core"}
            /\ Init /\ MihomoInit /\ CoreInit
            /\ side # "vowifi" => \A l \in Lines : ~desired[l]

OfVowifi == side = "vowifi" /\ UNCHANGED <<side, mihomoVars, coreVars>>
OfMihomo == side = "mihomo" /\ UNCHANGED <<side, vars, coreVars>>
OfCore   == side = "core" /\ UNCHANGED <<side, vars, mihomoVars>>

NetdNext == \/ OfVowifi /\ Next
            \/ OfMihomo /\ MihomoNext
            \/ OfCore /\ CoreNext

(* The fairness of VowifiLifecycle.                                        *)
NetdFairness ==
  /\ \A l \in Lines :
       /\ SF_netdRunVars(OfVowifi /\ CallStop(l))
       /\ SF_netdRunVars(OfVowifi /\ CallStart(l))
       /\ \A s \in Slots : /\ WF_netdRunVars(OfVowifi /\ StartSteps(l, s))
                           /\ WF_netdRunVars(OfVowifi /\ MonitorSteps(l, s))
                           /\ WF_netdRunVars(OfVowifi /\ FirstEvent(l, s))
  /\ WF_netdRunVars(OfVowifi /\ Reconcile)
  /\ WF_netdRunVars(OfVowifi /\ StopReturns)
  /\ WF_netdRunVars(OfVowifi /\ StartAnswers)
  /\ WF_netdRunVars(OfVowifi /\ PassEnds)
  /\ WF_netdRunVars(OfVowifi /\ Restart)

NetdSpec == NetdInit /\ [][NetdNext]_netdRunVars /\ NetdFairness
=============================================================================
