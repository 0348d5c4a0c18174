-------------------------- MODULE Services_proofs --------------------------
(* Theorems of the services, for any number of faults and requests: of     *)
(* VoiceCalls, for any Lines and operations; of CallEvents, for any SIMs,  *)
(* calls, boots, exchanges and stops and any size of the bridge's ring; of *)
(* Installation, for any mutations, grants, tokens and passwords; of       *)
(* LinePlan, for any ports, modems with any identities and SIMs; of Web,   *)
(* for any channels, routes, tabs and requests, and any history.           *)
EXTENDS VoiceCalls, CallEvents, Installation, LinePlan, Web,
        FiniteSetTheorems, SequenceTheorems, WellFoundedInduction, TLAPS

-----------------------------------------------------------------------------
(* The calls of the Lines.                                                 *)

(* A Dial that holds the lock has the record it created, still dialing: its *)
(* second write makes no second call of the Line busy.                     *)
DialIsDialing == \A r \in mu : r \in DOMAIN calls /\ calls[r] = "dialing"

OneOfALine ==
  \A k, m \in DOMAIN calls :
    calls[k] \in Busy /\ calls[m] \in Busy /\ k.line = m.line => k = m

OneOfAnOperation ==
  \A k, m \in DOMAIN calls : k.operation = m.operation => k = m

(* The ends of a call, as a set: none until it is over, then one.          *)
EndsOf(k) == {e \in ends : e[1] = k}
EndedOnce ==
  /\ \A k \in DOMAIN calls :
       IF calls[k] \in Over THEN \E reason : EndsOf(k) = {<<k, reason>>}
                            ELSE EndsOf(k) = {}
  /\ \A e \in ends : e[1] \in DOMAIN calls

(* The inductive invariant behind OneCallOnALine.                          *)
CallsInv == DialIsDialing /\ OneOfALine /\ OneOfAnOperation /\ EndedOnce

-----------------------------------------------------------------------------
LEMMA CallsInvInit == VoiceInit => CallsInv
BY DEF VoiceInit, CallsInv, DialIsDialing, OneOfALine, OneOfAnOperation,
   EndedOnce, EndsOf

(* A record that is put changes no other.                                  *)
LEMMA PutOne ==
  ASSUME NEW r, NEW state, Put(r, state)
  PROVE  /\ DOMAIN calls' = DOMAIN calls \cup {r}
         /\ calls'[r] = state
         /\ \A k \in DOMAIN calls : k # r => calls'[k] = calls[k]
BY DEF Put

(* A new record: its operation is not known and its Line is free.          *)
LEMMA CreatedIsAlone ==
  ASSUME CallsInv, NEW r, NEW state \in Busy,
         Known(r) = {}, Free(r.line), Put(r, state), UNCHANGED ends
  PROVE  OneOfALine' /\ OneOfAnOperation' /\ EndedOnce'
<1>1. \A k \in DOMAIN calls : k.operation # r.operation
  BY DEF Known
<1>2. \A k \in DOMAIN calls : k.line = r.line => calls[k] \notin Busy
  BY DEF Free, LineBusy
<1>3. /\ DOMAIN calls' = DOMAIN calls \cup {r}
      /\ calls'[r] = state
      /\ \A k \in DOMAIN calls : k # r /\ calls'[k] = calls[k]
  BY <1>1, PutOne
<1>4. OneOfALine'
  <2> SUFFICES ASSUME NEW k \in DOMAIN calls', NEW m \in DOMAIN calls',
                      calls'[k] \in Busy, calls'[m] \in Busy, k.line = m.line
               PROVE  k = m
    BY DEF OneOfALine
  <2>1. CASE k = r \/ m = r
    BY <1>2, <1>3, <2>1
  <2>2. CASE k \in DOMAIN calls /\ m \in DOMAIN calls
    BY <1>3, <2>2 DEF CallsInv, OneOfALine
  <2>3. QED
    BY <1>3, <2>1, <2>2
<1>5. OneOfAnOperation'
  <2> SUFFICES ASSUME NEW k \in DOMAIN calls', NEW m \in DOMAIN calls',
                      k.operation = m.operation
               PROVE  k = m
    BY DEF OneOfAnOperation
  <2>1. CASE k = r \/ m = r
    BY <1>1, <1>3, <2>1
  <2>2. CASE k \in DOMAIN calls /\ m \in DOMAIN calls
    BY <2>2 DEF CallsInv, OneOfAnOperation
  <2>3. QED
    BY <1>3, <2>1, <2>2
<1>6. EndedOnce'
  <2>1. EndsOf(r) = {}
    BY <1>3 DEF CallsInv, EndedOnce, EndsOf
  <2>2. \A k : EndsOf(k)' = EndsOf(k)
    BY DEF EndsOf
  <2>3. state \notin Over
    BY DEF Busy, Over
  <2>4. ASSUME NEW k \in DOMAIN calls'
        PROVE  IF calls'[k] \in Over THEN \E why : EndsOf(k)' = {<<k, why>>}
                                     ELSE EndsOf(k)' = {}
    BY <1>3, <2>1, <2>2, <2>3 DEF CallsInv, EndedOnce
  <2>5. \A e \in ends' : e[1] \in DOMAIN calls'
    BY <1>3 DEF CallsInv, EndedOnce
  <2>6. QED
    BY <2>4, <2>5 DEF EndedOnce
<1>7. QED
  BY <1>4, <1>5, <1>6

(* A call in progress that goes on: nothing is over that was not.          *)
LEMMA ProgressIsKept ==
  ASSUME CallsInv, NEW r \in DOMAIN calls, calls[r] \in Busy, NEW state \in Busy,
         Put(r, state), UNCHANGED ends
  PROVE  OneOfALine' /\ OneOfAnOperation' /\ EndedOnce'
<1>1. DOMAIN calls' = DOMAIN calls
  BY PutOne
<1>2. \A k \in DOMAIN calls : calls'[k] \in Busy <=> calls[k] \in Busy
  BY PutOne
<1>3. \A k \in DOMAIN calls : calls'[k] \in Over <=> calls[k] \in Over
  BY PutOne DEF Busy, Over
<1>4. \A k : EndsOf(k)' = EndsOf(k)
  BY DEF EndsOf
<1>5. QED
  BY <1>1, <1>2, <1>3, <1>4 DEF CallsInv, OneOfALine, OneOfAnOperation, EndedOnce

(* A call that ends is given its one reason.                               *)
LEMMA EndIsOne ==
  ASSUME CallsInv, NEW r \in DOMAIN calls, calls[r] \in Busy, NEW reason,
         Put(r, "ended"), ends' = ends \cup {<<r, reason>>}
  PROVE  OneOfALine' /\ OneOfAnOperation' /\ EndedOnce'
<1>1. DOMAIN calls' = DOMAIN calls
  BY PutOne
<1>2. OneOfALine' /\ OneOfAnOperation'
  <2>1. \A k \in DOMAIN calls : calls'[k] \in Busy => calls[k] \in Busy
    BY PutOne DEF Busy
  <2>2. QED
    BY <1>1, <2>1 DEF CallsInv, OneOfALine, OneOfAnOperation
<1>3. EndsOf(r) = {}
  BY DEF CallsInv, EndedOnce, Busy, Over
<1>4. EndsOf(r)' = {<<r, reason>>}
  BY <1>3 DEF EndsOf
<1>5. \A k : k # r => EndsOf(k)' = EndsOf(k)
  BY DEF EndsOf
<1>6. calls'[r] \in Over
  BY PutOne DEF Over
<1>7. EndedOnce'
  <2>1. ASSUME NEW k \in DOMAIN calls, k # r
        PROVE  calls'[k] = calls[k] /\ EndsOf(k)' = EndsOf(k)
    BY <1>5, <2>1, PutOne
  <2>2. \A k \in DOMAIN calls' :
          IF calls'[k] \in Over THEN \E why : EndsOf(k)' = {<<k, why>>}
                                ELSE EndsOf(k)' = {}
    BY <1>1, <1>4, <1>6, <2>1 DEF CallsInv, EndedOnce
  <2>3. \A e \in ends' : e[1] \in DOMAIN calls'
    BY <1>1 DEF CallsInv, EndedOnce
  <2>4. QED
    BY <2>2, <2>3 DEF EndedOnce
<1>8. QED
  BY <1>2, <1>7

(* A restart fails every call in progress, each for the first time.        *)
LEMMA RestartKeeps == CallsInv /\ RestartVoice => CallsInv'
<1> SUFFICES ASSUME CallsInv, RestartVoice PROVE CallsInv'
  OBVIOUS
<1> DEFINE stopped == {k \in DOMAIN calls : calls[k] \in Busy}
<1>1. /\ DOMAIN calls' = DOMAIN calls
      /\ \A k \in DOMAIN calls :
           calls'[k] = IF calls[k] \in Busy THEN "failed" ELSE calls[k]
  BY DEF RestartVoice
<1>2. \A k \in DOMAIN calls : calls'[k] \notin Busy
  BY <1>1 DEF Busy
<1>3. ends' = ends \cup (stopped \X {"interrupted"})
  BY DEF RestartVoice
<1>4. ASSUME NEW k \in stopped
      PROVE  EndsOf(k)' = {<<k, "interrupted">>}
  <2>1. EndsOf(k) = {}
    BY DEF CallsInv, EndedOnce, Busy, Over
  <2>2. QED
    BY <1>3, <2>1 DEF EndsOf
<1>5. ASSUME NEW k, k \notin stopped
      PROVE  EndsOf(k)' = EndsOf(k)
  BY <1>3, <1>5 DEF EndsOf
<1>6. EndedOnce'
  <2>1. ASSUME NEW k \in DOMAIN calls
        PROVE  IF calls'[k] \in Over THEN \E why : EndsOf(k)' = {<<k, why>>}
                                     ELSE EndsOf(k)' = {}
    <3>1. CASE k \in stopped
      BY <1>1, <1>4, <3>1 DEF Over
    <3>2. CASE k \notin stopped
      BY <1>1, <1>5, <3>2 DEF CallsInv, EndedOnce
    <3>3. QED
      BY <3>1, <3>2
  <2>2. \A e \in ends' : e[1] \in DOMAIN calls'
    BY <1>1, <1>3 DEF CallsInv, EndedOnce
  <2>3. QED
    BY <1>1, <2>1, <2>2 DEF EndedOnce
<1>7. DialIsDialing' /\ OneOfALine' /\ OneOfAnOperation'
  BY <1>1, <1>2 DEF CallsInv, DialIsDialing, OneOfALine, OneOfAnOperation,
     RestartVoice
<1>8. QED
  BY <1>6, <1>7 DEF CallsInv

LEMMA CallsInvNext == CallsInv /\ [VoiceNext]_voiceVars => CallsInv'
<1> SUFFICES ASSUME CallsInv, [VoiceNext]_voiceVars PROVE CallsInv'
  OBVIOUS
<1>1. ASSUME NEW r \in Requests, Incoming(r) PROVE CallsInv'
  <2>1. mu' = {}
    BY <1>1 DEF Incoming, Locked
  <2>2. QED
    BY <1>1, <2>1, CreatedIsAlone DEF Incoming, CallsInv, DialIsDialing, Busy
<1>2. ASSUME NEW r \in Requests, Dial(r) PROVE CallsInv'
  <2>1. DialIsDialing'
    BY <1>2, PutOne DEF Dial, DialIsDialing
  <2>2. OneOfALine' /\ OneOfAnOperation' /\ EndedOnce'
    BY <1>2, CreatedIsAlone DEF Dial, Busy
  <2>3. QED
    BY <2>1, <2>2 DEF CallsInv
<1>3. ASSUME NEW r \in Requests, DialActive(r) PROVE CallsInv'
  <2>1. r \in DOMAIN calls /\ calls[r] \in Busy
    BY <1>3 DEF DialActive, CallsInv, DialIsDialing, Busy
  <2>2. QED
    BY <1>3, <2>1, ProgressIsKept DEF DialActive, CallsInv, DialIsDialing, Busy
<1>4. ASSUME NEW r \in Requests, Answer(r) PROVE CallsInv'
  <2>1. calls[r] \in Busy
    BY <1>4 DEF Answer, From, Busy
  <2>2. QED
    BY <1>4, <2>1, ProgressIsKept DEF Answer, CallsInv, DialIsDialing, Busy
<1>5. ASSUME NEW r \in Requests,
             EndCall(r, "reject", "rejected") \/ EndCall(r, "hangup", "hangup")
      PROVE  CallsInv'
  <2>1. r \in DOMAIN calls /\ calls[r] \in Busy /\ mu' = {}
    BY <1>5 DEF EndCall, From, Busy
  <2>2. OneOfALine' /\ OneOfAnOperation' /\ EndedOnce'
    BY <1>5, <2>1, EndIsOne DEF EndCall
  <2>3. QED
    BY <2>1, <2>2 DEF CallsInv, DialIsDialing
<1>6. ASSUME NEW r \in Requests,
             Admit(r) \/ Refuse(r) \/ RequestFails(r) \/ DialUnfinished(r)
      PROVE  CallsInv'
  <2>1. UNCHANGED <<calls, ends>> /\ mu' \subseteq mu
    BY <1>6 DEF Admit, Refuse, RequestFails, DialUnfinished
  <2>2. QED
    BY <2>1 DEF CallsInv, DialIsDialing, OneOfALine, OneOfAnOperation, EndedOnce,
       EndsOf
<1>7. ASSUME (\E l \in VoiceLines : ChangeReadiness(l)) \/ UNCHANGED voiceVars
      PROVE  CallsInv'
  <2>1. UNCHANGED <<calls, ends, mu>>
    BY <1>7 DEF ChangeReadiness, voiceVars
  <2>2. QED
    BY <2>1 DEF CallsInv, DialIsDialing, OneOfALine, OneOfAnOperation, EndedOnce,
       EndsOf
<1>8. QED
  BY <1>1, <1>2, <1>3, <1>4, <1>5, <1>6, <1>7, RestartKeeps DEF VoiceNext

(* The types, with the lock held by at most one Dial.                      *)
VoiceTyped ==
  /\ ready \subseteq VoiceLines /\ admitted \subseteq Requests
  /\ mu = {} \/ \E r \in Requests : mu = {r}
  /\ DOMAIN calls \subseteq Requests
  /\ \A r \in DOMAIN calls : calls[r] \in Busy \cup Over
  /\ ends \subseteq Requests \X {"rejected", "hangup", "interrupted"}
  /\ readiness \in 0 .. MaxReadiness /\ callFaults \in 0 .. MaxCallFaults

LEMMA VoiceTypedInit == VoiceInit => VoiceTyped
BY VoiceAssumption DEF VoiceInit, VoiceTyped

LEMMA PutIsTyped ==
  ASSUME VoiceTyped, NEW r \in Requests, NEW state \in Busy \cup Over, Put(r, state)
  PROVE  /\ DOMAIN calls' \subseteq Requests
         /\ \A k \in DOMAIN calls' : calls'[k] \in Busy \cup Over
<1>1. DOMAIN calls' = DOMAIN calls \cup {r}
  BY PutOne
<1>2. ASSUME NEW k \in DOMAIN calls' PROVE calls'[k] \in Busy \cup Over
  <2>1. CASE k = r
    BY <2>1, PutOne
  <2>2. CASE k # r
    BY <1>1, <2>2, PutOne DEF VoiceTyped
  <2>3. QED
    BY <2>1, <2>2
<1>3. QED
  BY <1>1, <1>2 DEF VoiceTyped

LEMMA VoiceTypedNext == VoiceTyped /\ [VoiceNext]_voiceVars => VoiceTyped'
<1> SUFFICES ASSUME VoiceTyped, [VoiceNext]_voiceVars PROVE VoiceTyped'
  OBVIOUS
<1>1. CallFault => callFaults' \in 0 .. MaxCallFaults
  BY VoiceAssumption DEF CallFault, VoiceTyped
<1>2. {"incoming", "dialing", "active", "ended", "failed"} \subseteq Busy \cup Over
  BY DEF Busy, Over
<1>3. ASSUME NEW l \in VoiceLines, ChangeReadiness(l) PROVE VoiceTyped'
  BY <1>3, VoiceAssumption DEF ChangeReadiness, VoiceTyped
<1>4. ASSUME NEW r \in Requests,
             Incoming(r) \/ Dial(r) \/ DialActive(r) \/ Answer(r)
      PROVE  VoiceTyped'
  <2>1. \E state \in Busy \cup Over : Put(r, state)
    BY <1>2, <1>4 DEF Incoming, Dial, DialActive, Answer
  <2>2. /\ UNCHANGED <<ready, ends, readiness, callFaults>>
        /\ admitted' \subseteq admitted
        /\ mu' \in {mu, {}, {r}}
    BY <1>4 DEF Incoming, Dial, DialActive, Answer, Done
  <2>3. QED
    BY <2>1, <2>2, PutIsTyped DEF VoiceTyped
<1>5. ASSUME NEW r \in Requests,
             EndCall(r, "reject", "rejected") \/ EndCall(r, "hangup", "hangup")
      PROVE  VoiceTyped'
  <2>1. Put(r, "ended")
    BY <1>5 DEF EndCall
  <2>2. DOMAIN calls' \subseteq Requests /\ \A k \in DOMAIN calls' : calls'[k] \in Busy \cup Over
    BY <1>2, <2>1, PutIsTyped
  <2>3. QED
    BY <1>5, <2>2 DEF EndCall, VoiceTyped
<1>6. ASSUME NEW r \in Requests,
             Admit(r) \/ Refuse(r) \/ RequestFails(r) \/ DialUnfinished(r)
      PROVE  VoiceTyped'
  BY <1>1, <1>6 DEF Admit, Refuse, RequestFails, DialUnfinished, Done, VoiceTyped
<1>7. ASSUME RestartVoice PROVE VoiceTyped'
  BY <1>1, <1>2, <1>7 DEF RestartVoice, VoiceTyped
<1>8. ASSUME UNCHANGED voiceVars PROVE VoiceTyped'
  BY <1>8 DEF voiceVars, VoiceTyped
<1>9. QED
  BY <1>3, <1>4, <1>5, <1>6, <1>7, <1>8 DEF VoiceNext

LEMMA OneCallFollows == VoiceTyped /\ CallsInv => OneCallOnALine
<1> SUFFICES ASSUME VoiceTyped, CallsInv PROVE OneCallOnALine
  OBVIOUS
<1>1. ASSUME NEW k \in DOMAIN calls
      PROVE  Cardinality({e \in ends : e[1] = k})
               = IF calls[k] \in Over THEN 1 ELSE 0
  <2>1. CASE calls[k] \in Over
    BY <2>1, FS_Singleton DEF CallsInv, EndedOnce, EndsOf
  <2>2. CASE calls[k] \notin Over
    BY <2>2, FS_EmptySet DEF CallsInv, EndedOnce, EndsOf
  <2>3. QED
    BY <2>1, <2>2
<1>2. mu \subseteq Requests /\ Cardinality(mu) <= 1
  <2>1. mu = {} \/ \E r \in Requests : mu = {r}
    BY DEF VoiceTyped
  <2>2. CASE mu = {}
    BY <2>2, FS_EmptySet
  <2>3. ASSUME NEW r \in Requests, mu = {r}
        PROVE  mu \subseteq Requests /\ Cardinality(mu) <= 1
    <3>1. Cardinality({r}) = 1
      BY FS_Singleton
    <3>2. QED
      BY <2>3, <3>1
  <2>4. QED
    BY <2>1, <2>2, <2>3
<1>3. VoiceTypeOK
  BY <1>2 DEF VoiceTyped, VoiceTypeOK
<1>4. QED
  BY <1>1, <1>3 DEF CallsInv, OneOfALine, OneOfAnOperation, OneCallOnALine

(* A Line has one call in progress, an operation one call and a call one   *)
(* end, however many users dial, calls come in, writes fail and the        *)
(* service restarts (calls.Service).                                       *)
THEOREM LineHasOneCall == VoiceSpec => []OneCallOnALine
BY CallsInvInit, CallsInvNext, VoiceTypedInit, VoiceTypedNext, OneCallFollows, PTL
DEF VoiceSpec

-----------------------------------------------------------------------------
(* The calls that a bridge reports.                                        *)

USE DEF bridge

-----------------------------------------------------------------------------
(* The inductive invariant.                                                *)

Numbers == 1 .. MaxCallsIn

(* What became of a call of this boot: none is silently left out.          *)
Accounted(n) ==
  InHistory(n) \/ n \in passedBy \/ ~ringing[n].usable \/ n < Oldest

Reports == [boot : 1 .. boot, latest : 0 .. MaxCallsIn, oldest : Nat,
            events : SUBSET Numbers, calls : Seq(Events)]

(* A sweep records what one report of the bridge said, in order.           *)
Recording == [at : {"record"}, line : CallSims, report : Reports,
              position : 0 .. MaxCallsIn, first : BOOLEAN]

SweepTyped ==
  /\ sweep \in {NoSweep, [at |-> "again"]} \cup Recording
  /\ sweep.at = "record" =>
       /\ sweep.report.latest = Len(sweep.report.calls)
       /\ \A n \in sweep.report.events : n <= sweep.report.latest
       /\ sweep.position <= sweep.report.latest

(* The report of this boot is a prefix of what the bridge knows now.       *)
ReportIsPrefix ==
  /\ sweep.report.latest <= Latest
  /\ \A n \in 1 .. sweep.report.latest : sweep.report.calls[n] = ringing[n]

(* Up to its position every call is accounted for, and behind it every one *)
(* is in the report unless the ring has lost it.                           *)
SweepAccounts ==
  sweep.at = "record" /\ sweep.report.boot = boot =>
    /\ ReportIsPrefix
    /\ \A n \in 1 .. sweep.position : Accounted(n)
    /\ \A n \in 1 .. sweep.report.latest :
         n > sweep.position => n \in sweep.report.events \/ n < Oldest

CursorAccounts ==
  cursor # NoCursor /\ cursor.boot = boot =>
    /\ cursor.last <= Latest
    /\ \A n \in 1 .. cursor.last : Accounted(n)

CallInv == CallTypeOK /\ SweepTyped /\ SweepAccounts /\ CursorAccounts

-----------------------------------------------------------------------------
(* The ring.                                                               *)

LEMMA RingFacts ==
  ASSUME CallTypeOK
  PROVE  /\ Latest \in 0 .. MaxCallsIn /\ Oldest \in Nat
         /\ Held = {n \in 1 .. Latest : n >= Oldest}
<1>1. Latest \in Nat /\ Latest <= MaxCallsIn
  BY LenProperties DEF CallTypeOK, Latest
<1>2. QED
  BY <1>1, CallAssumption DEF Oldest, Held

(* A call more: nothing known of the earlier ones changes, and the ring    *)
(* may lose some.                                                          *)
LEMMA RingGrows ==
  ASSUME CallTypeOK, NEW usable \in BOOLEAN, Ring(usable)
  PROVE  /\ ringing' \in Seq(Events) /\ Latest' = Latest + 1
         /\ \A n \in 1 .. Latest : ringing'[n] = ringing[n]
         /\ Oldest <= Oldest' /\ Oldest' \in Nat
<1>1. [sim |-> sim, usable |-> usable] \in Events /\ ringing \in Seq(Events)
  BY DEF CallTypeOK, Events
<1>2. /\ ringing' \in Seq(Events) /\ Latest' = Latest + 1
      /\ \A n \in 1 .. Latest : ringing'[n] = ringing[n]
  BY <1>1, AppendProperties DEF Ring, Latest
<1>3. Latest \in Nat
  BY RingFacts
<1>4. QED
  BY <1>2, <1>3, CallAssumption DEF Oldest

-----------------------------------------------------------------------------
(* Every step.                                                             *)

LEMMA CallInvInit == CallInit => CallInv
<1> SUFFICES ASSUME CallInit PROVE CallInv
  OBVIOUS
<1>1. ringing \in Seq(Events) /\ Len(ringing) <= MaxCallsIn
  BY EmptySeq, CallAssumption DEF CallInit
<1>2. CallTypeOK
  BY <1>1, CallAssumption DEF CallInit, CallTypeOK
<1>3. sweep.at = "none"
  BY DEF CallInit, NoSweep
<1>4. QED
  BY <1>2, <1>3 DEF CallInit, CallInv, SweepTyped, SweepAccounts, CursorAccounts

(* What is accounted for stays so while the bridge runs.                   *)
LEMMA StaysAccounted ==
  ASSUME boot' = boot, history \subseteq history', passedBy \subseteq passedBy',
         Oldest \in Nat, Oldest' \in Nat, Oldest <= Oldest',
         NEW n \in Nat, ringing'[n] = ringing[n], Accounted(n)
  PROVE  Accounted(n)'
BY DEF Accounted, InHistory

LEMMA BridgeKeeps ==
  ASSUME CallInv, (\E usable \in BOOLEAN : Ring(usable)) \/ BridgeRestarts
                    \/ \E s \in CallSims : SwapSim(s)
  PROVE  CallInv'
<1>1. CASE \E usable \in BOOLEAN : Ring(usable)
  <2>1. PICK usable \in BOOLEAN : Ring(usable)
    BY <1>1
  <2>2. /\ ringing' \in Seq(Events) /\ Latest' = Latest + 1
        /\ \A n \in 1 .. Latest : ringing'[n] = ringing[n]
        /\ Oldest <= Oldest' /\ Oldest' \in Nat
    BY <2>1, RingGrows DEF CallInv
  <2>3. /\ Latest < MaxCallsIn
        /\ UNCHANGED <<boot, sim, swaps, cursor, sweep, history, passedBy, stops>>
    BY <2>1 DEF Ring
  <2>4. Latest \in 0 .. MaxCallsIn /\ Oldest \in Nat
    BY RingFacts DEF CallInv
  <2>5. CallTypeOK'
    <3>1. Len(ringing') <= MaxCallsIn
      BY <2>2, <2>3, <2>4, CallAssumption DEF Latest
    <3>2. QED
      BY <2>2, <2>3, <3>1 DEF CallInv, CallTypeOK
  <2>6. SweepTyped'
    BY <2>3 DEF CallInv, SweepTyped, Recording, Reports
  <2>7. \A n \in 1 .. Latest : Accounted(n) => Accounted(n)'
    BY <2>2, <2>3, <2>4, StaysAccounted
  <2>8. CursorAccounts'
    <3> SUFFICES ASSUME cursor # NoCursor, cursor.boot = boot
                 PROVE  cursor.last <= Latest' /\ \A n \in 1 .. cursor.last : Accounted(n)'
      BY <2>3 DEF CursorAccounts
    <3>1. cursor.last \in Nat /\ cursor.last <= Latest
      BY CallAssumption DEF CallInv, CallTypeOK, CursorAccounts
    <3>2. QED
      BY <2>2, <2>4, <2>7, <3>1 DEF CallInv, CursorAccounts
  <2>9. SweepAccounts'
    <3> SUFFICES ASSUME sweep.at = "record", sweep.report.boot = boot
                 PROVE  /\ ReportIsPrefix'
                        /\ \A n \in 1 .. sweep.position : Accounted(n)'
                        /\ \A n \in 1 .. sweep.report.latest :
                             n > sweep.position => n \in sweep.report.events \/ n < Oldest'
      BY <2>3 DEF SweepAccounts
    <3>1. /\ sweep.position \in Nat /\ sweep.report.latest \in Nat
          /\ sweep.position <= sweep.report.latest /\ sweep.report.latest <= Latest
      BY CallAssumption DEF CallInv, SweepTyped, Recording, Reports, NoSweep, SweepAccounts,
         ReportIsPrefix
    <3>2. ReportIsPrefix'
      BY <2>2, <2>3, <2>4, <3>1 DEF CallInv, SweepAccounts, ReportIsPrefix
    <3>3. \A n \in 1 .. sweep.position : Accounted(n)'
      BY <2>4, <2>7, <3>1 DEF CallInv, SweepAccounts
    <3>4. QED
      BY <2>2, <2>4, <3>1, <3>2, <3>3 DEF CallInv, SweepAccounts
  <2>10. QED
    BY <2>5, <2>6, <2>8, <2>9 DEF CallInv
<1>2. CASE BridgeRestarts
  <2>1. /\ boot' = boot + 1 /\ boot <= MaxBoots /\ ringing' = << >> /\ passedBy' = {}
        /\ UNCHANGED <<sim, swaps, cursor, sweep, history, stops>>
    BY <1>2 DEF BridgeRestarts
  <2>2. boot \in Nat /\ boot' \in 1 .. MaxBoots + 1 /\ 1 .. boot \subseteq 1 .. boot'
    BY <2>1, CallAssumption DEF CallInv, CallTypeOK
  <2>3. ringing' \in Seq(Events) /\ Len(ringing') <= MaxCallsIn
    BY <2>1, EmptySeq, CallAssumption
  <2>4. cursor' \in {NoCursor} \cup [boot : 1 .. boot', sim : CallSims,
                                     last : 0 .. MaxCallsIn]
    BY <2>1, <2>2 DEF CallInv, CallTypeOK
  <2>5. history' \subseteq [boot : 1 .. boot', sequence : 1 .. MaxCallsIn,
                            line : CallSims, sim : CallSims, first : BOOLEAN]
    BY <2>1, <2>2 DEF CallInv, CallTypeOK
  <2>6. CallTypeOK'
    BY <2>1, <2>2, <2>3, <2>4, <2>5 DEF CallInv, CallTypeOK
  <2>7. SweepTyped'
    <3>1. \A report \in Reports : report \in Reports'
      BY <2>2 DEF Reports
    <3>2. \A r \in Recording : r \in Recording'
      BY <3>1 DEF Recording
    <3>3. QED
      BY <2>1, <3>2 DEF CallInv, SweepTyped
  <2>8. cursor' # NoCursor => cursor'.boot # boot'
    BY <2>1, <2>2 DEF CallInv, CallTypeOK
  <2>9. sweep'.at = "record" => sweep'.report.boot # boot'
    BY <2>1, <2>2 DEF CallInv, SweepTyped, NoSweep, Recording, Reports
  <2>10. QED
    BY <2>6, <2>7, <2>8, <2>9 DEF CallInv, SweepAccounts, CursorAccounts
<1>3. CASE \E s \in CallSims : SwapSim(s)
  <2>1. /\ sim' \in CallSims /\ swaps' = swaps + 1 /\ swaps < MaxSwaps
        /\ UNCHANGED <<boot, ringing, cursor, sweep, history, passedBy, stops>>
    BY <1>3 DEF SwapSim
  <2>2. CallTypeOK'
    BY <2>1, CallAssumption DEF CallInv, CallTypeOK
  <2>3. QED
    BY <2>1, <2>2 DEF CallInv, SweepTyped, Recording, Reports, SweepAccounts,
       CursorAccounts, ReportIsPrefix, Accounted, InHistory, Latest, Oldest
<1>4. QED
  BY <1>1, <1>2, <1>3

(* A sweep starts where the cursor is, at the beginning of a boot, or      *)
(* passes by the calls of another SIM.                                     *)
LEMMA BeginAccounts ==
  ASSUME CallInv, NEW after \in {0, After},
         after = 0 \/ cursor.boot = boot,
         Begin(Read(after)), UNCHANGED <<bridge, cursor, history, stops>>
  PROVE  CallInv'
<1> DEFINE report == Read(after)
           pos == Position(report)
<1>1. /\ report.boot = boot /\ report.latest = Latest /\ report.oldest = Oldest
      /\ report.events = {n \in Held : n > after} /\ report.calls = ringing
  BY DEF Read
<1>2. /\ Latest \in 0 .. MaxCallsIn /\ Oldest \in Nat
      /\ Held = {n \in 1 .. Latest : n >= Oldest}
  BY RingFacts DEF CallInv
<1>3. /\ After \in 0 .. MaxCallsIn
      /\ cursor # NoCursor /\ cursor.boot = boot => After = cursor.last /\ After <= Latest
  BY CallAssumption DEF After, CallInv, CallTypeOK, CursorAccounts
<1>4. \/ pos = 0 /\ (cursor = NoCursor \/ cursor.boot # boot)
      \/ /\ cursor # NoCursor /\ cursor.boot = boot
         /\ pos = Latest \/ pos = After
  BY <1>1, <1>3 DEF Position
<1>5. /\ sweep' = [at |-> "record", line |-> sim, report |-> report, position |-> pos,
                   first |-> cursor = NoCursor]
      /\ passedBy' = IF pos > After /\ cursor # NoCursor /\ cursor.boot = boot
                       THEN passedBy \cup (After + 1 .. pos) ELSE passedBy
  BY <1>1 DEF Begin
<1>6. report \in Reports
  <2>1. boot \in 1 .. boot /\ ringing \in Seq(Events)
    BY CallAssumption DEF CallInv, CallTypeOK
  <2>2. {n \in Held : n > after} \subseteq Numbers
    BY <1>2, CallAssumption DEF Numbers
  <2>3. QED
    BY <1>2, <2>1, <2>2 DEF Read, Reports
<1> HIDE DEF report, pos
<1>7. pos \in 0 .. Latest
  BY <1>2, <1>3, <1>4
<1>8. CallTypeOK'
  <2>1. passedBy' \subseteq 1 .. MaxCallsIn
    BY <1>2, <1>3, <1>5, <1>7, CallAssumption DEF CallInv, CallTypeOK
  <2>2. QED
    BY <2>1 DEF CallInv, CallTypeOK
<1>9. /\ sweep'.at = "record" /\ sweep'.report = report /\ sweep'.position = pos
  BY <1>5
<1>10. SweepTyped'
  <2>1. sweep' \in Recording'
    <3>1. report \in Reports' /\ pos \in 0 .. MaxCallsIn /\ sim \in CallSims
      BY <1>2, <1>6, <1>7, CallAssumption DEF Reports, CallInv, CallTypeOK
    <3>2. QED
      BY <1>5, <3>1 DEF Recording
  <2>2. /\ report.latest = Len(report.calls)
        /\ \A n \in report.events : n <= report.latest
        /\ pos <= report.latest
    BY <1>1, <1>2, <1>7 DEF Latest
  <2>3. QED
    BY <1>9, <2>1, <2>2 DEF SweepTyped
<1>11. /\ Latest' = Latest /\ Oldest' = Oldest /\ ringing' = ringing /\ boot' = boot
       /\ passedBy \subseteq passedBy' /\ history' = history /\ cursor' = cursor
  BY <1>5 DEF Latest, Oldest
<1>12. \A n \in Nat : Accounted(n) => Accounted(n)'
  BY <1>2, <1>11, StaysAccounted
<1>13. CursorAccounts'
  BY <1>3, <1>11, <1>12 DEF CallInv, CursorAccounts
<1>14. ReportIsPrefix'
  BY <1>1, <1>2, <1>9, <1>11 DEF ReportIsPrefix
<1>15. ASSUME NEW n \in 1 .. pos PROVE Accounted(n)'
  <2>1. cursor # NoCursor /\ cursor.boot = boot /\ n \in Nat /\ After \in Nat /\ pos \in Nat
    BY <1>2, <1>3, <1>4, <1>7, <1>15, CallAssumption
  <2>2. CASE n <= After
    BY <1>3, <1>12, <2>1, <2>2 DEF CallInv, CursorAccounts
  <2>3. CASE n > After
    <3>1. n \in passedBy'
      BY <1>5, <1>15, <2>1, <2>3
    <3>2. QED
      BY <3>1 DEF Accounted
  <2>4. QED
    BY <2>1, <2>2, <2>3
<1>16. ASSUME NEW n \in 1 .. Latest, n > pos PROVE n \in report.events \/ n < Oldest
  <2>1. n > after
    <3>1. n \in Nat /\ pos \in Nat /\ n > 0
      BY <1>2, <1>7
    <3>2. CASE after = 0
      BY <3>1, <3>2
    <3>3. CASE after = After /\ cursor = NoCursor
      BY <3>1, <3>3 DEF After
    <3>4. CASE after = After /\ cursor # NoCursor /\ after # 0
      <4>1. (pos = Latest \/ pos = After) /\ After \in Nat /\ Latest \in Nat
        BY <1>2, <1>3, <1>4, <3>4
      <4>2. pos = After
        BY <1>16, <3>1, <4>1
      <4>3. QED
        BY <1>16, <3>4, <4>2
    <3>5. QED
      BY <3>2, <3>3, <3>4
  <2>2. QED
    BY <1>1, <1>2, <2>1
<1>17. SweepAccounts'
  BY <1>1, <1>9, <1>11, <1>14, <1>15, <1>16 DEF SweepAccounts
<1>18. QED
  BY <1>8, <1>10, <1>13, <1>17 DEF CallInv

(* The next call of the report; those between it and the position are lost *)
(* to the ring.                                                            *)
LEMMA NearestIsNext ==
  ASSUME CallInv, sweep.at = "record", Left # {}
  PROVE  /\ Nearest \in sweep.report.events /\ Nearest > sweep.position
         /\ Nearest \in Numbers /\ Nearest <= sweep.report.latest
         /\ \A n \in sweep.report.events : n > sweep.position => Nearest <= n
<1>1. sweep \in Recording /\ Left = {n \in sweep.report.events : n > sweep.position}
  BY DEF CallInv, SweepTyped, NoSweep, Left
<1>2. sweep.report.events \in SUBSET Numbers
  BY <1>1 DEF Recording, Reports
<1>3. Left \in SUBSET Nat
  BY <1>1, <1>2, CallAssumption DEF Numbers
<1>4. \E k \in Left : \A j \in Left : k <= j
  <2>1. PICK k \in Left : \A j \in Left : ~(<<j, k>> \in OpToRel(<, Nat))
    BY <1>3, NatLessThanWellFounded, WFMin
  <2>2. \A j \in Left : ~(j < k)
    BY <1>3, <2>1 DEF OpToRel
  <2>3. QED
    BY <1>3, <2>2
<1>5. Nearest \in Left /\ \A m \in Left : Nearest <= m
  BY <1>4 DEF Nearest
<1>6. QED
  BY <1>1, <1>2, <1>5 DEF CallInv, SweepTyped

LEMMA RecordAccounts == ASSUME CallInv, RecordNext PROVE CallInv'
<1> DEFINE n == Nearest
           report == sweep.report
<1>1. sweep \in Recording /\ sweep.at = "record" /\ Left # {}
  BY DEF RecordNext, CallInv, SweepTyped, NoSweep
<1>2. /\ n \in report.events /\ n > sweep.position
      /\ n \in Numbers /\ n <= report.latest
      /\ \A m \in report.events : m > sweep.position => n <= m
  BY <1>1, NearestIsNext
<1>3. /\ report \in Reports /\ report.latest = Len(report.calls)
      /\ report.calls \in Seq(Events) /\ report.boot \in 1 .. boot
      /\ report.latest \in 0 .. MaxCallsIn
  BY <1>1 DEF CallInv, SweepTyped, Recording, Reports
<1>4. n \in 1 .. Len(report.calls) /\ n \in Nat
  BY <1>2, <1>3, CallAssumption DEF Numbers
<1>5. report.calls[n] \in Events
  BY <1>3, <1>4, ElementOfSeq
<1>6. /\ sweep' = [sweep EXCEPT !.position = n]
      /\ UNCHANGED <<bridge, cursor, passedBy, stops>>
  BY DEF RecordNext
<1>7. history \subseteq history' /\ history' \subseteq history \cup {Record}
  BY DEF RecordNext
<1>8. report.calls[n].usable => \E h \in history' : h.boot = report.boot /\ h.sequence = n
  <2> SUFFICES ASSUME report.calls[n].usable
               PROVE  \E h \in history' : h.boot = report.boot /\ h.sequence = n
    OBVIOUS
  <2>1. history' = IF Same(Record) = {} THEN history \cup {Record} ELSE history
    BY DEF RecordNext
  <2>2. Record.boot = report.boot /\ Record.sequence = n
    BY DEF Record
  <2> HIDE DEF n, report
  <2>3. CASE Same(Record) = {}
    BY <2>1, <2>2, <2>3
  <2>4. CASE Same(Record) # {}
    BY <2>1, <2>2, <2>4 DEF Same
  <2>5. QED
    BY <2>3, <2>4
<1>9. Record \in [boot : 1 .. boot, sequence : 1 .. MaxCallsIn,
                  line : CallSims, sim : CallSims, first : BOOLEAN]
  <2>1. report.calls[n].sim \in CallSims /\ sweep.line \in CallSims /\ sweep.first \in BOOLEAN
    BY <1>1, <1>5 DEF Events, Recording
  <2>2. n \in 1 .. MaxCallsIn /\ report.boot \in 1 .. boot
    BY <1>2, <1>3 DEF Numbers
  <2>3. QED
    BY <2>1, <2>2 DEF Record
<1> HIDE DEF n, report
<1>10. CallTypeOK'
  BY <1>6, <1>7, <1>9 DEF CallInv, CallTypeOK
<1>11. sweep' \in Recording /\ sweep'.at = "record" /\ sweep'.report = report
       /\ sweep'.position = n
  <2>1. n \in 0 .. MaxCallsIn
    BY <1>2, CallAssumption DEF Numbers
  <2>2. QED
    BY <1>1, <1>6, <2>1 DEF Recording, report
<1>12. SweepTyped'
  <2>1. Recording' = Recording
    BY <1>6 DEF Recording, Reports
  <2>2. QED
    BY <1>1, <1>2, <1>11, <2>1 DEF CallInv, SweepTyped, report
<1>13. /\ Latest' = Latest /\ Oldest' = Oldest /\ ringing' = ringing /\ boot' = boot
       /\ passedBy' = passedBy /\ cursor' = cursor
  BY <1>6 DEF Latest, Oldest
<1>14. Latest \in 0 .. MaxCallsIn /\ Oldest \in Nat
  BY RingFacts DEF CallInv
<1>15. \A m \in Nat : Accounted(m) => Accounted(m)'
  BY <1>7, <1>13, <1>14, StaysAccounted
<1>16. CursorAccounts'
  <2>1. cursor # NoCursor => cursor.last \in Nat
    BY CallAssumption DEF CallInv, CallTypeOK
  <2>2. QED
    BY <1>13, <1>15, <2>1 DEF CallInv, CursorAccounts
<1>17. ASSUME report.boot = boot
       PROVE  /\ ReportIsPrefix'
              /\ \A m \in 1 .. n : Accounted(m)'
              /\ \A m \in 1 .. report.latest :
                   m > n => m \in report.events \/ m < Oldest
  <2>1. /\ ReportIsPrefix
        /\ \A m \in 1 .. sweep.position : Accounted(m)
        /\ \A m \in 1 .. report.latest :
             m > sweep.position => m \in report.events \/ m < Oldest
    BY <1>1, <1>17 DEF CallInv, SweepAccounts, report
  <2>2. sweep.position \in Nat /\ report.latest \in Nat
    BY <1>1, <1>3, CallAssumption DEF Recording
  <2>3. ReportIsPrefix'
    BY <1>11, <1>13, <2>1 DEF ReportIsPrefix, report
  <2>4. ASSUME NEW m \in 1 .. n PROVE Accounted(m)'
    <3>1. m \in Nat
      OBVIOUS
    <3>2. CASE m <= sweep.position
      BY <1>15, <2>1, <2>2, <2>4, <3>2
    <3>3. CASE m > sweep.position /\ m # n
      <4>1. m < n /\ m \in 1 .. report.latest
        BY <1>2, <1>4, <2>2, <2>4, <3>3
      <4>2. m \notin report.events
        BY <1>2, <1>4, <3>3, <4>1
      <4>3. m < Oldest
        BY <2>1, <3>3, <4>1, <4>2
      <4>4. QED
        BY <1>13, <4>3 DEF Accounted
    <3>4. CASE m = n
      <4>1. ringing[n] = report.calls[n]
        BY <1>3, <1>4, <2>1 DEF ReportIsPrefix, report
      <4>2. QED
        BY <1>8, <1>13, <1>17, <3>4, <4>1 DEF Accounted, InHistory
    <3>5. QED
      BY <1>4, <2>2, <3>1, <3>2, <3>3, <3>4
  <2>5. QED
    BY <1>4, <2>1, <2>2, <2>3, <2>4, <1>2
<1>18. SweepAccounts'
  BY <1>11, <1>13, <1>17 DEF SweepAccounts
<1>19. QED
  BY <1>10, <1>12, <1>16, <1>18 DEF CallInv

(* The cursor is put where the sweep has come.                             *)
LEMMA SaveAccounts == ASSUME CallInv, SaveCursor PROVE CallInv'
<1>1. sweep \in Recording /\ sweep.at = "record"
  BY DEF SaveCursor, CallInv, SweepTyped, NoSweep
<1>2. /\ cursor' = [boot |-> sweep.report.boot, sim |-> sweep.line,
                    last |-> sweep.position]
      /\ sweep' = NoSweep /\ UNCHANGED <<bridge, history, passedBy, stops>>
  BY DEF SaveCursor, Saved
<1>3. CallTypeOK'
  <2>1. sweep.report.boot \in 1 .. boot /\ sweep.line \in CallSims
        /\ sweep.position \in 0 .. MaxCallsIn
    BY <1>1 DEF Recording, Reports
  <2>2. QED
    BY <1>2, <2>1 DEF CallInv, CallTypeOK
<1>4. sweep'.at # "record"
  BY <1>2 DEF NoSweep
<1>5. \A n : Accounted(n)' <=> Accounted(n)
  BY <1>2 DEF Accounted, InHistory, Oldest, Latest
<1>6. CursorAccounts'
  <2> SUFFICES ASSUME sweep.report.boot = boot
               PROVE  /\ sweep.position <= Latest
                      /\ \A n \in 1 .. sweep.position : Accounted(n)'
    BY <1>2 DEF CursorAccounts, Latest
  <2>1. /\ sweep.report.latest <= Latest /\ sweep.position <= sweep.report.latest
        /\ \A n \in 1 .. sweep.position : Accounted(n)
    BY <1>1 DEF CallInv, SweepTyped, SweepAccounts, ReportIsPrefix
  <2>2. sweep.position \in Nat /\ sweep.report.latest \in Nat /\ Latest \in Nat
    BY <1>1, RingFacts, CallAssumption DEF CallInv, Recording, Reports
  <2>3. QED
    BY <1>5, <2>1, <2>2
<1>7. QED
  BY <1>2, <1>3, <1>4, <1>6 DEF CallInv, SweepTyped, SweepAccounts

LEMMA CallInvNext == CallInv /\ [CallNext]_callVars => CallInv'
<1> SUFFICES ASSUME CallInv, [CallNext]_callVars PROVE CallInv'
  OBVIOUS
<1>1. ASSUME UNCHANGED <<bridge, cursor, history, passedBy>>,
             stops' \in 0 .. MaxStops, sweep' = sweep \/ sweep' = NoSweep
                                         \/ sweep' = [at |-> "again"]
      PROVE  CallInv'
  <2>1. CallTypeOK'
    BY <1>1 DEF CallInv, CallTypeOK
  <2>2. CursorAccounts'
    BY <1>1 DEF CallInv, CursorAccounts, Accounted, InHistory, Latest, Oldest
  <2>3. CASE sweep' = sweep
    BY <1>1, <2>1, <2>2, <2>3 DEF CallInv, SweepTyped, Recording, Reports, SweepAccounts,
       ReportIsPrefix, Accounted, InHistory, Latest, Oldest
  <2>4. CASE sweep' = NoSweep \/ sweep' = [at |-> "again"]
    BY <2>1, <2>2, <2>4 DEF CallInv, SweepTyped, SweepAccounts, NoSweep
  <2>5. QED
    BY <1>1, <2>3, <2>4
<1>2. stops \in 0 .. MaxStops
  BY DEF CallInv, CallTypeOK
<1>3. ASSUME StartSweep PROVE CallInv'
  <2>1. CASE After = 0 \/ cursor.boot = boot
    BY <1>3, <2>1, BeginAccounts DEF StartSweep
  <2>2. CASE ~(After = 0 \/ cursor.boot = boot)
    BY <1>1, <1>2, <1>3, <2>2 DEF StartSweep
  <2>3. QED
    BY <2>1, <2>2
<1>4. ASSUME ReadAgain PROVE CallInv'
  BY <1>4, BeginAccounts DEF ReadAgain
<1>5. ASSUME RecordConflicts \/ SweepStops \/ UNCHANGED callVars PROVE CallInv'
  <2>1. SweepStops => stops' \in 0 .. MaxStops
    BY <1>2, CallAssumption DEF SweepStops
  <2>2. QED
    BY <1>1, <1>2, <1>5, <2>1 DEF RecordConflicts, SweepStops, callVars
<1>6. QED
  BY <1>3, <1>4, <1>5, BridgeKeeps, RecordAccounts, SaveAccounts DEF CallNext, SweepStep

(* The cursor never passes a call silently: up to it, every call of this   *)
(* boot is in the history, unusable, passed by with its SIM, or was        *)
(* overwritten before it could be read, whatever stops, restarts or is     *)
(* exchanged in between (inbound.go:182-199).                              *)
THEOREM NoCallIsPassed == CallSpec => []NoneIsPassed
<1>1. CallInv => NoneIsPassed
  BY DEF CallInv, CursorAccounts, Accounted, NoneIsPassed
<1>2. QED
  BY <1>1, CallInvInit, CallInvNext, PTL DEF CallSpec

-----------------------------------------------------------------------------
(* Set-up and the administrator's sessions.                                *)

ReadyIsComplete ==
  installation = "ready" => administrator.password # 0 /\ storage # 0

(* A grant that can be consumed ends the session before it, so that its    *)
(* own is the only one.                                                    *)
OneSession ==
  /\ setupSessions = {} \/ \E n \in 1 .. MaxGrants : setupSessions = {n}
  /\ grant # Nobody => setupSessions = {}

(* What a mutation was admitted on still holds when it writes.             *)
MutationIsAuthorised ==
  /\ held.step = "session" => grant # Nobody
  /\ held.step \in SetupSteps => Uninitialized /\ held.token \in setupSessions

(* A login or a session is of an earlier password or of the present one.   *)
OfPassword(s) ==
  /\ s.generation <= administrator.generation
  /\ s.generation = administrator.generation => s.password = administrator.password
SessionsAreOfTheirPassword == \A s \in logins \cup adminSessions : OfPassword(s)

(* The inductive invariant behind InstallIsSafe and SetupIsGuarded.        *)
InstallInv == /\ InstallTypeOK
              /\ ReadyIsComplete
              /\ OneSession
              /\ MutationIsAuthorised
              /\ SessionsAreOfTheirPassword

LEMMA InstallConstants ==
  /\ Nobody \notin Nat
  /\ MaxGrants \in Nat /\ MaxPasswords \in Nat /\ MaxDirectories \in Nat
  /\ MaxInstallFaults \in Nat
BY InstallAssumption DEF InstallAssumption

LEMMA HeldFields ==
  ASSUME held \in Mutations
  PROVE  /\ held.step \in SetupSteps \cup {"none", "revoke", "session"}
         /\ held = NoMutation <=> held.step = "none"
         /\ held.step \in SetupSteps => held.token \in 1 .. MaxGrants
BY DEF Mutations, NoMutation, SetupSteps

LEMMA InstallTypes == InstallInv /\ [InstallNext]_installVars => InstallTypeOK'
<1> SUFFICES ASSUME InstallInv, [InstallNext]_installVars PROVE InstallTypeOK'
  OBVIOUS
<1>1. ASSUME GenerateBootstrap PROVE InstallTypeOK'
  BY <1>1, InstallConstants DEF GenerateBootstrap, Unheld, Uninitialized, Replace,
         configuration, adminVars, InstallInv, InstallTypeOK, Mutations, Passwords, NoMutation,
         SetupSteps
<1>2. ASSUME ConsumeBootstrap PROVE InstallTypeOK'
  BY <1>2, InstallConstants DEF ConsumeBootstrap, Unheld, Uninitialized, ConsumeSetupBootstrap,
         configuration, adminVars, InstallInv, InstallTypeOK, Mutations, Passwords, NoMutation,
         SetupSteps
<1>3. ASSUME BeginAdministratorSetup PROVE InstallTypeOK'
  BY <1>3, InstallConstants DEF BeginAdministratorSetup, Unheld, Uninitialized, Replace,
         configuration, adminVars, InstallInv, InstallTypeOK, Mutations, Passwords, NoMutation,
         SetupSteps
<1>4. ASSUME BeginSession PROVE InstallTypeOK'
  BY <1>4, InstallConstants DEF BeginSession, ConsumeSetupBootstrap, NoMutation, configuration,
         adminVars, InstallInv, InstallTypeOK, MutationIsAuthorised, Mutations
<1>5. ASSUME \E token \in 1 .. MaxGrants : Expire(token) PROVE InstallTypeOK'
  BY <1>5, InstallConstants DEF Expire, configuration, authorization, adminVars, InstallInv,
         InstallTypeOK, Mutations, Passwords, NoMutation, SetupSteps
<1>6. ASSUME ReplaceDirectory PROVE InstallTypeOK'
  BY <1>6, InstallConstants DEF ReplaceDirectory, configuration, authorization, adminVars,
         InstallInv, InstallTypeOK, Mutations, Passwords, NoMutation, SetupSteps
<1>7. ASSUME \E step \in SetupSteps, token \in setupSessions : BeginStep(step, token) PROVE InstallTypeOK'
  BY <1>7, InstallConstants DEF BeginStep, Unheld, configuration, authorization, adminVars,
         InstallInv, InstallTypeOK, Mutations, Passwords, NoMutation, SetupSteps
<1>8. ASSUME WriteAdministrator PROVE InstallTypeOK'
  BY <1>8, InstallConstants DEF WriteAdministrator, Writes, NewPassword, authorization,
         adminVars, InstallInv, InstallTypeOK, Mutations, Passwords, NoMutation, SetupSteps
<1>9. ASSUME WriteStorage PROVE InstallTypeOK'
  BY <1>9, InstallConstants DEF WriteStorage, Writes, Uninitialized, authorization, adminVars,
         InstallInv, InstallTypeOK, Mutations, Passwords, NoMutation, SetupSteps
<1>10. ASSUME WriteTLS PROVE InstallTypeOK'
  BY <1>10, InstallConstants DEF WriteTLS, Writes, Uninitialized, authorization, adminVars,
         InstallInv, InstallTypeOK, Mutations, Passwords, NoMutation, SetupSteps
<1>11. ASSUME ConfirmTLS PROVE InstallTypeOK'
  BY <1>11, InstallConstants DEF ConfirmTLS, Writes, authorization, adminVars, InstallInv,
         InstallTypeOK, Mutations, Passwords, NoMutation, SetupSteps
<1>12. ASSUME WriteReview PROVE InstallTypeOK'
  BY <1>12, InstallConstants DEF WriteReview, Writes, Uninitialized, authorization, adminVars,
         InstallInv, InstallTypeOK, Mutations, Passwords, NoMutation, SetupSteps
<1>13. ASSUME WriteComplete PROVE InstallTypeOK'
  BY <1>13, InstallConstants DEF WriteComplete, Uninitialized, authorization, adminVars,
         InstallInv, InstallTypeOK, Mutations, Passwords, NoMutation, SetupSteps
<1>14. ASSUME Revoke PROVE InstallTypeOK'
  BY <1>14, InstallConstants DEF Revoke, configuration, adminVars, InstallInv, InstallTypeOK,
         Mutations, Passwords, NoMutation, SetupSteps
<1>15. ASSUME StepFails PROVE InstallTypeOK'
  BY <1>15, InstallConstants DEF StepFails, InstallFault, configuration, authorization,
         adminVars, InstallInv, InstallTypeOK, Mutations, Passwords, NoMutation, SetupSteps
<1>16. ASSUME ProvisionAdministrator PROVE InstallTypeOK'
  BY <1>16, InstallConstants DEF ProvisionAdministrator, Unheld, Uninitialized, NewPassword,
         authorization, adminVars, InstallInv, InstallTypeOK, Mutations, Passwords, NoMutation,
         SetupSteps
<1>17. ASSUME LoginVerified PROVE InstallTypeOK'
  BY <1>17, InstallConstants DEF LoginVerified, configuration, authorization, InstallInv,
         InstallTypeOK, Mutations, Passwords, NoMutation, SetupSteps
<1>18. ASSUME \E login \in logins : LoginStored(login) PROVE InstallTypeOK'
  BY <1>18, InstallConstants DEF LoginStored, Issued, configuration, authorization, InstallInv,
         InstallTypeOK, Mutations, Passwords, NoMutation, SetupSteps
<1>19. ASSUME \E s \in adminSessions : EndSession(s) \/ ChangeVerified(s) PROVE InstallTypeOK'
  BY <1>19, InstallConstants DEF EndSession, configuration, authorization, ChangeVerified, Slow,
         InstallInv, InstallTypeOK, Mutations, Passwords, NoMutation, SetupSteps
<1>20. ASSUME \E g \in changes : ChangeWritten(g) PROVE InstallTypeOK'
  <2> SUFFICES ASSUME NEW g \in changes, ChangeWritten(g) PROVE InstallTypeOK'
    BY <1>20
  <2>0. purge \in BOOLEAN /\ administrator \in [password : 0 .. MaxPasswords, generation : Nat]
    BY DEF InstallInv, InstallTypeOK
  <2>4. \/ NewPassword /\ purge' = TRUE
        \/ administrator' = administrator /\ purge' = purge
    BY DEF ChangeWritten
  <2>5. NewPassword => administrator' \in [password : 0 .. MaxPasswords, generation : Nat]
    BY <2>0, InstallConstants DEF NewPassword
  <2>1. administrator' \in [password : 0 .. MaxPasswords, generation : Nat] /\ purge' \in BOOLEAN
    BY <2>0, <2>4, <2>5
  <2>2. changes' \subseteq Nat
    BY DEF ChangeWritten, InstallInv, InstallTypeOK
  <2>3. QED
    BY <2>1, <2>2 DEF ChangeWritten, authorization, InstallInv, InstallTypeOK
<1>21. ASSUME Purge PROVE InstallTypeOK'
  BY <1>21, InstallConstants DEF Purge, configuration, authorization, InstallInv, InstallTypeOK,
         Mutations, Passwords, NoMutation, SetupSteps
<1>22. ASSUME InstallCrashes PROVE InstallTypeOK'
  <2>1. installFaults' \in 0 .. MaxInstallFaults
    BY <1>22, InstallConstants DEF InstallCrashes, InstallFault, InstallInv, InstallTypeOK
  <2>2. held' \in Mutations /\ purge' \in BOOLEAN /\ logins' = {} /\ changes' = {}
    BY <1>22 DEF InstallCrashes, Mutations
  <2>3. QED
    BY <1>22, <2>1, <2>2 DEF InstallCrashes, configuration, authorization, InstallInv,
       InstallTypeOK
<1>23. ASSUME UNCHANGED installVars PROVE InstallTypeOK'
  BY <1>23, InstallConstants DEF installVars, configuration, authorization, adminVars,
         InstallInv, InstallTypeOK, Mutations, Passwords, NoMutation, SetupSteps
<1>24. QED
  BY <1>1, <1>2, <1>3, <1>4, <1>5, <1>6, <1>7, <1>8, <1>9, <1>10, <1>11, <1>12, <1>13, <1>14,
     <1>15, <1>16, <1>17, <1>18, <1>19, <1>20, <1>21, <1>22, <1>23 DEF InstallNext

LEMMA CompletenessKept == InstallInv /\ [InstallNext]_installVars => ReadyIsComplete'
<1> SUFFICES ASSUME InstallInv, [InstallNext]_installVars PROVE ReadyIsComplete'
  OBVIOUS
<1>1. ASSUME GenerateBootstrap PROVE ReadyIsComplete'
  BY <1>1, InstallConstants DEF GenerateBootstrap, Unheld, Uninitialized, configuration,
         adminVars, NoMutation, InstallInv, ReadyIsComplete, InstallTypeOK
<1>2. ASSUME ConsumeBootstrap PROVE ReadyIsComplete'
  BY <1>2, InstallConstants DEF ConsumeBootstrap, Unheld, Uninitialized, configuration,
         adminVars, NoMutation, InstallInv, ReadyIsComplete, InstallTypeOK
<1>3. ASSUME BeginAdministratorSetup PROVE ReadyIsComplete'
  BY <1>3, InstallConstants DEF BeginAdministratorSetup, Unheld, Uninitialized, configuration,
         adminVars, NoMutation, InstallInv, ReadyIsComplete, InstallTypeOK
<1>4. ASSUME BeginSession PROVE ReadyIsComplete'
  BY <1>4, InstallConstants DEF BeginSession, NoMutation, configuration, adminVars, InstallInv,
         ReadyIsComplete, InstallTypeOK
<1>5. ASSUME \E token \in 1 .. MaxGrants : Expire(token) PROVE ReadyIsComplete'
  BY <1>5, InstallConstants DEF Expire, configuration, authorization, adminVars, InstallInv,
         ReadyIsComplete, InstallTypeOK
<1>6. ASSUME ReplaceDirectory PROVE ReadyIsComplete'
  BY <1>6, InstallConstants DEF ReplaceDirectory, configuration, authorization, adminVars,
         InstallInv, ReadyIsComplete, InstallTypeOK
<1>7. ASSUME \E step \in SetupSteps, token \in setupSessions : BeginStep(step, token) PROVE ReadyIsComplete'
  BY <1>7, InstallConstants DEF BeginStep, Unheld, configuration, authorization, adminVars,
         NoMutation, InstallInv, ReadyIsComplete, InstallTypeOK
<1>8. ASSUME WriteAdministrator PROVE ReadyIsComplete'
  BY <1>8, InstallConstants DEF WriteAdministrator, Writes, NewPassword, NoMutation,
         authorization, adminVars, InstallInv, ReadyIsComplete, InstallTypeOK
<1>9. ASSUME WriteStorage PROVE ReadyIsComplete'
  BY <1>9, InstallConstants DEF WriteStorage, Writes, Uninitialized, NoMutation, authorization,
         adminVars, InstallInv, ReadyIsComplete, InstallTypeOK
<1>10. ASSUME WriteTLS PROVE ReadyIsComplete'
  BY <1>10, InstallConstants DEF WriteTLS, Writes, Uninitialized, NoMutation, authorization,
         adminVars, InstallInv, ReadyIsComplete, InstallTypeOK
<1>11. ASSUME ConfirmTLS PROVE ReadyIsComplete'
  BY <1>11, InstallConstants DEF ConfirmTLS, Writes, NoMutation, authorization, adminVars,
         InstallInv, ReadyIsComplete, InstallTypeOK
<1>12. ASSUME WriteReview PROVE ReadyIsComplete'
  BY <1>12, InstallConstants DEF WriteReview, Writes, Uninitialized, NoMutation, authorization,
         adminVars, InstallInv, ReadyIsComplete, InstallTypeOK
<1>13. ASSUME WriteComplete PROVE ReadyIsComplete'
  BY <1>13, InstallConstants DEF WriteComplete, Uninitialized, authorization, adminVars,
         InstallInv, ReadyIsComplete, InstallTypeOK
<1>14. ASSUME Revoke PROVE ReadyIsComplete'
  BY <1>14, InstallConstants DEF Revoke, NoMutation, configuration, adminVars, InstallInv,
         ReadyIsComplete, InstallTypeOK
<1>15. ASSUME StepFails PROVE ReadyIsComplete'
  BY <1>15, InstallConstants DEF StepFails, NoMutation, InstallFault, configuration,
         authorization, adminVars, InstallInv, ReadyIsComplete, InstallTypeOK
<1>16. ASSUME ProvisionAdministrator PROVE ReadyIsComplete'
  BY <1>16, InstallConstants DEF ProvisionAdministrator, Unheld, Uninitialized, NewPassword,
         authorization, adminVars, NoMutation, InstallInv, ReadyIsComplete, InstallTypeOK
<1>17. ASSUME LoginVerified PROVE ReadyIsComplete'
  BY <1>17, InstallConstants DEF LoginVerified, configuration, authorization, InstallInv,
         ReadyIsComplete, InstallTypeOK
<1>18. ASSUME \E login \in logins : LoginStored(login) PROVE ReadyIsComplete'
  BY <1>18, InstallConstants DEF LoginStored, configuration, authorization, InstallInv,
         ReadyIsComplete, InstallTypeOK
<1>19. ASSUME \E s \in adminSessions : EndSession(s) \/ ChangeVerified(s) PROVE ReadyIsComplete'
  BY <1>19, InstallConstants DEF EndSession, configuration, authorization, ChangeVerified, Slow,
         InstallInv, ReadyIsComplete, InstallTypeOK
<1>20. ASSUME \E g \in changes : ChangeWritten(g) PROVE ReadyIsComplete'
  BY <1>20, InstallConstants DEF ChangeWritten, NewPassword, authorization, InstallInv,
         ReadyIsComplete, InstallTypeOK
<1>21. ASSUME Purge PROVE ReadyIsComplete'
  BY <1>21, InstallConstants DEF Purge, configuration, authorization, InstallInv,
         ReadyIsComplete, InstallTypeOK
<1>22. ASSUME InstallCrashes PROVE ReadyIsComplete'
  BY <1>22, InstallConstants DEF InstallCrashes, InstallFault, NoMutation, configuration,
         authorization, InstallInv, ReadyIsComplete, InstallTypeOK
<1>23. ASSUME UNCHANGED installVars PROVE ReadyIsComplete'
  BY <1>23, InstallConstants DEF installVars, configuration, authorization, adminVars,
         InstallInv, ReadyIsComplete, InstallTypeOK
<1>24. QED
  BY <1>1, <1>2, <1>3, <1>4, <1>5, <1>6, <1>7, <1>8, <1>9, <1>10, <1>11, <1>12, <1>13, <1>14,
     <1>15, <1>16, <1>17, <1>18, <1>19, <1>20, <1>21, <1>22, <1>23 DEF InstallNext

LEMMA SessionsKept == InstallInv /\ [InstallNext]_installVars => OneSession'
<1> SUFFICES ASSUME InstallInv, [InstallNext]_installVars PROVE OneSession'
  OBVIOUS
<1>1. ASSUME GenerateBootstrap PROVE OneSession'
  BY <1>1, InstallConstants DEF GenerateBootstrap, Unheld, Uninitialized, Replace,
         configuration, adminVars, InstallInv, OneSession, MutationIsAuthorised, InstallTypeOK,
         NoMutation
<1>2. ASSUME ConsumeBootstrap PROVE OneSession'
  BY <1>2, InstallConstants DEF ConsumeBootstrap, Unheld, Uninitialized, ConsumeSetupBootstrap,
         configuration, adminVars, InstallInv, OneSession, MutationIsAuthorised, InstallTypeOK,
         NoMutation
<1>3. ASSUME BeginAdministratorSetup PROVE OneSession'
  BY <1>3, InstallConstants DEF BeginAdministratorSetup, Unheld, Uninitialized, Replace,
         configuration, adminVars, InstallInv, OneSession, MutationIsAuthorised, InstallTypeOK,
         NoMutation
<1>4. ASSUME BeginSession PROVE OneSession'
  BY <1>4, InstallConstants DEF BeginSession, ConsumeSetupBootstrap, configuration, adminVars,
         InstallInv, OneSession, MutationIsAuthorised, InstallTypeOK, NoMutation
<1>5. ASSUME \E token \in 1 .. MaxGrants : Expire(token) PROVE OneSession'
  BY <1>5, InstallConstants DEF Expire, configuration, authorization, adminVars, InstallInv,
         OneSession, MutationIsAuthorised, InstallTypeOK, NoMutation
<1>6. ASSUME ReplaceDirectory PROVE OneSession'
  BY <1>6, InstallConstants DEF ReplaceDirectory, configuration, authorization, adminVars,
         InstallInv, OneSession, MutationIsAuthorised, InstallTypeOK, NoMutation
<1>7. ASSUME \E step \in SetupSteps, token \in setupSessions : BeginStep(step, token) PROVE OneSession'
  BY <1>7, InstallConstants DEF BeginStep, Unheld, configuration, authorization, adminVars,
         InstallInv, OneSession, MutationIsAuthorised, InstallTypeOK, NoMutation
<1>8. ASSUME WriteAdministrator PROVE OneSession'
  BY <1>8, InstallConstants DEF WriteAdministrator, Writes, authorization, adminVars,
         InstallInv, OneSession, MutationIsAuthorised, InstallTypeOK, NoMutation
<1>9. ASSUME WriteStorage PROVE OneSession'
  BY <1>9, InstallConstants DEF WriteStorage, Writes, Uninitialized, authorization, adminVars,
         InstallInv, OneSession, MutationIsAuthorised, InstallTypeOK, NoMutation
<1>10. ASSUME WriteTLS PROVE OneSession'
  BY <1>10, InstallConstants DEF WriteTLS, Writes, Uninitialized, authorization, adminVars,
         InstallInv, OneSession, MutationIsAuthorised, InstallTypeOK, NoMutation
<1>11. ASSUME ConfirmTLS PROVE OneSession'
  BY <1>11, InstallConstants DEF ConfirmTLS, Writes, authorization, adminVars, InstallInv,
         OneSession, MutationIsAuthorised, InstallTypeOK, NoMutation
<1>12. ASSUME WriteReview PROVE OneSession'
  BY <1>12, InstallConstants DEF WriteReview, Writes, Uninitialized, authorization, adminVars,
         InstallInv, OneSession, MutationIsAuthorised, InstallTypeOK, NoMutation
<1>13. ASSUME WriteComplete PROVE OneSession'
  BY <1>13, InstallConstants DEF WriteComplete, Uninitialized, authorization, adminVars,
         InstallInv, OneSession, MutationIsAuthorised, InstallTypeOK, NoMutation
<1>14. ASSUME Revoke PROVE OneSession'
  BY <1>14, InstallConstants DEF Revoke, configuration, adminVars, InstallInv, OneSession,
         MutationIsAuthorised, InstallTypeOK, NoMutation
<1>15. ASSUME StepFails PROVE OneSession'
  BY <1>15, InstallConstants DEF StepFails, InstallFault, configuration, authorization,
         adminVars, InstallInv, OneSession, MutationIsAuthorised, InstallTypeOK, NoMutation
<1>16. ASSUME ProvisionAdministrator PROVE OneSession'
  BY <1>16, InstallConstants DEF ProvisionAdministrator, Unheld, Uninitialized, authorization,
         adminVars, InstallInv, OneSession, MutationIsAuthorised, InstallTypeOK, NoMutation
<1>17. ASSUME LoginVerified PROVE OneSession'
  BY <1>17, InstallConstants DEF LoginVerified, configuration, authorization, InstallInv,
         OneSession, MutationIsAuthorised, InstallTypeOK, NoMutation
<1>18. ASSUME \E login \in logins : LoginStored(login) PROVE OneSession'
  BY <1>18, InstallConstants DEF LoginStored, configuration, authorization, InstallInv,
         OneSession, MutationIsAuthorised, InstallTypeOK, NoMutation
<1>19. ASSUME \E s \in adminSessions : EndSession(s) \/ ChangeVerified(s) PROVE OneSession'
  BY <1>19, InstallConstants DEF EndSession, configuration, authorization, ChangeVerified, Slow,
         InstallInv, OneSession, MutationIsAuthorised, InstallTypeOK, NoMutation
<1>20. ASSUME \E g \in changes : ChangeWritten(g) PROVE OneSession'
  BY <1>20, InstallConstants DEF ChangeWritten, authorization, InstallInv, OneSession,
         MutationIsAuthorised, InstallTypeOK, NoMutation
<1>21. ASSUME Purge PROVE OneSession'
  BY <1>21, InstallConstants DEF Purge, configuration, authorization, InstallInv, OneSession,
         MutationIsAuthorised, InstallTypeOK, NoMutation
<1>22. ASSUME InstallCrashes PROVE OneSession'
  BY <1>22, InstallConstants DEF InstallCrashes, InstallFault, configuration, authorization,
         InstallInv, OneSession, MutationIsAuthorised, InstallTypeOK, NoMutation
<1>23. ASSUME UNCHANGED installVars PROVE OneSession'
  BY <1>23, InstallConstants DEF installVars, configuration, authorization, adminVars,
         InstallInv, OneSession, MutationIsAuthorised, InstallTypeOK, NoMutation
<1>24. QED
  BY <1>1, <1>2, <1>3, <1>4, <1>5, <1>6, <1>7, <1>8, <1>9, <1>10, <1>11, <1>12, <1>13, <1>14,
     <1>15, <1>16, <1>17, <1>18, <1>19, <1>20, <1>21, <1>22, <1>23 DEF InstallNext

LEMMA AuthorisationKept == InstallInv /\ [InstallNext]_installVars => MutationIsAuthorised'
<1> SUFFICES ASSUME InstallInv, [InstallNext]_installVars PROVE MutationIsAuthorised'
  OBVIOUS
<1>1. ASSUME GenerateBootstrap PROVE MutationIsAuthorised'
  BY <1>1, InstallConstants, HeldFields DEF GenerateBootstrap, Uninitialized, Replace,
         configuration, adminVars, InstallInv, MutationIsAuthorised, InstallTypeOK, NoMutation,
         SetupSteps, Unheld
<1>2. ASSUME ConsumeBootstrap PROVE MutationIsAuthorised'
  BY <1>2, InstallConstants, HeldFields DEF ConsumeBootstrap, Uninitialized,
         ConsumeSetupBootstrap, configuration, adminVars, InstallInv, MutationIsAuthorised,
         InstallTypeOK, NoMutation, SetupSteps, Unheld
<1>3. ASSUME BeginAdministratorSetup PROVE MutationIsAuthorised'
  BY <1>3, InstallConstants, HeldFields DEF BeginAdministratorSetup, Uninitialized, Replace,
         configuration, adminVars, InstallInv, MutationIsAuthorised, InstallTypeOK, NoMutation,
         SetupSteps, Unheld
<1>4. ASSUME BeginSession PROVE MutationIsAuthorised'
  BY <1>4, InstallConstants, HeldFields DEF BeginSession, ConsumeSetupBootstrap, configuration,
         adminVars, InstallInv, MutationIsAuthorised, InstallTypeOK, NoMutation, SetupSteps,
         Unheld
<1>5. ASSUME \E token \in 1 .. MaxGrants : Expire(token) PROVE MutationIsAuthorised'
  BY <1>5 DEF Expire, configuration, authorization, adminVars, InstallInv, MutationIsAuthorised,
         Uninitialized
<1>6. ASSUME ReplaceDirectory PROVE MutationIsAuthorised'
  BY <1>6 DEF ReplaceDirectory, configuration, authorization, adminVars, InstallInv,
         MutationIsAuthorised, Uninitialized
<1>7. ASSUME \E step \in SetupSteps, token \in setupSessions : BeginStep(step, token) PROVE MutationIsAuthorised'
  BY <1>7, InstallConstants, HeldFields DEF BeginStep, Authorised, configuration, authorization,
         adminVars, Uninitialized, InstallInv, MutationIsAuthorised, InstallTypeOK, NoMutation,
         SetupSteps, Unheld
<1>8. ASSUME WriteAdministrator PROVE MutationIsAuthorised'
  BY <1>8, InstallConstants, HeldFields DEF WriteAdministrator, Writes, Authorised,
         authorization, adminVars, Uninitialized, InstallInv, MutationIsAuthorised,
         InstallTypeOK, NoMutation, SetupSteps, Unheld
<1>9. ASSUME WriteStorage PROVE MutationIsAuthorised'
  BY <1>9, InstallConstants, HeldFields DEF WriteStorage, Writes, Uninitialized, authorization,
         adminVars, InstallInv, MutationIsAuthorised, InstallTypeOK, NoMutation, SetupSteps,
         Unheld
<1>10. ASSUME WriteTLS PROVE MutationIsAuthorised'
  BY <1>10, InstallConstants, HeldFields DEF WriteTLS, Writes, Uninitialized, authorization,
         adminVars, InstallInv, MutationIsAuthorised, InstallTypeOK, NoMutation, SetupSteps,
         Unheld
<1>11. ASSUME ConfirmTLS PROVE MutationIsAuthorised'
  BY <1>11, InstallConstants, HeldFields DEF ConfirmTLS, Writes, authorization, adminVars,
         InstallInv, MutationIsAuthorised, InstallTypeOK, NoMutation, SetupSteps, Unheld
<1>12. ASSUME WriteReview PROVE MutationIsAuthorised'
  BY <1>12, InstallConstants, HeldFields DEF WriteReview, Writes, Uninitialized, authorization,
         adminVars, InstallInv, MutationIsAuthorised, InstallTypeOK, NoMutation, SetupSteps,
         Unheld
<1>13. ASSUME WriteComplete PROVE MutationIsAuthorised'
  BY <1>13, InstallConstants, HeldFields DEF WriteComplete, Uninitialized, authorization,
         adminVars, InstallInv, MutationIsAuthorised, InstallTypeOK, NoMutation, SetupSteps,
         Unheld
<1>14. ASSUME Revoke PROVE MutationIsAuthorised'
  BY <1>14, InstallConstants, HeldFields DEF Revoke, configuration, adminVars, InstallInv,
         MutationIsAuthorised, InstallTypeOK, NoMutation, SetupSteps, Unheld
<1>15. ASSUME StepFails PROVE MutationIsAuthorised'
  BY <1>15, InstallConstants, HeldFields DEF StepFails, InstallFault, Authorised, configuration,
         authorization, adminVars, Uninitialized, InstallInv, MutationIsAuthorised,
         InstallTypeOK, NoMutation, SetupSteps, Unheld
<1>16. ASSUME ProvisionAdministrator PROVE MutationIsAuthorised'
  BY <1>16, InstallConstants, HeldFields DEF ProvisionAdministrator, Uninitialized,
         authorization, adminVars, InstallInv, MutationIsAuthorised, InstallTypeOK, NoMutation,
         SetupSteps, Unheld
<1>17. ASSUME LoginVerified PROVE MutationIsAuthorised'
  BY <1>17 DEF LoginVerified, configuration, authorization, InstallInv, MutationIsAuthorised,
         Uninitialized
<1>18. ASSUME \E login \in logins : LoginStored(login) PROVE MutationIsAuthorised'
  BY <1>18 DEF LoginStored, configuration, authorization, InstallInv, MutationIsAuthorised,
         Uninitialized
<1>19. ASSUME \E s \in adminSessions : EndSession(s) \/ ChangeVerified(s) PROVE MutationIsAuthorised'
  BY <1>19 DEF EndSession, configuration, authorization, ChangeVerified, Slow, InstallInv,
         MutationIsAuthorised, Uninitialized
<1>20. ASSUME \E g \in changes : ChangeWritten(g) PROVE MutationIsAuthorised'
  BY <1>20 DEF ChangeWritten, authorization, InstallInv, MutationIsAuthorised, Uninitialized
<1>21. ASSUME Purge PROVE MutationIsAuthorised'
  BY <1>21 DEF Purge, configuration, authorization, InstallInv, MutationIsAuthorised,
         Uninitialized
<1>22. ASSUME InstallCrashes PROVE MutationIsAuthorised'
  BY <1>22, InstallConstants, HeldFields DEF InstallCrashes, InstallFault, configuration,
         authorization, InstallInv, MutationIsAuthorised, InstallTypeOK, NoMutation, SetupSteps,
         Unheld
<1>23. ASSUME UNCHANGED installVars PROVE MutationIsAuthorised'
  BY <1>23 DEF installVars, configuration, authorization, adminVars, InstallInv,
         MutationIsAuthorised, Uninitialized
<1>24. QED
  BY <1>1, <1>2, <1>3, <1>4, <1>5, <1>6, <1>7, <1>8, <1>9, <1>10, <1>11, <1>12, <1>13, <1>14,
     <1>15, <1>16, <1>17, <1>18, <1>19, <1>20, <1>21, <1>22, <1>23 DEF InstallNext

LEMMA PasswordsKept == InstallInv /\ [InstallNext]_installVars => SessionsAreOfTheirPassword'
<1> SUFFICES ASSUME InstallInv, [InstallNext]_installVars PROVE SessionsAreOfTheirPassword'
  OBVIOUS
<1>1. ASSUME GenerateBootstrap PROVE SessionsAreOfTheirPassword'
  BY <1>1, InstallConstants DEF GenerateBootstrap, Unheld, Uninitialized, configuration,
         adminVars, NoMutation, InstallInv, SessionsAreOfTheirPassword, OfPassword,
         InstallTypeOK, Passwords
<1>2. ASSUME ConsumeBootstrap PROVE SessionsAreOfTheirPassword'
  BY <1>2, InstallConstants DEF ConsumeBootstrap, Unheld, Uninitialized, configuration,
         adminVars, NoMutation, InstallInv, SessionsAreOfTheirPassword, OfPassword,
         InstallTypeOK, Passwords
<1>3. ASSUME BeginAdministratorSetup PROVE SessionsAreOfTheirPassword'
  BY <1>3, InstallConstants DEF BeginAdministratorSetup, Unheld, Uninitialized, configuration,
         adminVars, NoMutation, InstallInv, SessionsAreOfTheirPassword, OfPassword,
         InstallTypeOK, Passwords
<1>4. ASSUME BeginSession PROVE SessionsAreOfTheirPassword'
  BY <1>4, InstallConstants DEF BeginSession, NoMutation, configuration, adminVars, InstallInv,
         SessionsAreOfTheirPassword, OfPassword, InstallTypeOK, Passwords
<1>5. ASSUME \E token \in 1 .. MaxGrants : Expire(token) PROVE SessionsAreOfTheirPassword'
  BY <1>5, InstallConstants DEF Expire, configuration, authorization, adminVars, InstallInv,
         SessionsAreOfTheirPassword, OfPassword, InstallTypeOK, Passwords
<1>6. ASSUME ReplaceDirectory PROVE SessionsAreOfTheirPassword'
  BY <1>6, InstallConstants DEF ReplaceDirectory, configuration, authorization, adminVars,
         InstallInv, SessionsAreOfTheirPassword, OfPassword, InstallTypeOK, Passwords
<1>7. ASSUME \E step \in SetupSteps, token \in setupSessions : BeginStep(step, token) PROVE SessionsAreOfTheirPassword'
  BY <1>7, InstallConstants DEF BeginStep, Unheld, configuration, authorization, adminVars,
         NoMutation, InstallInv, SessionsAreOfTheirPassword, OfPassword, InstallTypeOK,
         Passwords
<1>8. ASSUME WriteAdministrator PROVE SessionsAreOfTheirPassword'
  BY <1>8, InstallConstants DEF WriteAdministrator, Writes, NewPassword, NoMutation,
         authorization, adminVars, InstallInv, SessionsAreOfTheirPassword, OfPassword,
         InstallTypeOK, Passwords
<1>9. ASSUME WriteStorage PROVE SessionsAreOfTheirPassword'
  BY <1>9, InstallConstants DEF WriteStorage, Writes, Uninitialized, NoMutation, authorization,
         adminVars, InstallInv, SessionsAreOfTheirPassword, OfPassword, InstallTypeOK, Passwords
<1>10. ASSUME WriteTLS PROVE SessionsAreOfTheirPassword'
  BY <1>10, InstallConstants DEF WriteTLS, Writes, Uninitialized, NoMutation, authorization,
         adminVars, InstallInv, SessionsAreOfTheirPassword, OfPassword, InstallTypeOK, Passwords
<1>11. ASSUME ConfirmTLS PROVE SessionsAreOfTheirPassword'
  BY <1>11, InstallConstants DEF ConfirmTLS, Writes, NoMutation, authorization, adminVars,
         InstallInv, SessionsAreOfTheirPassword, OfPassword, InstallTypeOK, Passwords
<1>12. ASSUME WriteReview PROVE SessionsAreOfTheirPassword'
  BY <1>12, InstallConstants DEF WriteReview, Writes, Uninitialized, NoMutation, authorization,
         adminVars, InstallInv, SessionsAreOfTheirPassword, OfPassword, InstallTypeOK, Passwords
<1>13. ASSUME WriteComplete PROVE SessionsAreOfTheirPassword'
  BY <1>13, InstallConstants DEF WriteComplete, Uninitialized, authorization, adminVars,
         InstallInv, SessionsAreOfTheirPassword, OfPassword, InstallTypeOK, Passwords
<1>14. ASSUME Revoke PROVE SessionsAreOfTheirPassword'
  BY <1>14, InstallConstants DEF Revoke, NoMutation, configuration, adminVars, InstallInv,
         SessionsAreOfTheirPassword, OfPassword, InstallTypeOK, Passwords
<1>15. ASSUME StepFails PROVE SessionsAreOfTheirPassword'
  BY <1>15, InstallConstants DEF StepFails, NoMutation, InstallFault, configuration,
         authorization, adminVars, InstallInv, SessionsAreOfTheirPassword, OfPassword,
         InstallTypeOK, Passwords
<1>16. ASSUME ProvisionAdministrator PROVE SessionsAreOfTheirPassword'
  BY <1>16, InstallConstants DEF ProvisionAdministrator, Unheld, Uninitialized, NewPassword,
         authorization, adminVars, NoMutation, InstallInv, SessionsAreOfTheirPassword,
         OfPassword, InstallTypeOK, Passwords
<1>17. ASSUME LoginVerified PROVE SessionsAreOfTheirPassword'
  BY <1>17, InstallConstants DEF LoginVerified, configuration, authorization, InstallInv,
         SessionsAreOfTheirPassword, OfPassword, InstallTypeOK, Passwords
<1>18. ASSUME \E login \in logins : LoginStored(login) PROVE SessionsAreOfTheirPassword'
  BY <1>18, InstallConstants DEF LoginStored, Issued, configuration, authorization, InstallInv,
         SessionsAreOfTheirPassword, OfPassword, InstallTypeOK, Passwords
<1>19. ASSUME \E s \in adminSessions : EndSession(s) \/ ChangeVerified(s) PROVE SessionsAreOfTheirPassword'
  BY <1>19, InstallConstants DEF EndSession, configuration, authorization, ChangeVerified, Slow,
         InstallInv, SessionsAreOfTheirPassword, OfPassword, InstallTypeOK, Passwords
<1>20. ASSUME \E g \in changes : ChangeWritten(g) PROVE SessionsAreOfTheirPassword'
  BY <1>20, InstallConstants DEF ChangeWritten, NewPassword, authorization, InstallInv,
         SessionsAreOfTheirPassword, OfPassword, InstallTypeOK, Passwords
<1>21. ASSUME Purge PROVE SessionsAreOfTheirPassword'
  BY <1>21, InstallConstants DEF Purge, configuration, authorization, InstallInv,
         SessionsAreOfTheirPassword, OfPassword, InstallTypeOK, Passwords
<1>22. ASSUME InstallCrashes PROVE SessionsAreOfTheirPassword'
  BY <1>22, InstallConstants DEF InstallCrashes, InstallFault, NoMutation, configuration,
         authorization, InstallInv, SessionsAreOfTheirPassword, OfPassword, InstallTypeOK,
         Passwords
<1>23. ASSUME UNCHANGED installVars PROVE SessionsAreOfTheirPassword'
  BY <1>23, InstallConstants DEF installVars, configuration, authorization, adminVars,
         InstallInv, SessionsAreOfTheirPassword, OfPassword, InstallTypeOK, Passwords
<1>24. QED
  BY <1>1, <1>2, <1>3, <1>4, <1>5, <1>6, <1>7, <1>8, <1>9, <1>10, <1>11, <1>12, <1>13, <1>14,
     <1>15, <1>16, <1>17, <1>18, <1>19, <1>20, <1>21, <1>22, <1>23 DEF InstallNext

LEMMA InstallInvInit == InstallInit => InstallInv
<1> SUFFICES ASSUME InstallInit PROVE InstallInv
  OBVIOUS
<1>1. InstallTypeOK
  <2>1. installation \in {"uninitialized", "ready"} /\ tls \in {"none", "unconfirmed", "confirmed"}
    BY DEF InstallInit
  <2>2. reviewed \in BOOLEAN /\ purge \in BOOLEAN /\ held \in Mutations
    BY DEF InstallInit, Mutations
  <2>3. administrator \in [password : 0 .. MaxPasswords, generation : Nat]
    BY InstallConstants DEF InstallInit
  <2>4. QED
    BY <2>1, <2>2, <2>3, InstallConstants DEF InstallInit, InstallTypeOK
<1>2. MutationIsAuthorised
  BY DEF InstallInit, MutationIsAuthorised, NoMutation, SetupSteps
<1>3. QED
  BY <1>1, <1>2 DEF InstallInit, InstallInv, ReadyIsComplete, OneSession,
     SessionsAreOfTheirPassword

LEMMA InstallInvNext == InstallInv /\ [InstallNext]_installVars => InstallInv'
BY InstallTypes, CompletenessKept, SessionsKept, AuthorisationKept, PasswordsKept
   DEF InstallInv

LEMMA OneAtMost ==
  ASSUME InstallInv
  PROVE  Cardinality(setupSessions) <= 1
<1>1. CASE setupSessions = {}
  BY <1>1, FS_EmptySet
<1>2. CASE \E n \in 1 .. MaxGrants : setupSessions = {n}
  BY <1>2, FS_Singleton
<1>3. QED
  BY <1>1, <1>2 DEF InstallInv, OneSession

(* A ready instance is complete, one set-up session at most is alive, and  *)
(* a session that authenticates was issued for the present password, for   *)
(* any number of grants, passwords, crashes and failed writes              *)
(* (setup/service.go, auth/service.go:108-146).                            *)
THEOREM InstallHolds == InstallSpec => []InstallIsSafe
<1>1. InstallInv => InstallIsSafe
  BY OneAtMost DEF InstallInv, InstallIsSafe, ReadyIsComplete, SessionsAreOfTheirPassword,
     OfPassword
<1>2. QED
  BY <1>1, InstallInvInit, InstallInvNext, PTL DEF InstallSpec

(* Set-up state is written by a set-up session that no newer grant has     *)
(* ended, and never after the instance is ready (setup/service.go:440-443).*)
THEOREM SetupHolds == InstallSpec => SetupIsGuarded
<1> DEFINE Written == <<storage, tls, reviewed>>
           Guarded == Uninitialized /\ held.step # "none" /\ held.token \in setupSessions
<1>1. InstallInv /\ [InstallNext]_installVars => [Written' # Written => Guarded]_installVars
  <2> SUFFICES ASSUME InstallInv, InstallNext, Written' # Written PROVE Guarded
    OBVIOUS
  <2>1. WriteStorage \/ WriteTLS \/ ConfirmTLS \/ WriteReview
    BY DEF InstallNext, configuration, GenerateBootstrap, ConsumeBootstrap,
           BeginAdministratorSetup, BeginSession, Expire, ReplaceDirectory, BeginStep,
           WriteAdministrator, WriteComplete, Revoke, StepFails, ProvisionAdministrator,
           LoginVerified, LoginStored, EndSession, ChangeWritten, Purge, InstallCrashes,
           ChangeVerified, Writes
  <2>2. held.step \in SetupSteps
    BY <2>1 DEF WriteStorage, WriteTLS, ConfirmTLS, WriteReview, Writes, SetupSteps
  <2>3. QED
    BY <2>2 DEF InstallInv, MutationIsAuthorised, SetupSteps
<1>2. QED
  BY <1>1, InstallInvInit, InstallInvNext, PTL DEF InstallSpec, SetupIsGuarded

-----------------------------------------------------------------------------
(* Managed modems and Lines.                                               *)

DistinctIds(S) == \A r, x \in S : r.id = x.id => r = x
DistinctImeis(S) == \A r, x \in S : r.imei = x.imei /\ r.imei # NoIdentity => r = x

RecordsAreDistinct ==
  /\ DistinctIds(modemRecords) /\ DistinctIds(lineRecords)
  /\ \A r \in modemRecords : r.id <= Cardinality(modemRecords)
  /\ \A l \in lineRecords : l.id <= Cardinality(lineRecords)
  /\ DistinctImeis(modemRecords)
  /\ \A l, k \in lineRecords : SameLine(l, k) => l = k

(* What was seen under these numbers is still so where the number is the   *)
(* same and a modem is there.                                              *)
Past(numbers) == \A p \in DevicePorts : numbers[p] <= number[p]
IsOf(numbers, seen) ==
  \A p \in DevicePorts : number[p] = numbers[p] /\ placed[p] # NoModem =>
    seen[p].imei \in {NoIdentity, ImeiOf(placed[p])}

ScansArePast == \A p \in DevicePorts : published[p].number <= number[p]

CacheIsOfItsNumbers ==
  probeCache # NoCache => Past(probeCache.numbers) /\ IsOf(probeCache.numbers, probeCache.seen)

(* What a request has read: records that are there, if changed since, and  *)
(* an observation of its numbers.                                          *)
HasRead(q) ==
  /\ q.lines \subseteq lineRecords
  /\ \A r \in q.modems : \E x \in modemRecords : x.id = r.id
  /\ DistinctIds(q.modems) /\ DistinctImeis(q.modems)
  /\ q.kind = "addLine" => q.card \in Cards
HasSeen(q) ==
  /\ Past(q.numbers) /\ IsOf(q.numbers, q.seen)
  /\ q.at \in {"lines", "modems", "snapshot", "cache"} => q.seen = Blank

(* A command goes to a device where its Line, or its modem, was seen.      *)
IsOfLine(id, modems, imei, card) ==
  \E l \in lineRecords :
    /\ l.id = id /\ l.card = card
    /\ \A r \in modems : r.id = l.modem => r.imei \in {NoIdentity, imei}
IsOfModem(id, modems, imei) ==
  \A r \in modems : r.id = id => r.imei \in {NoIdentity, imei}
HasTarget(q) ==
  q.at = "command" =>
    /\ q.kind \in {"radio", "imei", "send"}
    /\ q.port \in DevicePorts /\ q.target # 0
    /\ q.kind = "send" =>
         IsOfLine(q.record, q.modems, q.seen[q.port].imei, q.seen[q.port].card)
    /\ q.kind = "radio" => IsOfModem(q.record, q.modems, q.seen[q.port].imei)

Going(q) == q \in Plans /\ HasRead(q) /\ HasSeen(q) /\ HasTarget(q)
RequestsGo == \A c \in Clients : requests[c] = Resting \/ Going(requests[c])

DoneRightly(d) ==
  /\ d.kind = "send" => IsOfLine(d.record, d.known, d.imei, d.card)
  /\ d.kind = "radio" => d.replugged \/ IsOfModem(d.record, d.known, d.imei)
  /\ d.kind = "imei" => \A r \in d.known : r.id = d.record => r.imei = d.imei

(* The inductive invariant behind PlanIsSafe.                              *)
PlanInv == /\ PlanTypeOK
           /\ RecordsAreDistinct
           /\ ScansArePast
           /\ CacheIsOfItsNumbers
           /\ RequestsGo
           /\ \A d \in done : DoneRightly(d)

LEMMA PlanConstants ==
  /\ NoModem \notin Equipment \cup DevicePorts /\ NoCard \notin Cards
  /\ Asked \subseteq ModemKinds \cup LineKinds
  /\ MaxExchanges \in Nat /\ MaxRequests \in Nat
BY PlanAssumption DEF PlanAssumption

LEMMA RestingIsNoPlan == Resting \notin Plans
BY DEF Resting, Plans, ModemKinds, LineKinds

LEMMA BlankIsTyped == Blank \in [DevicePorts -> Observations]
BY DEF Blank, Observations

LEMMA HereIsTyped ==
  ASSUME PlanTypeOK
  PROVE  Here \in [DevicePorts -> Nat] /\ number \in [DevicePorts -> Nat]
BY PlanConstants DEF PlanTypeOK, Here

LEMMA IdentitiesAreObserved ==
  \A m \in Equipment : ImeiOf(m) \in Identities \cup {NoIdentity}
BY DEF Identities

(* A request that does something has read and seen what it says.           *)
LEMMA AtGoes ==
  ASSUME PlanInv, NEW c \in Clients, NEW s, At(c, s)
  PROVE  Going(requests[c]) /\ requests[c].at = s /\ requests[c] # Resting
BY DEF PlanInv, RequestsGo, At, Running

(* What happens elsewhere takes nothing away from a request: records stay, *)
(* and a port with the same number has the same modem, or none.            *)
LEMMA KeepsGoing ==
  ASSUME PlanTypeOK, number' \in [DevicePorts -> Nat],
         lineRecords \subseteq lineRecords',
         \A x \in modemRecords : \E y \in modemRecords' : y.id = x.id,
         \A p \in DevicePorts :
           \/ number'[p] = number[p] /\ placed'[p] \in {placed[p], NoModem}
           \/ number'[p] > number[p],
         NEW q, Going(q)
  PROVE  Going(q)'
<1>1. number \in [DevicePorts -> Nat] /\ q \in Plans /\ q.numbers \in [DevicePorts -> Nat]
  BY HereIsTyped DEF Going, Plans
<1>2. HasRead(q)'
  BY DEF Going, HasRead, DistinctIds, DistinctImeis
<1>3. Past(q.numbers)'
  BY <1>1 DEF Going, HasSeen, Past
<1>4. IsOf(q.numbers, q.seen)'
  <2> SUFFICES ASSUME NEW p \in DevicePorts, number'[p] = q.numbers[p], placed'[p] # NoModem
               PROVE  q.seen[p].imei \in {NoIdentity, ImeiOf(placed'[p])}
    BY DEF IsOf
  <2>1. q.numbers[p] <= number[p] /\ number[p] \in Nat /\ number'[p] \in Nat
    BY <1>1 DEF Going, HasSeen, Past
  <2>2. number'[p] = number[p] /\ placed'[p] = placed[p]
    BY <2>1
  <2>3. QED
    BY <2>2 DEF Going, HasSeen, IsOf
<1>5. HasSeen(q)'
  BY <1>3, <1>4 DEF Going, HasSeen, Blank
<1>6. HasTarget(q)'
  BY DEF Going, HasTarget, IsOfLine, IsOfModem
<1>7. QED
  BY <1>1, <1>2, <1>5, <1>6 DEF Going

LEMMA KeepsDone ==
  ASSUME lineRecords \subseteq lineRecords', NEW d, DoneRightly(d)
  PROVE  DoneRightly(d)'
BY DEF DoneRightly, IsOfLine, IsOfModem

LEMMA KeepsCache ==
  ASSUME PlanTypeOK, CacheIsOfItsNumbers, number' \in [DevicePorts -> Nat],
         \A p \in DevicePorts :
           \/ number'[p] = number[p] /\ placed'[p] \in {placed[p], NoModem}
           \/ number'[p] > number[p],
         UNCHANGED probeCache
  PROVE  CacheIsOfItsNumbers'
<1> SUFFICES ASSUME probeCache # NoCache
             PROVE  Past(probeCache.numbers)' /\ IsOf(probeCache.numbers, probeCache.seen)'
  BY DEF CacheIsOfItsNumbers, NoCache, Blank
<1>1. /\ number \in [DevicePorts -> Nat] /\ probeCache.numbers \in [DevicePorts -> Nat]
      /\ probeCache' = probeCache
  BY HereIsTyped DEF PlanTypeOK, Probes
<1>2. Past(probeCache.numbers) /\ IsOf(probeCache.numbers, probeCache.seen)
  BY DEF CacheIsOfItsNumbers
<1>3. Past(probeCache.numbers)'
  BY <1>1, <1>2 DEF Past
<1>4. IsOf(probeCache.numbers, probeCache.seen)'
  <2> SUFFICES ASSUME NEW p \in DevicePorts, number'[p] = probeCache.numbers[p],
                      placed'[p] # NoModem
               PROVE  probeCache.seen[p].imei \in {NoIdentity, ImeiOf(placed'[p])}
    BY <1>1 DEF IsOf
  <2>1. probeCache.numbers[p] <= number[p] /\ number[p] \in Nat /\ number'[p] \in Nat
    BY <1>1, <1>2 DEF Past
  <2>2. number'[p] = number[p] /\ placed'[p] = placed[p]
    BY <2>1
  <2>3. QED
    BY <1>2, <2>2 DEF IsOf
<1>5. QED
  BY <1>3, <1>4

(* A step of one request that writes no record.                            *)
LEMMA OneRequestGoes ==
  ASSUME PlanInv, NEW c \in Clients, NEW q, q = Resting \/ Going(q),
         requests' = [requests EXCEPT ![c] = q],
         UNCHANGED <<world, planRecords, done>>, asked' \in 0 .. MaxRequests,
         probeCache' \in Probes \cup {NoCache}, CacheIsOfItsNumbers'
  PROVE  PlanInv'
<1>1. /\ placed' = placed /\ cards' = cards /\ number' = number /\ exchanges' = exchanges
      /\ published' = published
      /\ modemRecords' = modemRecords /\ lineRecords' = lineRecords /\ done' = done
  BY DEF world, planRecords
<1>2. DOMAIN requests = Clients /\ \A x \in Clients : requests[x] \in Plans \cup {Resting}
  BY DEF PlanInv, PlanTypeOK
<1>3. \A x \in Clients : requests'[x] = IF x = c THEN q ELSE requests[x]
  BY <1>2
<1>4. PlanTypeOK'
  <2>1. \A x \in Clients : requests'[x] \in Plans \cup {Resting}
    BY <1>2, <1>3 DEF Going
  <2>2. QED
    BY <1>1, <1>2, <2>1 DEF PlanInv, PlanTypeOK
<1>5. RecordsAreDistinct'
  BY <1>1 DEF PlanInv, RecordsAreDistinct, DistinctIds, DistinctImeis, SameLine
<1>6. RequestsGo'
  <2> SUFFICES ASSUME NEW x \in Clients, requests'[x] # Resting PROVE Going(requests[x])'
    BY DEF RequestsGo, Resting
  <2>1. Going(requests'[x])
    BY <1>3 DEF PlanInv, RequestsGo
  <2>2. QED
    BY <1>1, <2>1 DEF Going, HasRead, HasSeen, HasTarget, Past, IsOf, IsOfLine, IsOfModem,
       DistinctIds, DistinctImeis, Blank
<1>7. \A d \in done' : DoneRightly(d)'
  BY <1>1, KeepsDone DEF PlanInv
<1>8. ScansArePast'
  BY <1>1 DEF PlanInv, ScansArePast
<1>9. QED
  BY <1>4, <1>5, <1>6, <1>7, <1>8 DEF PlanInv

LEMMA CacheStays ==
  ASSUME PlanInv, UNCHANGED <<world, probeCache>>
  PROVE  CacheIsOfItsNumbers' /\ probeCache' \in Probes \cup {NoCache}
BY DEF PlanInv, PlanTypeOK, CacheIsOfItsNumbers, Past, IsOf, world, NoCache, Blank

LEMMA RequestStep ==
  ASSUME PlanInv, NEW c \in Clients, NEW q, q = Resting \/ Going(q),
         Does(c, q), OnlyRequests
  PROVE  PlanInv'
<1>1. asked' \in 0 .. MaxRequests
  BY DEF OnlyRequests, PlanInv, PlanTypeOK
<1>2. QED
  BY <1>1, CacheStays, OneRequestGoes DEF Does, OnlyRequests

LEMMA RequestEnds ==
  ASSUME PlanInv, NEW c \in Clients, Ends(c), OnlyRequests
  PROVE  PlanInv'
BY RequestStep DEF Does, Ends

-----------------------------------------------------------------------------
(* Reading and probing.                                                    *)

LEMMA AskGoes ==
  ASSUME PlanInv, NEW c \in Clients, NEW kind, NEW record \in Nat,
         NEW port \in DevicePorts \cup {NoModem}, NEW card \in Cards \cup {NoCard},
         kind = "addLine" => card \in Cards,
         Ask(c, kind, record, port, card)
  PROVE  PlanInv'
<1> DEFINE q == [kind |-> kind, record |-> record, port |-> port, card |-> card,
                 at |-> IF kind \in LineKinds THEN "lines" ELSE "modems",
                 modems |-> {}, lines |-> {}, numbers |-> [p \in DevicePorts |-> 0],
                 left |-> {}, seen |-> Blank, target |-> 0]
<1>1. requests' = [requests EXCEPT ![c] = q] /\ kind \in Asked /\ asked < MaxRequests
      /\ asked' = asked + 1 /\ UNCHANGED <<world, planRecords, probeCache, done>>
  BY DEF Ask
<1>2. q \in Plans
  BY <1>1, BlankIsTyped, PlanConstants DEF Plans
<1>3. HasSeen(q)
  <2>1. \A p \in DevicePorts : number[p] \in Nat /\ Blank[p].imei = NoIdentity
    BY HereIsTyped DEF PlanInv, Blank
  <2>2. QED
    BY <2>1 DEF HasSeen, Past, IsOf
<1>4. Going(q)
  BY <1>2, <1>3 DEF Going, HasRead, HasTarget, DistinctIds, DistinctImeis
<1>5. asked' \in 0 .. MaxRequests
  BY <1>1, PlanConstants DEF PlanInv, PlanTypeOK
<1>6. QED
  BY <1>1, <1>4, <1>5, CacheStays, OneRequestGoes

LEMMA ReadingGoes ==
  ASSUME PlanInv, NEW c \in Clients, ReadLines(c) \/ ReadModems(c) \/ TakeSnapshot(c)
  PROVE  PlanInv'
<1> DEFINE q == requests[c]
<1>1. CASE ReadLines(c)
  <2>1. Going(q) /\ q.at = "lines"
    BY <1>1, AtGoes DEF ReadLines
  <2>2. lineRecords \subseteq LineRecord
    BY DEF PlanInv, PlanTypeOK
  <2>3. Going([q EXCEPT !.at = "modems", !.lines = lineRecords])
    BY <2>1, <2>2 DEF Going, HasRead, HasSeen, HasTarget, Plans
  <2>4. QED
    BY <1>1, <2>3, RequestStep DEF ReadLines
<1>2. CASE ReadModems(c)
  <2>1. Going(q) /\ q.at = "modems"
    BY <1>2, AtGoes DEF ReadModems
  <2>2. modemRecords \subseteq ModemRecord /\ DistinctIds(modemRecords)
        /\ DistinctImeis(modemRecords)
    BY DEF PlanInv, PlanTypeOK, RecordsAreDistinct
  <2>3. Going([q EXCEPT !.at = "snapshot", !.modems = modemRecords])
    BY <2>1, <2>2 DEF Going, HasRead, HasSeen, HasTarget, Plans
  <2>4. QED
    BY <1>2, <2>3, RequestStep DEF ReadModems
<1>3. CASE TakeSnapshot(c)
  <2>1. Going(q) /\ q.at = "snapshot" /\ q.seen = Blank
    BY <1>3, AtGoes DEF TakeSnapshot, Going, HasSeen
  <2>2. Here \in [DevicePorts -> Nat] /\ number \in [DevicePorts -> Nat]
    BY HereIsTyped DEF PlanInv
  <2>3. Past(Here) /\ IsOf(Here, Blank)
    BY <2>2 DEF Past, IsOf, Here, Blank, PlanInv, ScansArePast
  <2>4. Going([q EXCEPT !.at = "cache", !.numbers = Here])
    BY <2>1, <2>2, <2>3 DEF Going, HasRead, HasSeen, HasTarget, Plans
  <2>5. QED
    BY <1>3, <2>4, RequestStep DEF TakeSnapshot
<1>4. QED
  BY <1>1, <1>2, <1>3

(* Whatever of these numbers a request resolves with, it goes on or ends.  *)
LEMMA ResolvesGoes ==
  ASSUME NEW c \in Clients, Going(requests[c]), NEW seen \in [DevicePorts -> Observations],
         IsOf(requests[c].numbers, seen), Resolves(c, seen)
  PROVE  \E q : (q = Resting \/ Going(q)) /\ requests' = [requests EXCEPT ![c] = q]
<1> DEFINE q == [requests[c] EXCEPT !.seen = seen, !.left = {},
                   !.at = IF requests[c].kind \in ModemKinds THEN "promote" ELSE "act"]
<1>1. CASE ValidTopology(seen)
  <2>1. requests' = [requests EXCEPT ![c] = q]
    BY <1>1 DEF Resolves, Does
  <2>2. q \in Plans
    BY DEF Going, Plans
  <2>3. q.at \in {"promote", "act"} /\ q.seen = seen /\ q.numbers = requests[c].numbers
        /\ q.lines = requests[c].lines /\ q.modems = requests[c].modems
        /\ q.kind = requests[c].kind /\ q.card = requests[c].card
    BY DEF Going, Plans
  <2>4. Going(q)
    BY <2>2, <2>3 DEF Going, HasRead, HasSeen, HasTarget
  <2>5. QED
    BY <2>1, <2>4
<1>2. CASE ~ValidTopology(seen)
  BY <1>2 DEF Resolves, Ends
<1>3. QED
  BY <1>1, <1>2

LEMMA LookUpGoes ==
  ASSUME PlanInv, NEW c \in Clients, LookUp(c)
  PROVE  PlanInv'
<1>1. Going(requests[c]) /\ requests[c].at = "cache" /\ requests[c].seen = Blank
  BY AtGoes DEF LookUp, Going, HasSeen
<1>2. CASE CacheHit(c)
  <2>1. probeCache.seen \in [DevicePorts -> Observations]
    BY BlankIsTyped DEF PlanInv, PlanTypeOK, Probes, NoCache
  <2>2. IsOf(requests[c].numbers, probeCache.seen)
    BY <1>2 DEF CacheHit, PlanInv, CacheIsOfItsNumbers, IsOf, NoCache, Blank
  <2>3. PICK q : (q = Resting \/ Going(q)) /\ requests' = [requests EXCEPT ![c] = q]
    BY <1>1, <1>2, <2>1, <2>2, ResolvesGoes DEF LookUp
  <2>4. OnlyRequests /\ Does(c, q)
    BY <2>3 DEF LookUp, Does
  <2>5. QED
    BY <2>3, <2>4, RequestStep
<1>3. CASE ~CacheHit(c)
  <2> DEFINE q == [requests[c] EXCEPT !.at = "probe",
                     !.left = {p \in DevicePorts : requests[c].numbers[p] # 0}]
  <2>1. Going(q)
    BY <1>1 DEF Going, HasRead, HasSeen, HasTarget, Plans
  <2>2. Does(c, q) /\ OnlyRequests
    BY <1>3 DEF LookUp
  <2>3. QED
    BY <2>1, <2>2, RequestStep
<1>4. QED
  BY <1>2, <1>3

LEMMA ProbePortGoes ==
  ASSUME PlanInv, NEW c \in Clients, NEW p \in DevicePorts, ProbePort(c, p)
  PROVE  PlanInv'
<1> DEFINE o == IF placed[p] = NoModem THEN Blank[p]
                  ELSE [imei |-> ImeiOf(placed[p]), card |-> cards[placed[p]]]
           q == [requests[c] EXCEPT !.left = @ \ {p}, !.seen[p] = o]
<1>1. Going(requests[c]) /\ requests[c].at = "probe"
  BY AtGoes DEF ProbePort
<1>2. o \in Observations /\ o.imei \in {NoIdentity, ImeiOf(placed[p])}
  <2>1. CASE placed[p] = NoModem
    BY <2>1 DEF Blank, Observations
  <2>2. CASE placed[p] # NoModem
    <3>1. placed[p] \in Equipment /\ cards[placed[p]] \in Cards \cup {NoCard}
      BY <2>2 DEF PlanInv, PlanTypeOK
    <3>2. QED
      BY <2>2, <3>1, IdentitiesAreObserved DEF Observations
  <2>3. QED
    BY <2>1, <2>2
<1>3. /\ q \in Plans /\ q.at = "probe" /\ q.numbers = requests[c].numbers
      /\ q.lines = requests[c].lines /\ q.modems = requests[c].modems
      /\ q.kind = requests[c].kind /\ q.card = requests[c].card
      /\ q.seen = [requests[c].seen EXCEPT ![p] = o]
  BY <1>1, <1>2 DEF Going, Plans
<1>4. IsOf(q.numbers, q.seen)
  <2>1. \A x \in DevicePorts : q.seen[x] = IF x = p THEN o ELSE requests[c].seen[x]
    BY <1>1, <1>3 DEF Going, Plans
  <2>2. QED
    BY <1>1, <1>2, <1>3, <2>1 DEF Going, HasSeen, IsOf
<1>5. Going(q)
  BY <1>1, <1>3, <1>4 DEF Going, HasRead, HasSeen, HasTarget
<1>6. Does(c, q) /\ OnlyRequests
  BY DEF ProbePort
<1>7. QED
  BY <1>5, <1>6, RequestStep

LEMMA EndProbeGoes ==
  ASSUME PlanInv, NEW c \in Clients, EndProbe(c)
  PROVE  PlanInv'
<1>1. Going(requests[c]) /\ requests[c].at = "probe"
  BY AtGoes DEF EndProbe
<1>2. asked' \in 0 .. MaxRequests /\ UNCHANGED <<world, planRecords, done>>
  BY DEF EndProbe, PlanInv, PlanTypeOK
<1>3. CASE /\ requests[c].numbers = Here /\ Resolves(c, requests[c].seen)
           /\ probeCache' = [numbers |-> Here, seen |-> requests[c].seen]
  <2>1. /\ requests[c].seen \in [DevicePorts -> Observations]
        /\ IsOf(requests[c].numbers, requests[c].seen) /\ Past(requests[c].numbers)
    BY <1>1 DEF Going, HasSeen, Plans
  <2>2. probeCache' \in Probes /\ CacheIsOfItsNumbers'
    BY <1>2, <1>3, <2>1, HereIsTyped
       DEF PlanInv, Probes, CacheIsOfItsNumbers, Past, IsOf, world
  <2>3. PICK q : (q = Resting \/ Going(q)) /\ requests' = [requests EXCEPT ![c] = q]
    BY <1>1, <1>3, <2>1, ResolvesGoes
  <2>4. QED
    BY <1>2, <2>2, <2>3, OneRequestGoes
<1>4. CASE Resolves(c, Blank) /\ UNCHANGED probeCache
  <2>1. IsOf(requests[c].numbers, Blank)
    BY DEF IsOf, Blank
  <2>2. PICK q : (q = Resting \/ Going(q)) /\ requests' = [requests EXCEPT ![c] = q]
    BY <1>1, <1>4, <2>1, BlankIsTyped, ResolvesGoes
  <2>3. CacheIsOfItsNumbers' /\ probeCache' \in Probes \cup {NoCache}
    BY <1>2, <1>4, CacheStays
  <2>4. QED
    BY <1>2, <2>2, <2>3, OneRequestGoes
<1>5. QED
  BY <1>3, <1>4 DEF EndProbe

-----------------------------------------------------------------------------
(* Records.                                                                *)

(* A step of one request that writes records.                              *)
LEMMA WritingGoes ==
  ASSUME PlanInv, NEW c \in Clients, DOMAIN requests' = Clients,
         \A x \in Clients \ {c} : requests'[x] = requests[x],
         requests'[c] = Resting \/ Going(requests[c])',
         UNCHANGED <<world, probeCache, done, asked>>,
         modemRecords' \subseteq ModemRecord /\ IsFiniteSet(modemRecords'),
         lineRecords' \subseteq LineRecord /\ IsFiniteSet(lineRecords'),
         lineRecords \subseteq lineRecords',
         \A x \in modemRecords : \E y \in modemRecords' : y.id = x.id,
         RecordsAreDistinct'
  PROVE  PlanInv'
<1>1. /\ placed' = placed /\ cards' = cards /\ number' = number /\ exchanges' = exchanges
      /\ published' = published
      /\ probeCache' = probeCache /\ done' = done /\ asked' = asked
  BY DEF world
<1>2. number' \in [DevicePorts -> Nat]
  BY <1>1, HereIsTyped DEF PlanInv
<1>3. RequestsGo'
  <2> SUFFICES ASSUME NEW x \in Clients, requests'[x] # Resting PROVE Going(requests[x])'
    BY DEF RequestsGo, Resting
  <2>1. CASE x = c
    BY <2>1
  <2>2. CASE x # c
    <3>1. Going(requests[x]) /\ requests'[x] = requests[x]
      BY <2>2 DEF PlanInv, RequestsGo
    <3>2. \A q : Going(q) => Going(q)'
      BY <1>1, <1>2, KeepsGoing DEF PlanInv
    <3>3. QED
      BY <3>1, <3>2
  <2>3. QED
    BY <2>1, <2>2
<1>4. PlanTypeOK'
  <2>1. \A x \in Clients : requests'[x] \in Plans \cup {Resting}
    BY <1>3 DEF RequestsGo, Going, Plans, Resting
  <2>2. QED
    BY <1>1, <2>1 DEF PlanInv, PlanTypeOK
<1>5. CacheIsOfItsNumbers'
  BY <1>1, CacheStays
<1>6. \A d \in done' : DoneRightly(d)'
  BY <1>1, KeepsDone DEF PlanInv
<1>7. ScansArePast'
  BY <1>1 DEF PlanInv, ScansArePast
<1>8. QED
  BY <1>3, <1>4, <1>5, <1>6, <1>7 DEF PlanInv

LEMMA Replacing ==
  ASSUME NEW S, IsFiniteSet(S), NEW x \in S, NEW y, y \notin S \ {x}
  PROVE  /\ IsFiniteSet((S \ {x}) \cup {y})
         /\ Cardinality((S \ {x}) \cup {y}) = Cardinality(S)
<1>1. IsFiniteSet(S \ {x}) /\ Cardinality(S \ {x}) = Cardinality(S) - 1
  BY FS_RemoveElement
<1>2. /\ IsFiniteSet((S \ {x}) \cup {y})
      /\ Cardinality((S \ {x}) \cup {y}) = Cardinality(S \ {x}) + 1
  BY <1>1, FS_AddElement
<1>3. Cardinality(S) \in Nat
  BY FS_CardinalityType
<1>4. QED
  BY <1>1, <1>2, <1>3

LEMMA Adding ==
  ASSUME NEW S, IsFiniteSet(S), \A r \in S : r.id <= Cardinality(S),
         NEW y, y.id = NewId(S), \A r \in S : r.id \in Nat
  PROVE  /\ IsFiniteSet(S \cup {y}) /\ y.id \in Ids
         /\ \A r \in S : r.id # y.id
         /\ \A r \in S \cup {y} : r.id <= Cardinality(S \cup {y})
<1>1. Cardinality(S) \in Nat
  BY FS_CardinalityType
<1>2. \A r \in S : r.id # y.id
  BY <1>1 DEF NewId
<1>3. IsFiniteSet(S \cup {y}) /\ Cardinality(S \cup {y}) = Cardinality(S) + 1
  BY <1>2, FS_AddElement
<1>4. y.id = Cardinality(S) + 1 /\ y.id \in Ids
  BY <1>1 DEF NewId, Ids
<1>5. ASSUME NEW r \in S \cup {y} PROVE r.id <= Cardinality(S) + 1
  <2>1. CASE r \in S
    BY <1>1, <2>1
  <2>2. CASE r = y
    BY <1>1, <1>4, <2>2
  <2>3. QED
    BY <2>1, <2>2
<1>6. QED
  BY <1>2, <1>3, <1>4, <1>5

(* A record that is bound to the modem of its port keeps its id, and no    *)
(* other one has its identity.                                             *)
LEMMA PromoteGoes ==
  ASSUME PlanInv, NEW c \in Clients, Promote(c)
  PROVE  PlanInv'
<1> DEFINE q == requests[c]
<1>1. Going(q) /\ q.at = "promote" /\ q \in Plans
  BY AtGoes DEF Promote, Going
<1>2. UNCHANGED <<world, lineRecords, probeCache, done, asked>>
  BY DEF Promote
<1>3. CASE Does(c, [q EXCEPT !.at = "act"]) /\ UNCHANGED modemRecords
  <2>1. Going([q EXCEPT !.at = "act"])
    BY <1>1 DEF Going, HasRead, HasSeen, HasTarget, Plans
  <2>2. OnlyRequests
    BY <1>2, <1>3 DEF OnlyRequests, planRecords
  <2>3. QED
    BY <1>3, <2>1, <2>2, RequestStep
<1>4. CASE Ends(c) /\ UNCHANGED modemRecords
  BY <1>2, <1>4, RequestEnds DEF OnlyRequests, planRecords
<1>5. CASE Promotable(c) = {}
  BY <1>3, <1>5 DEF Promote
<1>6. CASE Promotable(c) # {}
  <2>1. PICK r \in Promotable(c) :
          LET imei == q.seen[r.port].imei
              bound == [r EXCEPT !.port = NoModem, !.imei = imei]
              stored == {x \in modemRecords : x.id = r.id}
          IN \/ Ends(c) /\ UNCHANGED modemRecords
             \/ /\ \A x \in modemRecords \ stored : x.imei # imei
                /\ modemRecords' = (modemRecords \ stored) \cup {bound}
                /\ Does(c, [q EXCEPT !.modems = (@ \ {r}) \cup {bound}])
    BY <1>6 DEF Promote
  <2>2. PICK imei, bound, stored :
          /\ imei = q.seen[r.port].imei
          /\ bound = [r EXCEPT !.port = NoModem, !.imei = imei]
          /\ stored = {x \in modemRecords : x.id = r.id}
    OBVIOUS
  <2>3. CASE Ends(c) /\ UNCHANGED modemRecords
    BY <1>4, <2>3
  <2>4. CASE /\ \A x \in modemRecords \ stored : x.imei # imei
             /\ modemRecords' = (modemRecords \ stored) \cup {bound}
             /\ Does(c, [q EXCEPT !.modems = (@ \ {r}) \cup {bound}])
    <3>1. /\ r \in q.modems /\ r \in ModemRecord /\ r.port \in DevicePorts
          /\ imei # NoIdentity /\ \A x \in q.modems : x.imei # imei
      BY <1>1, <2>2, <2>4 DEF Promotable, Observed, Unique, Plans
    <3>2. bound \in ModemRecord /\ bound.id = r.id /\ bound.imei = imei
      <4>1. imei \in Identities \cup {NoIdentity}
        BY <1>1, <2>2, <2>4, <3>1 DEF Plans, Observations
      <4>2. QED
        BY <2>2, <2>4, <3>1, <4>1 DEF ModemRecord
    <3>3. PICK x \in modemRecords : x.id = r.id
      BY <1>1, <3>1 DEF Going, HasRead
    <3>4. stored = {x} /\ bound \notin modemRecords \ {x}
      <4>1. \A y \in modemRecords : y.id = r.id => y = x
        BY <3>3 DEF PlanInv, RecordsAreDistinct, DistinctIds
      <4>2. stored = {x}
        BY <2>2, <2>4, <3>3, <4>1
      <4>3. bound \notin modemRecords \ {x}
        BY <3>2, <4>1
      <4>4. QED
        BY <4>2, <4>3
    <3>5. modemRecords' = (modemRecords \ {x}) \cup {bound}
      BY <2>2, <2>4, <3>4
    <3>6. /\ IsFiniteSet(modemRecords') /\ modemRecords' \subseteq ModemRecord
          /\ Cardinality(modemRecords') = Cardinality(modemRecords)
      <4>1. IsFiniteSet(modemRecords) /\ modemRecords \subseteq ModemRecord
        BY DEF PlanInv, PlanTypeOK
      <4>2. QED
        BY <3>2, <3>4, <3>5, <4>1, Replacing
    <3>7. \A y \in modemRecords : \E z \in modemRecords' : z.id = y.id
      BY <3>2, <3>3, <3>5
    <3>8. RecordsAreDistinct'
      <4>1. DistinctIds(modemRecords')
        BY <3>2, <3>3, <3>5 DEF PlanInv, RecordsAreDistinct, DistinctIds
      <4>2. DistinctImeis(modemRecords')
        BY <2>2, <2>4, <3>2, <3>4, <3>5 DEF PlanInv, RecordsAreDistinct, DistinctImeis
      <4>3. \A y \in modemRecords' : y.id <= Cardinality(modemRecords')
        BY <3>2, <3>3, <3>5, <3>6 DEF PlanInv, RecordsAreDistinct
      <4>4. QED
        BY <1>2, <4>1, <4>2, <4>3
           DEF PlanInv, RecordsAreDistinct, DistinctIds, DistinctImeis, SameLine
    <3> PICK p : p = [q EXCEPT !.modems = (@ \ {r}) \cup {bound}]
      OBVIOUS
    <3>9. /\ p \in Plans /\ p.modems = (q.modems \ {r}) \cup {bound}
          /\ p.kind = q.kind /\ p.card = q.card
          /\ p.lines = q.lines /\ p.at = "promote" /\ p.numbers = q.numbers /\ p.seen = q.seen
      BY <1>1, <3>2 DEF Plans
    <3>10. HasRead(p)'
      <4>1. DistinctIds(p.modems)
        BY <1>1, <3>1, <3>2, <3>9 DEF Going, HasRead, DistinctIds
      <4>2. DistinctImeis(p.modems)
        BY <1>1, <3>1, <3>2, <3>9 DEF Going, HasRead, DistinctImeis
      <4>3. \A y \in p.modems : \E z \in modemRecords' : z.id = y.id
        BY <1>1, <3>2, <3>5, <3>7, <3>9 DEF Going, HasRead
      <4>4. QED
        BY <1>1, <1>2, <3>9, <4>1, <4>2, <4>3 DEF Going, HasRead, DistinctIds, DistinctImeis
    <3>11. requests' = [requests EXCEPT ![c] = p]
      BY <2>2, <2>4 DEF Does
    <3>12. /\ DOMAIN requests' = Clients /\ requests'[c] = p
           /\ \A y \in Clients \ {c} : requests'[y] = requests[y]
      BY <3>11 DEF PlanInv, PlanTypeOK
    <3>13. HasSeen(requests[c])' /\ HasTarget(requests[c])'
      BY <1>1, <1>2, <3>9, <3>12 DEF Going, HasSeen, HasTarget, Past, IsOf, world, Blank
    <3>14. Going(requests[c])'
      BY <3>9, <3>10, <3>12, <3>13 DEF Going, HasRead, DistinctIds, DistinctImeis
    <3>15. lineRecords' \subseteq LineRecord /\ IsFiniteSet(lineRecords')
           /\ lineRecords \subseteq lineRecords'
      BY <1>2 DEF PlanInv, PlanTypeOK
    <3>16. QED
      BY <1>2, <3>6, <3>7, <3>8, <3>12, <3>14, <3>15, WritingGoes
  <2>5. QED
    BY <2>2, <2>1, <2>3, <2>4
<1>7. QED
  BY <1>5, <1>6

LEMMA AddModemGoes ==
  ASSUME PlanInv, NEW c \in Clients, AddModem(c)
  PROVE  PlanInv'
<1>1. Going(requests[c]) /\ requests[c] \in Plans
  BY AtGoes DEF AddModem, Going
<1>2. Ends(c) /\ UNCHANGED <<world, lineRecords, probeCache, done, asked>>
  BY DEF AddModem
<1>3. CASE UNCHANGED modemRecords
  BY <1>2, <1>3, RequestEnds DEF OnlyRequests, planRecords
<1>4. ASSUME NEW p, p = requests[c].port, p \in Observed(c), Unique(c, p),
             NEW new, new = [id |-> NewId(modemRecords), port |-> NoModem,
                             imei |-> requests[c].seen[p].imei],
             \A r \in modemRecords : r.imei # new.imei,
             modemRecords' = modemRecords \cup {new}
      PROVE  PlanInv'
  <2>1. /\ IsFiniteSet(modemRecords) /\ modemRecords \subseteq ModemRecord
        /\ \A r \in modemRecords : r.id <= Cardinality(modemRecords) /\ r.id \in Nat
    BY DEF PlanInv, PlanTypeOK, RecordsAreDistinct, ModemRecord, Ids
  <2>2. /\ IsFiniteSet(modemRecords') /\ new.id \in Ids
        /\ \A r \in modemRecords : r.id # new.id
        /\ \A r \in modemRecords' : r.id <= Cardinality(modemRecords')
    BY <1>4, <2>1, Adding
  <2>3. new.imei \in Identities \cup {NoIdentity}
    BY <1>1, <1>4 DEF Observed, Plans, Observations
  <2>4. new \in ModemRecord
    BY <1>4, <2>2, <2>3 DEF ModemRecord
  <2>5. DistinctIds(modemRecords') /\ DistinctImeis(modemRecords')
    BY <1>4, <2>2 DEF PlanInv, RecordsAreDistinct, DistinctIds, DistinctImeis
  <2>6. RecordsAreDistinct'
    BY <1>2, <2>2, <2>5
       DEF PlanInv, RecordsAreDistinct, DistinctIds, DistinctImeis, SameLine
  <2>7. /\ DOMAIN requests' = Clients /\ requests'[c] = Resting
        /\ \A y \in Clients \ {c} : requests'[y] = requests[y]
    BY <1>2 DEF Ends, PlanInv, PlanTypeOK
  <2>8. lineRecords' \subseteq LineRecord /\ IsFiniteSet(lineRecords')
        /\ lineRecords \subseteq lineRecords'
    BY <1>2 DEF PlanInv, PlanTypeOK
  <2>9. modemRecords' \subseteq ModemRecord
        /\ \A x \in modemRecords : \E y \in modemRecords' : y.id = x.id
    BY <1>4, <2>1, <2>4
  <2>10. QED
    BY <1>2, <2>2, <2>6, <2>7, <2>8, <2>9, WritingGoes
<1>5. QED
  BY <1>3, <1>4 DEF AddModem

LEMMA AddLineGoes ==
  ASSUME PlanInv, NEW c \in Clients, AddLine(c)
  PROVE  PlanInv'
<1> DEFINE q == requests[c]
           new == [id |-> NewId(lineRecords), modem |-> q.record, card |-> q.card]
<1>1. Going(q) /\ q \in Plans
  BY AtGoes DEF AddLine, Going
<1>2. Ends(c) /\ UNCHANGED <<world, modemRecords, probeCache, done, asked>>
  BY DEF AddLine
<1>3. CASE UNCHANGED lineRecords
  BY <1>2, <1>3, RequestEnds DEF OnlyRequests, planRecords
<1>4. CASE /\ LineCandidate(c, new) /\ \A l \in lineRecords : ~ SameLine(l, new)
           /\ lineRecords' = lineRecords \cup {new}
  <2>1. /\ IsFiniteSet(lineRecords) /\ lineRecords \subseteq LineRecord
        /\ \A r \in lineRecords : r.id <= Cardinality(lineRecords) /\ r.id \in Nat
    BY DEF PlanInv, PlanTypeOK, RecordsAreDistinct, LineRecord, Ids
  <2>2. /\ IsFiniteSet(lineRecords') /\ new.id \in Ids
        /\ \A r \in lineRecords : r.id # new.id
        /\ \A r \in lineRecords' : r.id <= Cardinality(lineRecords')
    BY <1>4, <2>1, Adding
  <2>3. new \in LineRecord
    <3>1. PICK r \in q.modems : r.id = new.modem /\ \E p \in DevicePorts : q.seen[p].card = new.card
      BY <1>4 DEF LineCandidate, ResolvedLine, ManagedObservation, Observed
    <3>2. r.id \in Ids
      BY <1>1 DEF Plans, ModemRecord
    <3>3. new.card \in Cards
      BY <1>1 DEF AddLine, Going, HasRead
    <3>4. QED
      BY <2>2, <3>1, <3>2, <3>3 DEF LineRecord
  <2>4. DistinctIds(lineRecords')
    BY <1>4, <2>2 DEF PlanInv, RecordsAreDistinct, DistinctIds
  <2>5. \A l, k \in lineRecords' : SameLine(l, k) => l = k
    BY <1>4 DEF PlanInv, RecordsAreDistinct, SameLine
  <2>6. RecordsAreDistinct'
    BY <1>2, <2>2, <2>4, <2>5
       DEF PlanInv, RecordsAreDistinct, DistinctIds, DistinctImeis, SameLine
  <2>7. /\ DOMAIN requests' = Clients /\ requests'[c] = Resting
        /\ \A y \in Clients \ {c} : requests'[y] = requests[y]
    BY <1>2 DEF Ends, PlanInv, PlanTypeOK
  <2>8. lineRecords' \subseteq LineRecord /\ lineRecords \subseteq lineRecords'
    BY <1>4, <2>1, <2>3
  <2>9. modemRecords' \subseteq ModemRecord /\ IsFiniteSet(modemRecords')
        /\ \A x \in modemRecords : \E y \in modemRecords' : y.id = x.id
    BY <1>2 DEF PlanInv, PlanTypeOK
  <2>10. QED
    BY <1>2, <2>2, <2>6, <2>7, <2>8, <2>9, WritingGoes
<1>5. QED
  BY <1>3, <1>4 DEF AddLine

-----------------------------------------------------------------------------
(* Answers and commands.                                                   *)

LEMMA AnswersGoes ==
  ASSUME PlanInv, NEW c \in Clients, Answers(c) \/ GiveUp(c)
  PROVE  PlanInv'
BY RequestEnds DEF Answers, GiveUp

(* Where the record of a request, or the card of its Line, was seen.       *)
LEMMA TargetsAreSeen ==
  ASSUME NEW c \in Clients, Going(requests[c]), requests[c].kind \in {"radio", "imei", "send"},
         NEW p \in Targets(c)
  PROVE  /\ p \in DevicePorts
         /\ requests[c].kind = "send" =>
              IsOfLine(requests[c].record, requests[c].modems,
                       requests[c].seen[p].imei, requests[c].seen[p].card)
         /\ requests[c].kind = "radio" =>
              IsOfModem(requests[c].record, requests[c].modems, requests[c].seen[p].imei)
<1> DEFINE q == requests[c]
<1>1. ASSUME NEW r \in q.modems, NEW x \in ManagedObservation(c, r)
      PROVE  x \in DevicePorts /\ r.imei \in {NoIdentity, q.seen[x].imei}
  BY <1>1 DEF ManagedObservation, Observed
<1>2. CASE q.kind = "send"
  <2>1. PICK l \in q.lines : l.id = q.record /\ p \in ResolvedLine(c, l)
    BY <1>2 DEF Targets
  <2>2. PICK r \in q.modems : /\ r.id = l.modem /\ p \in ManagedObservation(c, r)
                              /\ q.seen[p].card = l.card
    BY <2>1 DEF ResolvedLine
  <2>3. l \in lineRecords
    BY <2>1 DEF Going, HasRead
  <2>4. \A x \in q.modems : x.id = l.modem => x = r
    BY <2>2 DEF Going, HasRead, DistinctIds
  <2>5. p \in DevicePorts /\ r.imei \in {NoIdentity, q.seen[p].imei}
    BY <1>1, <2>2
  <2>6. QED
    BY <1>2, <2>1, <2>2, <2>3, <2>4, <2>5 DEF IsOfLine
<1>3. CASE q.kind # "send"
  <2>1. PICK r \in q.modems : r.id = q.record /\ p \in ManagedObservation(c, r)
    BY <1>3 DEF Targets
  <2>2. \A x \in q.modems : x.id = q.record => x = r
    BY <2>1 DEF Going, HasRead, DistinctIds
  <2>3. p \in DevicePorts /\ r.imei \in {NoIdentity, q.seen[p].imei}
    BY <1>1, <2>1
  <2>4. QED
    BY <1>3, <2>2, <2>3 DEF IsOfModem
<1>4. QED
  BY <1>2, <1>3

LEMMA CommandGoes ==
  ASSUME PlanInv, NEW c \in Clients, Command(c)
  PROVE  PlanInv'
<1> DEFINE q == requests[c]
<1>1. Going(q) /\ q.at = "act" /\ q.kind \in {"radio", "imei", "send"} /\ OnlyRequests
  BY AtGoes DEF Command
<1>2. PICK p \in Targets(c) :
        IF Fence(c, p) = 0 THEN Ends(c)
          ELSE Does(c, [q EXCEPT !.at = "command", !.port = p, !.target = Fence(c, p)])
  BY DEF Command
<1>3. CASE Fence(c, p) = 0
  BY <1>1, <1>2, <1>3, RequestEnds
<1>4. CASE Fence(c, p) # 0
  <2> DEFINE n == [q EXCEPT !.at = "command", !.port = p, !.target = Fence(c, p)]
  <2>1. p \in DevicePorts
    BY <1>1, TargetsAreSeen
  <2>2. Fence(c, p) \in Nat
    <3>1. Here[p] \in Nat /\ q.numbers[p] \in Nat
      BY <1>1, <2>1, HereIsTyped DEF PlanInv, Going, Plans
    <3>2. QED
      BY <3>1 DEF Fence
  <2>3. /\ n \in Plans /\ n.at = "command" /\ n.port = p /\ n.target = Fence(c, p)
        /\ n.kind = q.kind /\ n.record = q.record /\ n.card = q.card
        /\ n.modems = q.modems /\ n.lines = q.lines
        /\ n.numbers = q.numbers /\ n.seen = q.seen
    BY <1>1, <2>1, <2>2 DEF Going, Plans
  <2>4. HasTarget(n)
    BY <1>1, <1>4, <2>1, <2>3, TargetsAreSeen DEF HasTarget
  <2>5. HasRead(n) /\ HasSeen(n)
    BY <1>1, <2>3 DEF Going, HasRead, HasSeen
  <2>6. QED
    BY <1>1, <1>2, <1>4, <2>3, <2>4, <2>5, RequestStep DEF Going
<1>5. QED
  BY <1>3, <1>4

(* What reaches a modem: the device that was seen, or one that a second    *)
(* snapshot showed, or one that says who it is.                            *)
LEMMA DeliverGoes ==
  ASSUME PlanInv, NEW c \in Clients, Deliver(c)
  PROVE  PlanInv'
<1> DEFINE q == requests[c]
           p == q.port
           m == placed[p]
           d == [kind |-> q.kind, record |-> q.record, imei |-> ImeiOf(m), card |-> cards[m],
                 replugged |-> number[p] # q.numbers[p], known |-> q.modems]
<1>1. Going(q) /\ q.at = "command"
  BY AtGoes DEF Deliver
<1>2. Ends(c) /\ UNCHANGED <<world, planRecords, probeCache, asked>>
  BY DEF Deliver
<1>3. done' = done \/ (done' = done \cup {d} /\ m # NoModem /\ Confirmed(c, m))
  BY DEF Deliver
<1>4. ASSUME m # NoModem, Confirmed(c, m)
      PROVE  DoneRightly(d)
  <2>1. p \in DevicePorts /\ q.target # 0 /\ q.kind \in {"radio", "imei", "send"}
    BY <1>1 DEF Going, HasTarget
  <2>3. CASE q.kind = "send"
    <3>1. ImeiOf(m) = q.seen[p].imei /\ cards[m] = q.seen[p].card
      BY <1>4, <2>3 DEF Confirmed
    <3>2. IsOfLine(q.record, q.modems, q.seen[p].imei, q.seen[p].card)
      BY <1>1, <2>3 DEF Going, HasTarget
    <3>3. QED
      BY <2>3, <3>1, <3>2 DEF DoneRightly
  <2>4. CASE q.kind = "radio"
    <3>1. IsOfModem(q.record, q.modems, q.seen[p].imei)
      BY <1>1, <2>4 DEF Going, HasTarget
    <3>2. number[p] = q.numbers[p] => q.seen[p].imei \in {NoIdentity, ImeiOf(m)}
      BY <1>1, <1>4, <2>1 DEF Going, HasSeen, IsOf
    <3>3. d.kind = "radio" /\ d.record = q.record /\ d.known = q.modems /\ d.imei = ImeiOf(m)
          /\ d.replugged = (number[p] # q.numbers[p])
      BY <2>4
    <3>4. ASSUME number[p] = q.numbers[p] PROVE IsOfModem(q.record, q.modems, ImeiOf(m))
      BY <3>1, <3>2, <3>4 DEF IsOfModem
    <3>5. QED
      BY <3>3, <3>4 DEF DoneRightly
  <2>5. CASE q.kind = "imei"
    <3>1. {r.imei : r \in {r \in q.modems : r.id = q.record}} = {ImeiOf(m)}
      BY <1>4, <2>5 DEF Confirmed
    <3>2. \A r \in q.modems : r.id = q.record => r.imei = ImeiOf(m)
      BY <3>1
    <3>3. QED
      BY <2>5, <3>2 DEF DoneRightly
  <2>6. QED
    BY <2>1, <2>3, <2>4, <2>5
<1>5. \A x \in done' : DoneRightly(x)
  BY <1>3, <1>4 DEF PlanInv
<1>6. /\ placed' = placed /\ cards' = cards /\ number' = number /\ exchanges' = exchanges
      /\ published' = published
      /\ modemRecords' = modemRecords /\ lineRecords' = lineRecords
      /\ probeCache' = probeCache /\ asked' = asked
  BY <1>2 DEF world, planRecords
<1>7. \A x \in Clients : requests'[x] = IF x = c THEN Resting ELSE requests[x]
  BY <1>2 DEF Ends, PlanInv, PlanTypeOK
<1>8. PlanTypeOK'
  BY <1>2, <1>6, <1>7 DEF PlanInv, PlanTypeOK, Ends
<1>9. RecordsAreDistinct'
  BY <1>6 DEF PlanInv, RecordsAreDistinct, DistinctIds, DistinctImeis, SameLine
<1>10. CacheIsOfItsNumbers'
  BY <1>2, CacheStays
<1>11. RequestsGo'
  <2> SUFFICES ASSUME NEW x \in Clients, requests'[x] # Resting PROVE Going(requests[x])'
    BY DEF RequestsGo, Resting
  <2>1. Going(requests'[x])
    BY <1>7 DEF PlanInv, RequestsGo
  <2>2. QED
    BY <1>6, <2>1 DEF Going, HasRead, HasSeen, HasTarget, Past, IsOf, IsOfLine, IsOfModem,
       DistinctIds, DistinctImeis, Blank
<1>12. \A x \in done' : DoneRightly(x)'
  BY <1>5, <1>6, KeepsDone
<1>13. ScansArePast'
  BY <1>6 DEF PlanInv, ScansArePast
<1>14. QED
  BY <1>8, <1>9, <1>10, <1>11, <1>12, <1>13 DEF PlanInv

-----------------------------------------------------------------------------
(* The hardware.                                                           *)

LEMMA HardwareGoes ==
  ASSUME PlanInv, UNCHANGED <<planRecords, probeCache, requests, done, asked>>,
         PlanTypeOK', number' \in [DevicePorts -> Nat], ScansArePast',
         \A p \in DevicePorts :
           \/ number'[p] = number[p] /\ placed'[p] \in {placed[p], NoModem}
           \/ number'[p] > number[p]
  PROVE  PlanInv'
<1>1. modemRecords' = modemRecords /\ lineRecords' = lineRecords
      /\ requests' = requests /\ done' = done /\ probeCache' = probeCache
  BY DEF planRecords
<1>2. RecordsAreDistinct'
  BY <1>1 DEF PlanInv, RecordsAreDistinct, DistinctIds, DistinctImeis, SameLine
<1>3. CacheIsOfItsNumbers'
  BY KeepsCache DEF PlanInv
<1>4. RequestsGo'
  <2> SUFFICES ASSUME NEW x \in Clients, requests'[x] # Resting PROVE Going(requests[x])'
    BY DEF RequestsGo, Resting
  <2>1. PICK q : q = requests[x]
    OBVIOUS
  <2>2. Going(q) /\ requests'[x] = q
    BY <1>1, <2>1 DEF PlanInv, RequestsGo
  <2>3. Going(q)'
    BY <1>1, <2>2, KeepsGoing DEF PlanInv
  <2>4. QED
    BY <2>2, <2>3
<1>5. \A d \in done' : DoneRightly(d)'
  BY <1>1, KeepsDone DEF PlanInv
<1>6. QED
  BY <1>2, <1>3, <1>4, <1>5 DEF PlanInv

LEMMA PlaceGoes ==
  ASSUME PlanInv, NEW m \in Equipment \cup {NoModem}, NEW p \in DevicePorts, Place(m, p)
  PROVE  PlanInv'
<1>1. /\ exchanges' = exchanges + 1 /\ exchanges < MaxExchanges
      /\ UNCHANGED <<cards, published, planRecords, probeCache, requests, done, asked>>
  BY DEF Place
<1>2. /\ placed \in [DevicePorts -> Equipment \cup {NoModem}]
      /\ number \in [DevicePorts -> Nat \ {0}]
      /\ exchanges \in 0 .. MaxExchanges /\ MaxExchanges \in Nat
  BY PlanConstants DEF PlanInv, PlanTypeOK
<1>3. /\ placed' \in [DevicePorts -> Equipment \cup {NoModem}]
      /\ \A x \in DevicePorts :
           placed'[x] = IF x = p THEN m ELSE
                          IF placed[x] = m /\ m # NoModem THEN NoModem ELSE placed[x]
  BY <1>2 DEF Place
<1>4. /\ number' \in [DevicePorts -> Nat \ {0}]
      /\ \A x \in DevicePorts :
           number'[x] = IF x = p /\ m # NoModem THEN number[x] + 1 ELSE number[x]
  BY <1>2 DEF Place
<1>5. PlanTypeOK'
  <2>1. exchanges' \in 0 .. MaxExchanges
    BY <1>1, <1>2
  <2>2. QED
    BY <1>1, <1>3, <1>4, <2>1 DEF PlanInv, PlanTypeOK, planRecords
<1>6. \A x \in DevicePorts :
        \/ number'[x] = number[x] /\ placed'[x] \in {placed[x], NoModem}
        \/ number'[x] > number[x]
  BY <1>2, <1>3, <1>4
<1>7. number' \in [DevicePorts -> Nat]
  BY <1>4
<1>8. ScansArePast'
  <2>1. \A x \in DevicePorts : published[x].number \in Nat /\ number[x] \in Nat
    BY DEF PlanInv, PlanTypeOK
  <2>2. QED
    BY <1>1, <1>4, <2>1 DEF PlanInv, ScansArePast
<1>9. QED
  BY <1>1, <1>5, <1>6, <1>7, <1>8, HardwareGoes

LEMMA MoveCardGoes ==
  ASSUME PlanInv, NEW s \in Cards \cup {NoCard}, NEW m \in Equipment, MoveCard(s, m)
  PROVE  PlanInv'
<1>1. /\ exchanges' = exchanges + 1 /\ exchanges < MaxExchanges
      /\ UNCHANGED <<placed, number, published, planRecords, probeCache, requests, done, asked>>
  BY DEF MoveCard
<1>2. exchanges' \in 0 .. MaxExchanges
  BY <1>1, PlanConstants DEF PlanInv, PlanTypeOK
<1>3. cards' \in [Equipment -> Cards \cup {NoCard}]
  BY DEF MoveCard, PlanInv, PlanTypeOK
<1>4. PlanTypeOK'
  BY <1>1, <1>2, <1>3 DEF PlanInv, PlanTypeOK, planRecords
<1>5. number' \in [DevicePorts -> Nat]
  BY <1>1, HereIsTyped DEF PlanInv
<1>6. ScansArePast'
  BY <1>1 DEF PlanInv, ScansArePast
<1>7. QED
  BY <1>1, <1>4, <1>5, <1>6, HardwareGoes

LEMMA ScanGoes ==
  ASSUME PlanInv, Scan
  PROVE  PlanInv'
<1>1. /\ published' = Scanned
      /\ UNCHANGED <<placed, cards, number, exchanges, planRecords, probeCache, requests, done,
                    asked>>
  BY DEF Scan
<1>2. /\ placed \in [DevicePorts -> Equipment \cup {NoModem}]
      /\ number \in [DevicePorts -> Nat \ {0}]
      /\ published \in [DevicePorts -> [modem : Equipment \cup {NoModem}, number : Nat \ {0}]]
  BY DEF PlanInv, PlanTypeOK
<1>3. \A p \in DevicePorts :
        \/ published'[p] = [published[p] EXCEPT !.modem = placed[p]]
        \/ published'[p] = [modem |-> placed[p], number |-> number[p]]
  BY <1>1 DEF Scanned
<1>s. ASSUME NEW p \in DevicePorts
      PROVE  /\ published'[p] \in [modem : Equipment \cup {NoModem}, number : Nat \ {0}]
             /\ published'[p].number \in {published[p].number, number[p]}
  <2>1. /\ placed[p] \in Equipment \cup {NoModem}
        /\ number[p] \in Nat \ {0}
        /\ published[p] \in [modem : Equipment \cup {NoModem}, number : Nat \ {0}]
    BY <1>2
  <2>2. CASE published'[p] = [published[p] EXCEPT !.modem = placed[p]]
    <3>1. published'[p] = [modem |-> placed[p], number |-> published[p].number]
      BY <2>1, <2>2
    <3>2. published[p].number \in Nat \ {0}
      BY <2>1
    <3>3. QED
      BY <2>1, <3>1, <3>2
  <2>3. CASE published'[p] = [modem |-> placed[p], number |-> number[p]]
    BY <2>1, <2>3
  <2>4. QED
    BY <1>3, <2>2, <2>3
<1>4. published' \in [DevicePorts -> [modem : Equipment \cup {NoModem}, number : Nat \ {0}]]
  <2>1. published' = [p \in DevicePorts |-> published'[p]]
    BY <1>1 DEF Scanned
  <2>2. \A p \in DevicePorts :
          published'[p] \in [modem : Equipment \cup {NoModem}, number : Nat \ {0}]
    BY <1>s
  <2>3. QED
    BY <2>1, <2>2
<1>5. PlanTypeOK'
  BY <1>1, <1>4 DEF PlanInv, PlanTypeOK, planRecords
<1>6. ScansArePast'
  <2>1. \A p \in DevicePorts : published'[p].number \in {published[p].number, number[p]}
    BY <1>s
  <2>2. QED
    BY <1>1, <1>2, <2>1 DEF PlanInv, ScansArePast
<1>7. number' \in [DevicePorts -> Nat]
  BY <1>1, HereIsTyped DEF PlanInv
<1>8. QED
  BY <1>1, <1>2, <1>5, <1>6, <1>7, HardwareGoes

LEMMA CacheExpiresGoes ==
  ASSUME PlanInv, CacheExpires
  PROVE  PlanInv'
<1>1. /\ probeCache' = NoCache
      /\ UNCHANGED <<world, planRecords, requests, done, asked>>
  BY DEF CacheExpires
<1>2. /\ placed' = placed /\ cards' = cards /\ number' = number /\ exchanges' = exchanges
      /\ published' = published
      /\ modemRecords' = modemRecords /\ lineRecords' = lineRecords
      /\ requests' = requests /\ done' = done /\ asked' = asked
  BY <1>1 DEF world, planRecords
<1>3. PlanTypeOK'
  BY <1>1, <1>2 DEF PlanInv, PlanTypeOK, NoCache, Blank
<1>4. CacheIsOfItsNumbers'
  BY <1>1 DEF CacheIsOfItsNumbers, NoCache, Blank
<1>5. RecordsAreDistinct'
  BY <1>2 DEF PlanInv, RecordsAreDistinct, DistinctIds, DistinctImeis, SameLine
<1>6. RequestsGo'
  BY <1>2 DEF PlanInv, RequestsGo, Going, HasRead, HasSeen, HasTarget, Past, IsOf, IsOfLine,
     IsOfModem, DistinctIds, DistinctImeis, Blank, Resting
<1>7. \A d \in done' : DoneRightly(d)'
  BY <1>2, KeepsDone DEF PlanInv
<1>8. ScansArePast'
  BY <1>2 DEF PlanInv, ScansArePast
<1>9. QED
  BY <1>3, <1>4, <1>5, <1>6, <1>7, <1>8 DEF PlanInv

-----------------------------------------------------------------------------
LEMMA PlanInvInit == PlanInit => PlanInv
<1> SUFFICES ASSUME PlanInit PROVE PlanInv
  OBVIOUS
<1>1. PICK m \in Equipment, n \in Equipment, p \in DevicePorts :
        /\ m # n
        /\ placed = [x \in DevicePorts |-> IF x = p THEN m ELSE n]
        /\ cards \in [Equipment -> Cards \cup {NoCard}]
        /\ cards[m] # NoCard
        /\ \A e \in Equipment : cards[e] # NoCard <=> e \in {m, n}
        /\ cards[m] # cards[n]
        /\ number = [x \in DevicePorts |-> 1]
        /\ published = [x \in DevicePorts |-> [modem |-> placed[x], number |-> 1]]
        /\ \/ modemRecords = {} /\ lineRecords = {}
           \/ modemRecords = {[id |-> 1, port |-> p, imei |-> NoIdentity]}
              /\ lineRecords = {}
           \/ /\ ImeiOf(m) # NoIdentity
              /\ modemRecords = {[id |-> 1, port |-> NoModem, imei |-> ImeiOf(m)]}
              /\ lineRecords = {[id |-> 1, modem |-> 1, card |-> cards[m]]}
        /\ probeCache = NoCache
        /\ requests = [c \in Clients |-> Resting]
        /\ done = {} /\ exchanges = 0 /\ asked = 0
  BY DEF PlanInit
<1>2. modemRecords \subseteq ModemRecord /\ lineRecords \subseteq LineRecord
  BY <1>1, IdentitiesAreObserved DEF ModemRecord, LineRecord, Ids
<1>3. /\ \A S : S = {} => IsFiniteSet(S) /\ Cardinality(S) = 0
      /\ \A x : IsFiniteSet({x}) /\ Cardinality({x}) = 1
  BY FS_EmptySet, FS_Singleton
<1>4. /\ IsFiniteSet(modemRecords) /\ IsFiniteSet(lineRecords)
      /\ modemRecords # {} => Cardinality(modemRecords) = 1
      /\ lineRecords # {} => Cardinality(lineRecords) = 1
  BY <1>1, <1>3
<1>5. PlanTypeOK
  BY <1>1, <1>2, <1>4, PlanConstants DEF PlanTypeOK
<1>6. RecordsAreDistinct
  <2>1. \A r, x \in modemRecords : r = x
    BY <1>1
  <2>2. \A l, k \in lineRecords : l = k
    BY <1>1
  <2>3. /\ \A r \in modemRecords : r.id = 1
        /\ \A l \in lineRecords : l.id = 1
    BY <1>1
  <2>4. QED
    BY <1>4, <2>1, <2>2, <2>3 DEF RecordsAreDistinct, DistinctIds, DistinctImeis
<1>7. QED
  BY <1>1, <1>5, <1>6 DEF PlanInv, CacheIsOfItsNumbers, RequestsGo, ScansArePast

LEMMA PlanInvNext == PlanInv /\ [PlanNext]_planVars => PlanInv'
<1> SUFFICES ASSUME PlanInv, [PlanNext]_planVars PROVE PlanInv'
  OBVIOUS
<1>1. CASE UNCHANGED planVars
  <2>1. /\ placed' = placed /\ cards' = cards /\ number' = number /\ exchanges' = exchanges
        /\ published' = published
        /\ modemRecords' = modemRecords /\ lineRecords' = lineRecords
        /\ requests' = requests /\ done' = done /\ asked' = asked
        /\ probeCache' = probeCache
    BY <1>1 DEF planVars
  <2>2. PlanTypeOK'
    BY <2>1 DEF PlanInv, PlanTypeOK
  <2>3. number' \in [DevicePorts -> Nat]
    BY <2>1, HereIsTyped DEF PlanInv
  <2>4. ScansArePast'
    BY <2>1 DEF PlanInv, ScansArePast
  <2>5. QED
    BY <2>1, <2>2, <2>3, <2>4, HardwareGoes DEF planRecords
<1>2. ASSUME NEW p \in DevicePorts, NEW m \in Equipment \cup {NoModem}, Place(m, p)
      PROVE  PlanInv'
  BY <1>2, PlaceGoes
<1>3. ASSUME NEW s \in Cards \cup {NoCard}, NEW m \in Equipment, MoveCard(s, m)
      PROVE  PlanInv'
  BY <1>3, MoveCardGoes
<1>4. CASE Scan \/ CacheExpires
  BY <1>4, ScanGoes, CacheExpiresGoes
<1>5. ASSUME NEW c \in Clients,
             \/ Ask(c, "list", 0, NoModem, NoCard)
             \/ \E p \in DevicePorts : Ask(c, "add", 0, p, NoCard)
             \/ \E kind \in {"radio", "imei", "send"}, i \in 1 .. MaxRequests + 1 :
                  Ask(c, kind, i, NoModem, NoCard)
             \/ \E i \in 1 .. MaxRequests + 1, s \in Cards : Ask(c, "addLine", i, NoModem, s)
      PROVE  PlanInv'
  <2>1. CASE Ask(c, "list", 0, NoModem, NoCard)
    BY <2>1, AskGoes
  <2>2. ASSUME NEW p \in DevicePorts, Ask(c, "add", 0, p, NoCard) PROVE PlanInv'
    BY <2>2, AskGoes
  <2>3. ASSUME NEW kind \in {"radio", "imei", "send"}, NEW i \in 1 .. MaxRequests + 1,
               Ask(c, kind, i, NoModem, NoCard)
        PROVE  PlanInv'
    <3>1. i \in Nat
      BY PlanConstants
    <3>2. QED
      BY <2>3, <3>1, AskGoes
  <2>4. ASSUME NEW i \in 1 .. MaxRequests + 1, NEW s \in Cards, Ask(c, "addLine", i, NoModem, s)
        PROVE  PlanInv'
    <3>1. i \in Nat
      BY PlanConstants
    <3>2. QED
      BY <2>4, <3>1, AskGoes
  <2>5. QED
    BY <1>5, <2>1, <2>2, <2>3, <2>4
<1>6. ASSUME NEW c \in Clients,
             \/ ReadLines(c) \/ ReadModems(c) \/ TakeSnapshot(c) \/ LookUp(c)
             \/ \E p \in DevicePorts : ProbePort(c, p)
             \/ EndProbe(c) \/ Promote(c)
             \/ AddModem(c) \/ AddLine(c) \/ Answers(c) \/ Command(c) \/ Deliver(c)
             \/ GiveUp(c)
      PROVE  PlanInv'
  BY <1>6, ReadingGoes, LookUpGoes, ProbePortGoes, EndProbeGoes, PromoteGoes, AddModemGoes,
     AddLineGoes, AnswersGoes, CommandGoes, DeliverGoes
<1>7. QED
  BY <1>1, <1>2, <1>3, <1>4, <1>5, <1>6 DEF PlanNext

(* Two Lines of bound modems that resolve to one device have the modem of  *)
(* the identity seen there and the SIM seen there: they are one Line.      *)
LEMMA LinesAreApart ==
  ASSUME PlanInv, NEW c \in Clients, At(c, "act"),
         NEW l \in requests[c].lines, NEW k \in requests[c].lines,
         \A r \in requests[c].modems : r.id \in {l.modem, k.modem} => r.imei # NoIdentity,
         NEW p \in ResolvedLine(c, l), p \in ResolvedLine(c, k)
  PROVE  l = k
<1> DEFINE q == requests[c]
<1>1. Going(q)
  BY AtGoes
<1>2. PICK r \in q.modems : r.id = l.modem /\ p \in ManagedObservation(c, r)
                           /\ q.seen[p].card = l.card
  BY DEF ResolvedLine
<1>3. PICK x \in q.modems : x.id = k.modem /\ p \in ManagedObservation(c, x)
                           /\ q.seen[p].card = k.card
  BY DEF ResolvedLine
<1>4. /\ r.imei # NoIdentity /\ q.seen[p].imei = r.imei
      /\ x.imei # NoIdentity /\ q.seen[p].imei = x.imei
  BY <1>2, <1>3 DEF ManagedObservation
<1>5. r = x
  BY <1>1, <1>4 DEF Going, HasRead, DistinctImeis
<1>6. SameLine(l, k)
  BY <1>2, <1>3, <1>5 DEF SameLine
<1>7. l \in lineRecords /\ k \in lineRecords
  BY <1>1 DEF Going, HasRead
<1>8. QED
  BY <1>6, <1>7 DEF PlanInv, RecordsAreDistinct

LEMMA PlanInvIsSafe == PlanInv => PlanIsSafe
<1> SUFFICES ASSUME PlanInv PROVE PlanIsSafe
  OBVIOUS
<1>1. MessagesKeepTheirLine
  <2> SUFFICES ASSUME NEW d \in done, NEW l \in lineRecords, d.kind = "send", l.id = d.record
               PROVE  /\ d.card = l.card
                      /\ \A r \in d.known : r.id = l.modem => r.imei \in {NoIdentity, d.imei}
    BY DEF MessagesKeepTheirLine
  <2>1. IsOfLine(d.record, d.known, d.imei, d.card)
    BY DEF PlanInv, DoneRightly
  <2>2. QED
    BY <2>1 DEF IsOfLine, PlanInv, RecordsAreDistinct, DistinctIds
<1>2. RadioReachesItsModem
  BY DEF RadioReachesItsModem, RecordOf, PlanInv, DoneRightly, IsOfModem
<1>3. ImeiIsItsModems
  BY DEF ImeiIsItsModems, RecordOf, PlanInv, DoneRightly
<1>4. NothingIsClaimedTwice
  <2>1. \A r, x \in modemRecords : r.imei = x.imei /\ r.imei # NoIdentity => r = x
    BY DEF PlanInv, RecordsAreDistinct, DistinctImeis
  <2>2. ASSUME NEW c \in Clients, At(c, "act"),
               NEW l \in requests[c].lines, NEW k \in requests[c].lines, l # k,
               \A r \in requests[c].modems :
                 r.id \in {l.modem, k.modem} => r.imei # NoIdentity
        PROVE  ResolvedLine(c, l) \cap ResolvedLine(c, k) = {}
    BY <2>2, LinesAreApart
  <2>3. QED
    BY <2>1, <2>2 DEF NothingIsClaimedTwice
<1>5. QED
  BY <1>1, <1>2, <1>3, <1>4 DEF PlanIsSafe, PlanInv

(* Whatever is plugged in, moved or written between two reads: a message   *)
(* goes out over its Line's SIM and modem, the RF switch reaches its modem *)
(* unless another was plugged into the port after the scan the request     *)
(* goes by, an IMEI shown is its record's, and nothing is claimed by two   *)
(* records.                                                                *)
THEOREM PlanHolds == PlanSpec => []PlanIsSafe
<1>1. PlanSpec => []PlanInv
  BY PlanInvInit, PlanInvNext, PTL DEF PlanSpec
<1>2. QED
  BY <1>1, PlanInvIsSafe, PTL

-----------------------------------------------------------------------------
(* Notification channels and their binding.                                *)

(* A generation whose channel may exist or be written: authorised, and not *)
(* cancelled now or later, for it does not wait any more.                  *)
Owned(g) ==
  /\ g \in authorised \ cancelled
  /\ g <= binding.generation
  /\ g = binding.generation => binding.state # "waiting"

(* Only what was authorised is tested, stored, kept or being edited.       *)
ChannelsAreOwned ==
  \A g \in Generations :
    \/ attempt[g] \in {"send", "store", "finish"}
    \/ channels[g] # NoChannel
    \/ edit.channel = g
    => Owned(g)

(* A cancellation is of an earlier generation.                             *)
CancelledArePast == \A g \in cancelled : g < binding.generation

(* The goroutine of an active binding is where the binding's state says.   *)
AttemptAgrees ==
  /\ binding.state = "waiting" => attempt[binding.generation] \in {"begin", "poll"}
  /\ binding.state = "testing" =>
       attempt[binding.generation] \in {"send", "store", "finish"}
  /\ binding.state \in {"waiting", "testing"} => binding.generation # 0

(* The inductive invariant behind BindingIsSafe and DeliveriesAreKept.     *)
NotifyInv == /\ NotifyTypeOK /\ ChannelsAreOwned /\ CancelledArePast
             /\ AttemptAgrees /\ DeliveriesAreKept

LEMMA NotifyInvInit == NotifyInit => NotifyInv
<1> SUFFICES ASSUME NotifyInit PROVE NotifyInv
  OBVIOUS
<1> USE NotifyAssumption DEF NotifyInit, Generations, ChannelIds, Statuses, NoEdit
<1>1. NotifyTypeOK
  BY DEF NotifyTypeOK
<1>2. ChannelsAreOwned
  BY DEF ChannelsAreOwned
<1>3. CancelledArePast /\ AttemptAgrees
  BY DEF CancelledArePast, AttemptAgrees
<1>4. DeliveriesAreKept
  BY DEF DeliveriesAreKept
<1>5. QED
  BY <1>1, <1>2, <1>3, <1>4 DEF NotifyInv

LEMMA NotifyInvIsSafe == NotifyInv => BindingIsSafe /\ DeliveriesAreKept
BY DEF NotifyInv, BindingIsSafe, ActiveIsAttended, ChannelsAreAuthorised,
       AttemptAgrees, ChannelsAreOwned, Owned

LEMMA NotifyInvNext == NotifyInv /\ [NotifyNext]_notifyVars => NotifyInv'
<1> SUFFICES ASSUME NotifyInv, [NotifyNext]_notifyVars PROVE NotifyInv'
  OBVIOUS
<1> USE NotifyAssumption DEF NotifyInv, NotifyTypeOK, ChannelsAreOwned, Owned,
      CancelledArePast, AttemptAgrees, DeliveriesAreKept, Generations, ChannelIds, Statuses, NoEdit
<1>1. CASE StartFeishuBinding
  BY <1>1 DEF StartFeishuBinding, Started, Goes, channelVars
<1>2. CASE CancelFeishuBinding
  <2>0. binding.generation \in Generations /\ binding'.generation \in ChannelIds
    BY <1>2 DEF CancelFeishuBinding, channelVars
  <2>1. NotifyTypeOK'
    BY <1>2, <2>0 DEF CancelFeishuBinding, channelVars
  <2>2. ChannelsAreOwned'
    BY <1>2 DEF CancelFeishuBinding, channelVars
  <2>3. CancelledArePast' /\ AttemptAgrees'
    BY <1>2 DEF CancelFeishuBinding, channelVars
  <2>4. DeliveriesAreKept'
    BY <1>2 DEF CancelFeishuBinding, channelVars
  <2> HIDE DEF NotifyTypeOK, ChannelsAreOwned, CancelledArePast, AttemptAgrees, DeliveriesAreKept
  <2>5. QED
    BY <2>1, <2>2, <2>3, <2>4
<1>3. ASSUME NEW g \in Generations, Begun(g) PROVE NotifyInv'
  <2>1. NotifyTypeOK'
    BY <1>3 DEF Begun, Goes, Owns, channelVars
  <2>2. ChannelsAreOwned'
    BY <1>3 DEF Begun, Goes, Owns, channelVars
  <2>3. CancelledArePast' /\ AttemptAgrees'
    BY <1>3 DEF Begun, Goes, Owns, channelVars
  <2>4. DeliveriesAreKept'
    BY <1>3 DEF Begun, Goes, Owns, channelVars
  <2> HIDE DEF NotifyTypeOK, ChannelsAreOwned, CancelledArePast, AttemptAgrees, DeliveriesAreKept
  <2>5. QED
    BY <2>1, <2>2, <2>3, <2>4
<1>4. ASSUME NEW g \in Generations, Polled(g) PROVE NotifyInv'
  <2> USE <1>4 DEF Polled, Claims, Goes, Owns, channelVars
  <2>1. attempt' \in [Generations -> {"none", "begin", "poll", "send", "store", "finish", "gone"}]
        /\ authorised' \subseteq Generations
    OBVIOUS
  <2>2. NotifyTypeOK'
    <3>1. binding' = binding \/ binding' = [binding EXCEPT !.state = "testing"]
      OBVIOUS
    <3>2. QED  BY <2>1, <3>1
  <2>3. CASE Claims(g)
    BY <2>2, <2>3
  <2>4. CASE ~Claims(g)
    <3>1. attempt' = [attempt EXCEPT ![g] = "gone"] /\ UNCHANGED binding
      BY <2>4
    <3>2. \A k \in Generations : Owned(k) => Owned(k)'
      BY <3>1
    <3>3. ChannelsAreOwned'
      BY <3>1, <3>2
    <3>4. AttemptAgrees'
      BY <3>1, <2>4
    <3>5. QED  BY <2>2, <3>1, <3>3, <3>4
  <2>5. QED
    BY <2>3, <2>4, Zenon
<1>5. ASSUME NEW g \in Generations, AttemptFails(g) PROVE NotifyInv'
  <2>0. PICK state \in {"failed", "expired"} : BindingFails(g, state)
    BY <1>5 DEF AttemptFails
  <2> USE <2>0 DEF BindingFails
  <2>1. NotifyTypeOK'
    BY <1>5 DEF channelVars, Goes
  <2>2. ChannelsAreOwned'
    BY <1>5 DEF channelVars, Goes
  <2>3. CancelledArePast'
    BY <1>5 DEF channelVars, Goes
  <2>4. AttemptAgrees'
    BY <1>5 DEF channelVars, Goes
  <2>5. DeliveriesAreKept'
    BY <1>5 DEF channelVars, Goes
  <2> HIDE DEF NotifyTypeOK, ChannelsAreOwned, CancelledArePast, AttemptAgrees, DeliveriesAreKept
  <2>6. QED
    BY <2>1, <2>2, <2>3, <2>4, <2>5
<1>6. ASSUME NEW g \in Generations, TestSent(g) PROVE NotifyInv'
  BY <1>6 DEF TestSent, Goes, Owns, channelVars
<1>7. ASSUME NEW g \in Generations, BindingStored(g) PROVE NotifyInv'
  <2>1. NotifyTypeOK'
    BY <1>7 DEF BindingStored, Goes
  <2>2. ChannelsAreOwned'
    BY <1>7 DEF BindingStored, Goes
  <2>3. CancelledArePast' /\ AttemptAgrees'
    BY <1>7 DEF BindingStored, Goes
  <2>4. DeliveriesAreKept'
    BY <1>7 DEF BindingStored, Goes
  <2> HIDE DEF NotifyTypeOK, ChannelsAreOwned, CancelledArePast, AttemptAgrees, DeliveriesAreKept
  <2>5. QED
    BY <2>1, <2>2, <2>3, <2>4
<1>8. ASSUME NEW g \in Generations, BindingFinishes(g) PROVE NotifyInv'
  <2>1. NotifyTypeOK'
    BY <1>8 DEF BindingFinishes, Goes, Owns
  <2>2. ChannelsAreOwned'
    <3>1. \A k \in Generations : Owned(k) => Owned(k)'
      BY <1>8 DEF BindingFinishes, Owns
    <3>2. \A k \in Generations :
            /\ attempt'[k] \in {attempt[k], "gone"}
            /\ channels'[k] \in {channels[k], NoChannel}
      BY <1>8 DEF BindingFinishes, Goes
    <3>3. edit' = edit
      BY <1>8 DEF BindingFinishes
    <3>4. QED  BY <3>1, <3>2, <3>3
  <2>3. CancelledArePast'
    BY <1>8 DEF BindingFinishes, Goes, Owns
  <2>4. AttemptAgrees'
    BY <1>8 DEF BindingFinishes, Goes, Owns
  <2>5. DeliveriesAreKept'
    BY <1>8 DEF BindingFinishes, Goes, Owns
  <2> HIDE DEF NotifyTypeOK, ChannelsAreOwned, CancelledArePast, AttemptAgrees, DeliveriesAreKept
  <2>6. QED
    BY <2>1, <2>2, <2>3, <2>4, <2>5
<1>9. ASSUME NEW id \in ChannelIds, EditReads(id) PROVE NotifyInv'
  BY <1>9 DEF EditReads, bindingVars
<1>10. ASSUME NEW id \in ChannelIds, DeleteChannel(id) PROVE NotifyInv'
  BY <1>10 DEF DeleteChannel, bindingVars
<1>11. ASSUME NEW id \in ChannelIds, NEW result \in {"success", "failed"}, DeliveryEnds(id, result)
       PROVE NotifyInv'
  <2>1. CASE channels[id] = NoChannel
    BY <1>11, <2>1 DEF DeliveryEnds, bindingVars
  <2>2. CASE channels[id] # NoChannel
    <3>1. UNCHANGED <<bindingVars, edit, edits, notifyStarts>> /\ delivery' \subseteq delivery
      BY <1>11 DEF DeliveryEnds
    <3>2. /\ channels' = [channels EXCEPT ![id] = result]
          /\ recorded' = [recorded EXCEPT ![id] = result]
      BY <1>11, <2>2 DEF DeliveryEnds
    <3>3. NotifyTypeOK'
      BY <3>1, <3>2 DEF bindingVars
    <3>4. ChannelsAreOwned'
      BY <2>2, <3>1, <3>2 DEF bindingVars
    <3>5. CancelledArePast' /\ AttemptAgrees'
      BY <3>1 DEF bindingVars
    <3>6. DeliveriesAreKept'
      BY <3>2
    <3> HIDE DEF NotifyTypeOK, ChannelsAreOwned, CancelledArePast, AttemptAgrees, DeliveriesAreKept
    <3>7. QED
      BY <3>3, <3>4, <3>5, <3>6
  <2>3. QED  BY <2>1, <2>2
<1>12. CASE EditWrites
  BY <1>12 DEF EditWrites, Upserted, bindingVars
<1>13. CASE EditFails
  BY <1>13 DEF EditFails, bindingVars
<1>14. CASE Notify
  <2>1. NotifyTypeOK'
    BY <1>14 DEF Notify, bindingVars
  <2>2. ChannelsAreOwned'
    BY <1>14 DEF Notify, bindingVars
  <2>3. CancelledArePast' /\ AttemptAgrees'
    BY <1>14 DEF Notify, bindingVars
  <2>4. DeliveriesAreKept'
    BY <1>14 DEF Notify, bindingVars
  <2> HIDE DEF NotifyTypeOK, ChannelsAreOwned, CancelledArePast, AttemptAgrees, DeliveriesAreKept
  <2>5. QED
    BY <2>1, <2>2, <2>3, <2>4
<1>15. CASE NotifyRestarts
  <2>1. NotifyTypeOK'
    BY <1>15 DEF NotifyRestarts
  <2>2. ChannelsAreOwned'
    BY <1>15 DEF NotifyRestarts
  <2>3. CancelledArePast'
    BY <1>15 DEF NotifyRestarts
  <2>4. AttemptAgrees'
    BY <1>15 DEF NotifyRestarts
  <2>5. DeliveriesAreKept'
    BY <1>15 DEF NotifyRestarts
  <2> HIDE DEF NotifyTypeOK, ChannelsAreOwned, CancelledArePast, AttemptAgrees, DeliveriesAreKept
  <2>6. QED
    BY <2>1, <2>2, <2>3, <2>4, <2>5
<1>16. CASE UNCHANGED notifyVars
  BY <1>16 DEF notifyVars
<1>17. QED
  BY <1>1, <1>2, <1>3, <1>4, <1>5, <1>6, <1>7, <1>8, <1>9, <1>10, <1>11, <1>12, <1>13,
     <1>14, <1>15, <1>16 DEF NotifyNext

-----------------------------------------------------------------------------
(* The HTTP server and the browser in front of it.                         *)

(* An answer that may be given for a request that did what r did.          *)
IsTrueOf(answer, r) ==
  /\ answer.kind = "done" => r.did = "all"
  /\ answer.kind = "refused" /\ r.did # "nothing" => r.route \in RefusesPartway

(* What a request has done follows from how far it is, and what it answers *)
(* or answered is true of that; a timeout alone answers before its end.    *)
Honest(r) ==
  /\ r.at \in {"gate", "act"} => r.did = "nothing"
  /\ r.at = "tell" => r.did = "all" /\ r.route \in Plain
  /\ r.wire = "waiting" => r.at # "over"
  /\ r.route \in Plain =>
       /\ r.at = "write" => IsTrueOf(r.answer, r)
       /\ r.wire = "answered" =>
            IF r.at = "over" THEN IsTrueOf(r.reply, r) ELSE r.reply.kind = "again"

(* Cookies are set for sessions that were issued.                          *)
HasItsSession(r) == r.answer.session <= issued /\ r.reply.session <= issued

HandlersAreHonest == \A h \in Handlers : Honest(handling[h]) /\ HasItsSession(handling[h])

(* The inductive invariant behind HttpIsSafe.                              *)
HttpInv == HttpTypeOK /\ HandlersAreHonest /\ ChangesAreTold

-----------------------------------------------------------------------------
(* A route changes nothing it does not tell of: the topics it publishes    *)
(* have its tags fetched again.                                            *)
GoodRoute(route) ==
  /\ route.topics \subseteq Topics
  /\ route.changes \subseteq TagsOfAll(route.topics)
GoodRoutes(routes) == \A r \in DOMAIN routes : GoodRoute(routes[r])

LEMMA TagsAreTopics == \A topic \in Topics : topic \in TagsOf(topic)
BY DEF Topics, TagsOf

LEMMA TagsStay ==
  ASSUME NEW topics, topics \subseteq Topics
  PROVE  TagsOfAll(topics) \subseteq Topics
<1>1. \A topic \in Topics : TagsOf(topic) \subseteq Topics
  BY DEF Topics, TagsOf
<1>2. QED  BY <1>1 DEF TagsOfAll

LEMMA TagsGrow ==
  ASSUME NEW less, NEW more, less \subseteq more
  PROVE  TagsOfAll(less) \subseteq TagsOfAll(more)
BY DEF TagsOfAll

LEMMA TagsOfTheTold ==
  ASSUME NEW topics, topics \subseteq Topics
  PROVE  topics \subseteq TagsOfAll(topics)
BY TagsAreTopics DEF TagsOfAll

LEMMA RoutesAreMade ==
  /\ \A gate : GoodRoute(Reads(gate)) /\ GoodRoute(FailsPartway(Reads(gate)))
  /\ \A gate : \A topic \in Topics :
       GoodRoute(Tells(gate, topic)) /\ GoodRoute(FailsPartway(Tells(gate, topic)))
  /\ \A gate, changed, partway : \A topics \in SUBSET Topics :
       changed \subseteq TagsOfAll(topics) => GoodRoute(Route(gate, changed, topics, partway))
<1>1. \A gate : GoodRoute(Reads(gate)) /\ GoodRoute(FailsPartway(Reads(gate)))
  BY DEF GoodRoute, Reads, Route, FailsPartway
<1>2. ASSUME NEW gate, NEW topic \in Topics
      PROVE  GoodRoute(Tells(gate, topic)) /\ GoodRoute(FailsPartway(Tells(gate, topic)))
  <2>1. {topic} \subseteq TagsOfAll({topic})
    BY TagsOfTheTold
  <2>2. QED  BY <2>1 DEF GoodRoute, Tells, Route, FailsPartway
<1>3. QED
  BY <1>1, <1>2 DEF GoodRoute, Route

LEMMA GroupsAreGood == \A routes \in RouteGroups : GoodRoutes(routes)
<1> USE RoutesAreMade
<1>1. GoodRoutes(SetupRoutes)
  <2>1. GoodRoute(Reads("none"))
    OBVIOUS
  <2>2. GoodRoute(Reads("setup"))
    OBVIOUS
  <2>3. GoodRoute(FailsPartway(Reads("setup")))
    OBVIOUS
  <2>4. QED
    BY <2>1, <2>2, <2>3 DEF GoodRoutes, SetupRoutes
<1>2. GoodRoutes(SetupHardware)
  <2>1. GoodRoute(Reads("setup"))
    OBVIOUS
  <2>2. GoodRoute(Reads("setup"))
    OBVIOUS
  <2>3. QED
    BY <2>1, <2>2 DEF GoodRoutes, SetupHardware
<1>3. GoodRoutes(InventoryReads)
  <2>1. GoodRoute(Reads("business"))
    OBVIOUS
  <2>2. GoodRoute(Reads("business"))
    OBVIOUS
  <2>3. QED
    BY <2>1, <2>2 DEF GoodRoutes, InventoryReads
<1>4. GoodRoutes(CoreRoutes)
  <2>1. GoodRoute(Reads("admin"))
    OBVIOUS
  <2>2. GoodRoute(Tells("admin", "mihomo"))
    BY DEF Topics
  <2>3. QED
    BY <2>1, <2>2 DEF GoodRoutes, CoreRoutes
<1>5. GoodRoutes(SubscriptionRoutes)
  <2>1. GoodRoute(Reads("admin"))
    OBVIOUS
  <2>2. GoodRoute(FailsPartway(Tells("admin", "mihomo")))
    BY DEF Topics
  <2>3. GoodRoute(FailsPartway(Tells("admin", "mihomo")))
    BY DEF Topics
  <2>4. GoodRoute(Tells("admin", "mihomo"))
    BY DEF Topics
  <2>5. QED
    BY <2>1, <2>2, <2>3, <2>4 DEF GoodRoutes, SubscriptionRoutes
<1>6. GoodRoutes(EgressRoutes)
  <2>1. GoodRoute(EgressRoutes.bindings)
    BY DEF EgressRoutes
  <2>2. GoodRoute(EgressRoutes.putEgress)
    <3>1. {"lines"} \subseteq TagsOfAll({"lines", "mihomo", "vowifi"})
      BY DEF TagsOfAll, TagsOf
    <3>2. QED  BY <3>1 DEF Topics, EgressRoutes
  <2>3. DOMAIN EgressRoutes = {"bindings", "putEgress"}
    BY DEF EgressRoutes
  <2>4. QED
    BY <2>1, <2>2, <2>3 DEF GoodRoutes
<1>7. GoodRoutes(VoWiFiRoutes)
  <2>1. GoodRoute(VoWiFiRoutes.vowifiLines)
    BY DEF VoWiFiRoutes
  <2>2. GoodRoute(VoWiFiRoutes.activate)
    <3>1. {"lines"} \subseteq TagsOfAll({"vowifi"})
      BY DEF TagsOfAll, TagsOf
    <3>2. QED  BY <3>1 DEF Topics, VoWiFiRoutes
  <2>3. GoodRoute(VoWiFiRoutes.deactivate)
    <3>1. {"lines"} \subseteq TagsOfAll({"vowifi"})
      BY DEF TagsOfAll, TagsOf
    <3>2. QED  BY <3>1 DEF Topics, VoWiFiRoutes
  <2>4. DOMAIN VoWiFiRoutes = {"vowifiLines", "activate", "deactivate"}
    BY DEF VoWiFiRoutes
  <2>5. QED
    BY <2>1, <2>2, <2>3, <2>4 DEF GoodRoutes
<1>8. GoodRoutes(ConfigRoutes)
  <2>1. GoodRoute(ConfigRoutes.config)
    BY DEF ConfigRoutes
  <2>2. GoodRoute(ConfigRoutes.publishConfig)
    BY DEF Topics, ConfigRoutes
  <2>3. GoodRoute(ConfigRoutes.select)
    <3>1. {"mihomo", "lines"} \subseteq TagsOfAll({"mihomo", "vowifi"})
      BY DEF TagsOfAll, TagsOf
    <3>2. QED  BY <3>1 DEF Topics, ConfigRoutes
  <2>4. GoodRoute(ConfigRoutes.runtime)
    <3>1. {"mihomo", "lines"} \subseteq TagsOfAll({"mihomo", "vowifi"})
      BY DEF TagsOfAll, TagsOf
    <3>2. QED  BY <3>1 DEF Topics, ConfigRoutes
  <2>5. DOMAIN ConfigRoutes = {"config", "publishConfig", "select", "runtime"}
    BY DEF ConfigRoutes
  <2>6. QED
    BY <2>1, <2>2, <2>3, <2>4, <2>5 DEF GoodRoutes
<1>9. GoodRoutes(NotificationRoutes)
  <2>1. GoodRoute(Reads("admin"))
    OBVIOUS
  <2>2. GoodRoute(Tells("admin", "notifications"))
    BY DEF Topics
  <2>3. GoodRoute(FailsPartway(Tells("admin", "notifications")))
    BY DEF Topics
  <2>4. GoodRoute(Reads("admin"))
    OBVIOUS
  <2>5. QED
    BY <2>1, <2>2, <2>3, <2>4 DEF GoodRoutes, NotificationRoutes
<1>10. GoodRoutes(MessageReads)
  <2>1. GoodRoute(Reads("business"))
    OBVIOUS
  <2>2. QED
    BY <2>1 DEF GoodRoutes, MessageReads
<1>11. GoodRoutes(MessageRoutes)
  <2>1. GoodRoute(Tells("business", "messages"))
    BY DEF Topics
  <2>2. GoodRoute(Tells("business", "messages"))
    BY DEF Topics
  <2>3. GoodRoute(FailsPartway(Tells("business", "messages")))
    BY DEF Topics
  <2>4. QED
    BY <2>1, <2>2, <2>3 DEF GoodRoutes, MessageRoutes
<1>12. GoodRoutes(CallReads)
  <2>1. GoodRoute(Reads("business"))
    OBVIOUS
  <2>2. QED
    BY <2>1 DEF GoodRoutes, CallReads
<1>13. GoodRoutes(EuiccRoutes)
  <2>1. GoodRoute(Reads("business"))
    OBVIOUS
  <2>2. GoodRoute(Tells("business", "euicc"))
    BY DEF Topics
  <2>3. QED
    BY <2>1, <2>2 DEF GoodRoutes, EuiccRoutes
<1>14. GoodRoutes(CallRoutes)
  <2>1. GoodRoute(FailsPartway(Tells("business", "calls")))
    BY DEF Topics
  <2>2. GoodRoute(FailsPartway(Tells("business", "calls")))
    BY DEF Topics
  <2>3. QED
    BY <2>1, <2>2 DEF GoodRoutes, CallRoutes
<1>15. GoodRoutes(ContactRoutes)
  <2>1. GoodRoute(Reads("business"))
    OBVIOUS
  <2>2. GoodRoute(Tells("business", "contacts"))
    BY DEF Topics
  <2>3. QED
    BY <2>1, <2>2 DEF GoodRoutes, ContactRoutes
<1>16. GoodRoutes(LineRoutes)
  <2>1. GoodRoute(LineRoutes.lines)
    BY DEF LineRoutes
  <2>2. GoodRoute(LineRoutes.addLine)
    <3>1. {"lines", "inventory"} \subseteq TagsOfAll({"inventory", "lines"})
      BY DEF TagsOfAll, TagsOf
    <3>2. QED  BY <3>1 DEF Topics, LineRoutes
  <2>3. GoodRoute(LineRoutes.updateLine)
    BY DEF Topics, LineRoutes
  <2>4. DOMAIN LineRoutes = {"lines", "addLine", "updateLine"}
    BY DEF LineRoutes
  <2>5. QED
    BY <2>1, <2>2, <2>3, <2>4 DEF GoodRoutes
<1>17. GoodRoutes(ModemRoutes)
  <2>1. GoodRoute(ModemRoutes.modems)
    BY DEF ModemRoutes
  <2>2. GoodRoute(ModemRoutes.equipmentIdentity)
    BY DEF ModemRoutes
  <2>3. GoodRoute(ModemRoutes.addModem)
    <3>1. {"inventory", "lines"} \subseteq TagsOfAll({"inventory", "modems", "lines"})
      BY DEF TagsOfAll, TagsOf
    <3>2. QED  BY <3>1 DEF Topics, ModemRoutes
  <2>4. GoodRoute(ModemRoutes.setRF)
    <3>1. {"inventory", "lines"} \subseteq TagsOfAll({"inventory", "modems", "lines"})
      BY DEF TagsOfAll, TagsOf
    <3>2. QED  BY <3>1 DEF Topics, ModemRoutes
  <2>5. DOMAIN ModemRoutes = {"modems", "equipmentIdentity", "addModem", "setRF"}
    BY DEF ModemRoutes
  <2>6. QED
    BY <2>1, <2>2, <2>3, <2>4, <2>5 DEF GoodRoutes
<1>18. GoodRoutes(HealthRoutes)
  <2>1. GoodRoute(Reads("none"))
    OBVIOUS
  <2>2. QED
    BY <2>1 DEF GoodRoutes, HealthRoutes
<1>19. GoodRoutes(DoorRoutes)
  <2>1. GoodRoute(Reads("admin"))
    OBVIOUS
  <2>2. GoodRoute(Reads("none"))
    OBVIOUS
  <2>3. GoodRoute(Reads("cookie"))
    OBVIOUS
  <2>4. GoodRoute(Reads("cookie"))
    OBVIOUS
  <2>5. GoodRoute(Reads("none"))
    OBVIOUS
  <2>6. GoodRoute(Reads("setup"))
    OBVIOUS
  <2>7. QED
    BY <2>1, <2>2, <2>3, <2>4, <2>5, <2>6 DEF GoodRoutes, DoorRoutes
<1>20. QED
  BY <1>1, <1>2, <1>3, <1>4, <1>5, <1>6, <1>7, <1>8, <1>9, <1>10, <1>11, <1>12, <1>13, <1>14, <1>15, <1>16, <1>17, <1>18, <1>19 DEF RouteGroups

LEMMA CatalogueIsGood == GoodRoutes(Catalogue)
<1>1. SUFFICES ASSUME NEW r \in DOMAIN Catalogue PROVE GoodRoute(Catalogue[r])
  BY DEF GoodRoutes
<1>2. PICK routes \in RouteGroups : r \in DOMAIN routes
  BY DEF Catalogue
<1>3. QED
  BY <1>2, GroupsAreGood DEF Catalogue, GoodRoutes

LEMMA RoutesOfRequestsAreGood ==
  ASSUME NEW r \in Routes
  PROVE  GoodRoute(Catalogue[r])
BY HttpAssumption, CatalogueIsGood DEF GoodRoutes

-----------------------------------------------------------------------------
(* Steps of one request: the others stay as they are.                      *)

LEMMA OneHandlerGoes ==
  ASSUME HttpTypeOK, HandlersAreHonest, NEW h \in Handlers, NEW changed \in Requested,
         Steps(h, changed), issued' \in Nat, issued <= issued',
         Honest(changed), changed.answer.session <= issued', changed.reply.session <= issued'
  PROVE  /\ handling' \in [Handlers -> Requested]
         /\ HandlersAreHonest'
         /\ handling'[h] = changed
         /\ \A k \in Handlers : k # h => handling'[k] = handling[k]
<1>1. handling' \in [Handlers -> Requested]
  BY DEF HttpTypeOK, Steps
<1>2. handling'[h] = changed /\ \A k \in Handlers : k # h => handling'[k] = handling[k]
  BY DEF HttpTypeOK, Steps
<1>3. ASSUME NEW k \in Handlers PROVE Honest(handling'[k]) /\ HasItsSession(handling[k])'
  <2>1. CASE k = h
    BY <1>2, <2>1 DEF HasItsSession
  <2>2. CASE k # h
    <3>1. /\ handling'[k] = handling[k] /\ Honest(handling[k])
          /\ handling[k].answer.session <= issued /\ handling[k].reply.session <= issued
      BY <1>2, <2>2 DEF HandlersAreHonest, HasItsSession
    <3>2. handling[k].answer.session \in Nat /\ handling[k].reply.session \in Nat /\ issued \in Nat
      BY DEF HttpTypeOK, Requested, HttpAnswers
    <3>3. QED  BY <3>1, <3>2 DEF HasItsSession
  <2>3. QED  BY <2>1, <2>2
<1>4. QED
  BY <1>1, <1>2, <1>3 DEF HandlersAreHonest, Honest, IsTrueOf, Plain

(* A handler that has still to publish stays there, or nobody waited for   *)
(* its news.                                                               *)
LEMMA NewsStay ==
  ASSUME HttpInv, NEW h \in Handlers, handling'[h] \in Requested,
         \A k \in Handlers : k # h => handling'[k] = handling[k],
         HandlerAt(h, "tell") =>
           handling'[h].at = "tell" /\ handling'[h].route = handling[h].route,
         UNCHANGED tabVars
  PROVE  ChangesAreTold'
<1>1. ASSUME NEW k \in Handlers, HandlerAt(k, "tell")
      PROVE  HandlerAt(k, "tell")' /\ Of(k)' = Of(k)
  BY <1>1 DEF HandlerAt, Of
<1>2. streams' = streams /\ stale' = stale /\ untold' = untold /\ later' = later
  BY DEF tabVars
<1>3. SUFFICES ASSUME NEW t \in Tabs, streams[t].session # 0, NEW tag \in stale[t]
      PROVE  \/ tag \in TagsOfAll(streams[t].slot) \cup untold[t]
             \/ \E k \in Handlers : HandlerAt(k, "tell")' /\ tag \in TagsOfAll(Of(k)'.topics)
             \/ later /\ tag = "notifications"
  BY <1>2 DEF ChangesAreTold
<1>4. \/ tag \in TagsOfAll(streams[t].slot) \cup untold[t]
      \/ \E k \in Handlers : HandlerAt(k, "tell") /\ tag \in TagsOfAll(Of(k).topics)
      \/ later /\ tag = "notifications"
  BY <1>3 DEF HttpInv, ChangesAreTold
<1>5. QED
  BY <1>1, <1>4

(* What a request that steps was.                                          *)
LEMMA RequestsAreTyped ==
  ASSUME HttpInv, NEW h \in Handlers
  PROVE  /\ handling[h] \in Requested /\ Honest(handling[h])
         /\ issued \in Nat /\ issued <= MaxLogins
         /\ handling[h].answer.session <= issued /\ handling[h].reply.session <= issued
         /\ handling[h].answer.session \in Nat /\ handling[h].reply.session \in Nat
BY HttpAssumption DEF HttpInv, HttpTypeOK, HandlersAreHonest, HasItsSession, Requested, HttpAnswers

(* A step that changes neither what tabs show nor the door.                *)
LEMMA OneHandlerSteps ==
  ASSUME HttpInv, NEW h \in Handlers, NEW changed \in Requested, Steps(h, changed),
         Honest(changed), changed.answer.session <= issued', changed.reply.session <= issued',
         HandlerAt(h, "tell") => changed.at = "tell" /\ changed.route = handling[h].route,
         UNCHANGED tabVars,
         stage' \in {"setup", "ready"}, issued' \in issued .. MaxLogins,
         live' \subseteq 1 .. issued', cookies' \in [session : 0 .. issued', setup : BOOLEAN],
         apiFaults' \in 0 .. MaxApiFaults
  PROVE  HttpInv'
<1>1. issued \in Nat /\ issued' \in Nat /\ issued <= issued' /\ issued' \in 0 .. MaxLogins
  BY HttpAssumption DEF HttpInv, HttpTypeOK
<1>2. /\ handling' \in [Handlers -> Requested] /\ HandlersAreHonest' /\ handling'[h] = changed
      /\ \A k \in Handlers : k # h => handling'[k] = handling[k]
  BY <1>1, OneHandlerGoes DEF HttpInv
<1>3. ChangesAreTold'
  BY <1>2, NewsStay
<1>4. streams' \in [Tabs -> [session : 0 .. issued', slot : SUBSET Topics]]
  <2>1. 0 .. issued \subseteq 0 .. issued'
    BY <1>1
  <2>2. streams \in [Tabs -> [session : 0 .. issued, slot : SUBSET Topics]] /\ streams' = streams
    BY DEF HttpInv, HttpTypeOK, tabVars
  <2>3. QED  BY <2>1, <2>2
<1>5. HttpTypeOK'
  BY <1>1, <1>2, <1>4 DEF HttpInv, HttpTypeOK, tabVars
<1>6. QED  BY <1>2, <1>3, <1>5 DEF HttpInv

(* HttpAnswers, and what they do to cookies.                                   *)
LEMMA AnswersAreMade ==
  /\ NoAnswer \in HttpAnswers /\ NoAnswer.kind = "none" /\ NoAnswer.session = 0
  /\ \A kind \in {"done", "refused", "again"} :
       Says(kind) \in HttpAnswers /\ Says(kind).kind = kind /\ Says(kind).session = 0
  /\ \A answer \in HttpAnswers :
       /\ ClearsAdmin(answer) \in HttpAnswers /\ ClearsSetup(answer) \in HttpAnswers
       /\ SetsSetup(answer) \in HttpAnswers
       /\ ClearsAdmin(answer).kind = answer.kind /\ ClearsAdmin(answer).session = answer.session
       /\ ClearsSetup(answer).kind = answer.kind /\ ClearsSetup(answer).session = answer.session
       /\ SetsSetup(answer).kind = answer.kind /\ SetsSetup(answer).session = answer.session
  /\ \A answer \in HttpAnswers, session \in Nat :
       /\ SetsAdmin(answer, session) \in HttpAnswers
       /\ SetsAdmin(answer, session).session = session
BY DEF HttpAnswers, NoAnswer, Says, ClearsAdmin, ClearsSetup, SetsSetup, SetsAdmin

(* A request that has done nothing yet is answered: not with a success,    *)
(* unless its route is one by which sessions come and go.                  *)
LEMMA AnsweredGoes ==
  ASSUME HttpInv, NEW h \in Handlers, NEW answer \in HttpAnswers, Answered(h, answer),
         handling[h].at \in {"gate", "act"}, answer.session <= issued',
         handling[h].route \in Plain => answer.kind # "done",
         UNCHANGED tabVars,
         stage' \in {"setup", "ready"}, issued' \in issued .. MaxLogins,
         live' \subseteq 1 .. issued', cookies' \in [session : 0 .. issued', setup : BOOLEAN],
         apiFaults' \in 0 .. MaxApiFaults
  PROVE  HttpInv'
<1>1. PICK changed : changed = [handling[h] EXCEPT !.at = "write", !.answer = answer]
  OBVIOUS
<1>2. Steps(h, changed) /\ changed \in Requested
  BY <1>1, RequestsAreTyped DEF Answered, Requested
<1>3. Honest(changed)
  BY <1>1, RequestsAreTyped DEF Honest, IsTrueOf, Requested
<1>4. changed.answer.session <= issued' /\ changed.reply.session <= issued'
  BY <1>1, RequestsAreTyped DEF Requested
<1>5. QED
  BY <1>1, <1>2, <1>3, <1>4, OneHandlerSteps DEF HandlerAt

LEMMA DoorStays ==
  ASSUME HttpInv, UNCHANGED <<stage, live, issued, cookies>>
  PROVE  /\ stage' \in {"setup", "ready"} /\ issued' \in issued .. MaxLogins
         /\ live' \subseteq 1 .. issued' /\ cookies' \in [session : 0 .. issued', setup : BOOLEAN]
         /\ 0 <= issued'
BY HttpAssumption DEF HttpInv, HttpTypeOK

LEMMA FaultsAreBounded ==
  ASSUME HttpInv, HttpFault \/ UNCHANGED apiFaults
  PROVE  apiFaults' \in 0 .. MaxApiFaults
BY HttpAssumption DEF HttpInv, HttpTypeOK, HttpFault

LEMMA SendRequestGoes ==
  ASSUME HttpInv, NEW h \in Handlers, NEW route \in Routes, SendRequest(h, route)
  PROVE  HttpInv'
<1>1. PICK changed : changed = [Idle EXCEPT !.at = "gate", !.route = route, !.wire = "waiting",
                                  !.session = cookies.session, !.setup = cookies.setup]
  OBVIOUS
<1>2. Steps(h, changed) /\ handling[h] = Idle
  BY <1>1 DEF SendRequest
<1>3. cookies.session \in Nat /\ cookies.setup \in BOOLEAN
  BY HttpAssumption DEF HttpInv, HttpTypeOK
<1>4. changed \in Requested /\ Honest(changed)
      /\ changed.answer.session = 0 /\ changed.reply.session = 0
  BY <1>1, <1>3, AnswersAreMade DEF Requested, Honest, Idle
<1>5. QED
  BY <1>2, <1>4, OneHandlerSteps, DoorStays, FaultsAreBounded
     DEF SendRequest, HandlerAt, Idle

LEMMA PassGateGoes ==
  ASSUME HttpInv, NEW h \in Handlers, PassGate(h)
  PROVE  HttpInv'
<1>1. CASE Turned(h) = NoAnswer
  <2>1. PICK changed : changed = [handling[h] EXCEPT !.at = "act"]
    OBVIOUS
  <2>2. Steps(h, changed) /\ handling[h].at = "gate" /\ changed \in Requested
    BY <1>1, <2>1, RequestsAreTyped DEF PassGate, HandlerAt, Requested
  <2>3. Honest(changed) /\ changed.answer = handling[h].answer /\ changed.reply = handling[h].reply
    BY <2>1, <2>2, RequestsAreTyped DEF Honest, IsTrueOf, Requested
  <2>4. QED
    BY <2>2, <2>3, OneHandlerSteps, RequestsAreTyped, DoorStays, FaultsAreBounded
       DEF PassGate, HandlerAt
<1>2. CASE Turned(h) # NoAnswer
  <2>1. Turned(h) \in HttpAnswers /\ Turned(h).kind = "refused" /\ Turned(h).session = 0
    BY <1>2, AnswersAreMade DEF Turned, Unauthorised
  <2>2. QED
    BY <1>2, <2>1, AnsweredGoes, DoorStays, FaultsAreBounded DEF PassGate, HandlerAt
<1>3. QED  BY <1>1, <1>2

LEMMA GateFailsGoes ==
  ASSUME HttpInv, NEW h \in Handlers, GateFails(h)
  PROVE  HttpInv'
BY AnswersAreMade, AnsweredGoes, DoorStays, FaultsAreBounded DEF GateFails, HandlerAt

LEMMA RefusesGoes ==
  ASSUME HttpInv, NEW h \in Handlers, NEW kind \in {"refused", "again"}, Refuses(h, kind)
  PROVE  HttpInv'
BY AnswersAreMade, AnsweredGoes, DoorStays, FaultsAreBounded DEF Refuses, HandlerAt

LEMMA DoorIsNotPlain ==
  {"login", "logout", "password", "bootstrap", "complete"} \cap Plain = {}
BY DEF Plain, DoorRoutes

LEMMA LoginGoes ==
  ASSUME HttpInv, NEW h \in Handlers, Login(h)
  PROVE  HttpInv'
<1>1. PICK answer \in HttpAnswers : Answered(h, answer) /\ answer.session = issued'
  <2>1. issued' \in Nat
    BY HttpAssumption DEF Login, HttpInv, HttpTypeOK
  <2>2. \A kind \in {"done", "again"} :
          /\ SetsAdmin(Says(kind), issued') \in HttpAnswers
          /\ SetsAdmin(Says(kind), issued').session = issued'
    BY <2>1, AnswersAreMade
  <2>3. QED  BY <2>2, AnswersAreMade DEF Login
<1>2. issued' \in issued .. MaxLogins /\ live' \subseteq 1 .. issued' /\ issued' = issued + 1 /\ issued \in Nat
  BY HttpAssumption DEF Login, HttpInv, HttpTypeOK
<1>3. cookies' \in [session : 0 .. issued', setup : BOOLEAN] /\ stage' \in {"setup", "ready"}
  <2>1. cookies \in [session : 0 .. issued, setup : BOOLEAN] /\ cookies' = cookies /\ stage' = stage
        /\ stage \in {"setup", "ready"}
    BY DEF Login, HttpInv, HttpTypeOK
  <2>2. QED  BY <1>2, <2>1
<1>4. apiFaults' \in 0 .. MaxApiFaults
  BY FaultsAreBounded DEF Login
<1>5. handling[h].at \in {"gate", "act"} /\ handling[h].route \notin Plain /\ UNCHANGED tabVars
  BY DoorIsNotPlain DEF Login, HandlerAt
<1>6. QED
  BY <1>1, <1>2, <1>3, <1>4, <1>5, AnsweredGoes

LEMMA DoorGoes ==
  ASSUME HttpInv, NEW h \in Handlers,
         \/ Logout(h) \/ ChangePassword(h) \/ GrantSetup(h) \/ CompleteSetup(h) \/ DoorRefuses(h)
  PROVE  HttpInv'
<1>1. PICK answer \in HttpAnswers :
        /\ Answered(h, answer) /\ answer.session = 0
        /\ handling[h].route \in Plain => answer.kind # "done"
  BY AnswersAreMade, DoorIsNotPlain
     DEF Logout, ChangePassword, GrantSetup, CompleteSetup, DoorRefuses
<1>2. live' \subseteq live /\ UNCHANGED <<issued, cookies, tabVars, apiFaults>>
      /\ stage' \in {stage, "ready"} /\ handling[h].at = "act"
  BY DEF Logout, ChangePassword, GrantSetup, CompleteSetup, DoorRefuses, HandlerAt
<1>3. issued' \in issued .. MaxLogins /\ live' \subseteq 1 .. issued' /\ 0 <= issued'
      /\ cookies' \in [session : 0 .. issued', setup : BOOLEAN] /\ stage' \in {"setup", "ready"}
  BY <1>2, HttpAssumption DEF HttpInv, HttpTypeOK
<1>4. QED
  BY <1>1, <1>2, <1>3, AnsweredGoes, FaultsAreBounded

LEMMA IdleIsTyped ==
  Idle \in Requested /\ Idle.answer.session = 0 /\ Idle.reply.session = 0
BY AnswersAreMade DEF Idle, Requested

LEMMA WiresIsTyped ==
  ASSUME HttpInv, NEW h \in Handlers, NEW reply \in HttpAnswers
  PROVE  /\ Wires(h, reply) \in Requested
         /\ Wires(h, reply).answer = handling[h].answer /\ Wires(h, reply).reply = reply
BY RequestsAreTyped DEF Wires, Requested

LEMMA CommitGoes ==
  ASSUME HttpInv, NEW h \in Handlers, Commit(h)
  PROVE  HttpInv'
<1>1. PICK changed : changed = CASE handling[h].wire = "waiting" ->
                     [Wires(h, handling[h].answer) EXCEPT !.at = "over"]
                [] handling[h].wire = "answered" -> [handling[h] EXCEPT !.at = "over"]
                [] OTHER -> Idle
  OBVIOUS
<1>2. Steps(h, changed) /\ handling[h].at = "write" /\ UNCHANGED tabVars
  BY <1>1 DEF Commit, HandlerAt
<1>3. changed \in Requested /\ changed.answer.session <= issued /\ changed.reply.session <= issued
  <2>1. CASE handling[h].wire = "waiting"
    <3>1. handling[h].answer \in HttpAnswers
      BY RequestsAreTyped DEF Requested
    <3>2. PICK sent \in Requested : sent = Wires(h, handling[h].answer)
      BY <3>1, WiresIsTyped
    <3>3. changed = [sent EXCEPT !.at = "over"]
      BY <1>1, <2>1, <3>2
    <3>4. changed \in Requested /\ changed.answer = sent.answer /\ changed.reply = sent.reply
      BY <3>3 DEF Requested
    <3>5. QED  BY <3>1, <3>2, <3>4, WiresIsTyped, RequestsAreTyped
  <2>2. CASE handling[h].wire = "answered"
    <3>1. changed = [handling[h] EXCEPT !.at = "over"]
      BY <1>1, <2>2
    <3>2. QED  BY <3>1, RequestsAreTyped DEF Requested
  <2>3. CASE handling[h].wire \notin {"waiting", "answered"}
    BY <1>1, <2>3, IdleIsTyped, RequestsAreTyped
  <2>4. QED  BY <2>1, <2>2, <2>3
<1>4. Honest(changed)
  BY <1>1, <1>2, RequestsAreTyped DEF Honest, IsTrueOf, Requested, Wires, Idle
<1>5. QED
  BY <1>2, <1>3, <1>4, OneHandlerSteps, DoorStays, FaultsAreBounded DEF Commit, HandlerAt

LEMMA TimeOutGoes ==
  ASSUME HttpInv, NEW h \in Handlers, TimeOut(h)
  PROVE  HttpInv'
<1>1. PICK changed : changed = Wires(h, Says("again"))
  OBVIOUS
<1>2. Steps(h, changed) /\ handling[h].wire = "waiting" /\ UNCHANGED tabVars
  BY <1>1 DEF TimeOut
<1>3. changed \in Requested /\ changed.answer.session <= issued /\ changed.reply.session <= issued
  <2>1. Says("again") \in HttpAnswers /\ Says("again").session = 0
    BY AnswersAreMade
  <2>2. QED  BY <1>1, <2>1, RequestsAreTyped, WiresIsTyped
<1>4. Honest(changed) /\ changed.at = handling[h].at /\ changed.route = handling[h].route
  BY <1>1, <1>2, RequestsAreTyped, AnswersAreMade DEF Honest, IsTrueOf, Requested, Wires
<1>5. QED
  BY <1>2, <1>3, <1>4, OneHandlerSteps, DoorStays, FaultsAreBounded DEF TimeOut, HandlerAt

(* The browser has its answer, or lost it.                                 *)
LEMMA EndsGoes ==
  ASSUME HttpInv, NEW h \in Handlers, handling[h].wire = "answered", HandlerEnds(h),
         UNCHANGED <<stage, live, issued, tabVars>>,
         cookies' \in [session : 0 .. issued', setup : BOOLEAN],
         HttpFault \/ UNCHANGED apiFaults
  PROVE  HttpInv'
<1>1. PICK changed :
        changed = IF HandlerAt(h, "over") THEN Idle ELSE [handling[h] EXCEPT !.wire = "none"]
  OBVIOUS
<1>2. Steps(h, changed)
  BY <1>1 DEF HandlerEnds
<1>3. changed \in Requested /\ changed.answer.session <= issued /\ changed.reply.session <= issued
  <2>1. CASE HandlerAt(h, "over")
    BY <1>1, <2>1, IdleIsTyped, RequestsAreTyped
  <2>2. CASE ~HandlerAt(h, "over")
    <3>1. changed = [handling[h] EXCEPT !.wire = "none"]
      BY <1>1, <2>2
    <3>2. QED  BY <3>1, RequestsAreTyped DEF Requested
  <2>3. QED  BY <2>1, <2>2
<1>4. Honest(changed)
  BY <1>1, RequestsAreTyped DEF Honest, IsTrueOf, Requested, Idle
<1>5. HandlerAt(h, "tell") => changed.at = "tell" /\ changed.route = handling[h].route
  BY <1>1, RequestsAreTyped DEF HandlerAt, Requested
<1>6. stage' \in {"setup", "ready"} /\ issued' \in issued .. MaxLogins /\ live' \subseteq 1 .. issued'
  BY HttpAssumption DEF HttpInv, HttpTypeOK
<1>7. QED
  BY <1>2, <1>3, <1>4, <1>5, <1>6, OneHandlerSteps, FaultsAreBounded

LEMMA ReceiveGoes ==
  ASSUME HttpInv, NEW h \in Handlers, Receive(h)
  PROVE  HttpInv'
<1>1. cookies' \in [session : 0 .. issued', setup : BOOLEAN]
  <2>1. handling[h].reply.session \in 0 .. issued /\ issued' = issued
    BY RequestsAreTyped DEF Receive
  <2>2. cookies.session \in 0 .. issued /\ cookies.setup \in BOOLEAN
    BY DEF HttpInv, HttpTypeOK
  <2>3. 0 \in 0 .. issued
    BY RequestsAreTyped
  <2>4. QED  BY <2>1, <2>2, <2>3 DEF Receive
<1>2. QED
  BY <1>1, EndsGoes DEF Receive

LEMMA AnswerLostGoes ==
  ASSUME HttpInv, NEW h \in Handlers, AnswerLost(h)
  PROVE  HttpInv'
BY EndsGoes, DoorStays DEF AnswerLost

-----------------------------------------------------------------------------
(* Steps that change what a tab shows, or that tell it.                    *)

(* The parts that a step of a handler's own leaves as they are.            *)
LEMMA RestStays ==
  ASSUME HttpInv, UNCHANGED <<stage, live, issued, cookies>>, HttpFault \/ UNCHANGED apiFaults,
         handling' \in [Handlers -> Requested], HandlersAreHonest',
         streams' \in [Tabs -> [session : 0 .. issued, slot : SUBSET Topics]],
         stale' \in [Tabs -> SUBSET Topics],
         untold' \in [Tabs -> SUBSET Topics],
         later' \in BOOLEAN, ChangesAreTold'
  PROVE  HttpInv'
BY FaultsAreBounded, DoorStays DEF HttpInv, HttpTypeOK

LEMMA TabsAreTyped ==
  ASSUME HttpInv
  PROVE  /\ streams \in [Tabs -> [session : 0 .. issued, slot : SUBSET Topics]]
         /\ stale \in [Tabs -> SUBSET Topics]
         /\ untold \in [Tabs -> SUBSET Topics]
         /\ later \in BOOLEAN /\ handling \in [Handlers -> Requested]
         /\ HandlersAreHonest
BY DEF HttpInv, HttpTypeOK

(* A route of the catalogue that a handler is at work on.                  *)
LEMMA WorkIsGood ==
  ASSUME HttpInv, NEW h \in Handlers, handling[h].route \in Routes
  PROVE  /\ Of(h).topics \subseteq Topics
         /\ Of(h).changes \subseteq TagsOfAll(Of(h).topics)
         /\ Of(h).changes \subseteq Topics
<1>1. Of(h).topics \subseteq Topics /\ Of(h).changes \subseteq TagsOfAll(Of(h).topics)
  BY RoutesOfRequestsAreGood DEF Of, GoodRoute
<1>2. QED  BY <1>1, TagsStay

LEMMA SucceedsGoes ==
  ASSUME HttpInv, NEW h \in Handlers, Succeeds(h)
  PROVE  HttpInv'
<1>1. PICK changed : changed = [handling[h] EXCEPT !.at = "tell", !.did = "all"]
  OBVIOUS
<1>2. Steps(h, changed) /\ handling[h].at = "act" /\ handling[h].route \in Routes
      /\ handling[h].route \in Plain
  BY <1>1 DEF Succeeds, HandlerAt, Plain
<1>3. changed \in Requested /\ changed.answer = handling[h].answer /\ changed.reply = handling[h].reply
      /\ changed.at = "tell" /\ changed.route = handling[h].route
  BY <1>1, RequestsAreTyped DEF Requested
<1>4. Honest(changed)
  BY <1>1, <1>2, RequestsAreTyped DEF Honest, IsTrueOf, Requested
<1>5. /\ handling' \in [Handlers -> Requested] /\ HandlersAreHonest' /\ handling'[h] = changed
      /\ \A k \in Handlers : k # h => handling'[k] = handling[k]
  <2>1. issued' = issued /\ issued \in Nat
    BY RequestsAreTyped DEF Succeeds
  <2>2. QED  BY <1>2, <1>3, <1>4, <2>1, OneHandlerGoes, RequestsAreTyped DEF HttpInv
<1>6. stale' = [t \in Tabs |-> stale[t] \cup Of(h).changes]
  BY DEF Succeeds, Changes
<1>7. stale' \in [Tabs -> SUBSET Topics]
  BY <1>2, <1>6, WorkIsGood, TabsAreTyped
<1>8. ChangesAreTold'
  <2>1. UNCHANGED <<streams, untold, later>>
    BY DEF Succeeds
  <2>2. ASSUME NEW k \in Handlers, HandlerAt(k, "tell") PROVE HandlerAt(k, "tell")' /\ Of(k)' = Of(k)
    BY <1>2, <1>5, <2>2 DEF HandlerAt, Of
  <2>3. HandlerAt(h, "tell")' /\ Of(h)' = Of(h)
    BY <1>3, <1>5 DEF HandlerAt, Of
  <2>4. SUFFICES ASSUME NEW t \in Tabs, streams[t].session # 0, NEW tag \in stale'[t]
        PROVE  \/ tag \in TagsOfAll(streams[t].slot) \cup untold[t]
               \/ \E k \in Handlers : HandlerAt(k, "tell")' /\ tag \in TagsOfAll(Of(k)'.topics)
               \/ later /\ tag = "notifications"
    BY <2>1 DEF ChangesAreTold
  <2>5. CASE tag \in Of(h).changes
    BY <1>2, <2>3, <2>5, WorkIsGood
  <2>6. CASE tag \in stale[t]
    BY <2>2, <2>4, <2>6 DEF HttpInv, ChangesAreTold
  <2>7. QED  BY <1>6, <2>5, <2>6
<1>9. QED
  BY <1>5, <1>7, <1>8, RestStays, TabsAreTyped DEF Succeeds

LEMMA FailsHalfwayGoes ==
  ASSUME HttpInv, NEW h \in Handlers, NEW kind \in {"refused", "again"}, FailsHalfway(h, kind)
  PROVE  HttpInv'
<1>1. PICK changed :
        changed = [handling[h] EXCEPT !.at = "write", !.did = "part", !.answer = Says(kind)]
  OBVIOUS
<1>2. Steps(h, changed) /\ handling[h].at = "act" /\ handling[h].route \in Routes
      /\ (kind = "refused" => handling[h].route \in RefusesPartway)
  BY <1>1 DEF FailsHalfway, HandlerAt, Plain
<1>3. changed \in Requested /\ changed.answer = Says(kind) /\ changed.reply = handling[h].reply
  <2>1. Says(kind) \in HttpAnswers
    BY AnswersAreMade
  <2>2. QED  BY <1>1, <2>1, RequestsAreTyped DEF Requested
<1>4. Honest(changed)
  BY <1>1, <1>2, RequestsAreTyped, AnswersAreMade DEF Honest, IsTrueOf, Requested
<1>5. /\ handling' \in [Handlers -> Requested] /\ HandlersAreHonest' /\ handling'[h] = changed
      /\ \A k \in Handlers : k # h => handling'[k] = handling[k]
  <2>1. issued' = issued /\ issued \in Nat
    BY RequestsAreTyped DEF FailsHalfway
  <2>2. changed.answer.session <= issued /\ changed.reply.session <= issued
    BY <1>3, <2>1, AnswersAreMade, RequestsAreTyped
  <2>3. QED  BY <1>2, <1>3, <1>4, <2>1, <2>2, OneHandlerGoes DEF HttpInv
<1>6. stale' = [t \in Tabs |-> stale[t] \cup Of(h).changes]
      /\ untold' = [t \in Tabs |-> untold[t] \cup Of(h).changes]
  BY DEF FailsHalfway, Changes
<1>7. stale' \in [Tabs -> SUBSET Topics] /\ untold' \in [Tabs -> SUBSET Topics]
  BY <1>2, <1>6, WorkIsGood, TabsAreTyped
<1>8. ChangesAreTold'
  <2>1. UNCHANGED <<streams, later>>
    BY DEF FailsHalfway
  <2>2. ASSUME NEW k \in Handlers, HandlerAt(k, "tell") PROVE HandlerAt(k, "tell")' /\ Of(k)' = Of(k)
    BY <1>2, <1>5, <2>2 DEF HandlerAt, Of
  <2>3. SUFFICES ASSUME NEW t \in Tabs, streams[t].session # 0, NEW tag \in stale'[t]
        PROVE  \/ tag \in TagsOfAll(streams[t].slot) \cup untold'[t]
               \/ \E k \in Handlers : HandlerAt(k, "tell")' /\ tag \in TagsOfAll(Of(k)'.topics)
               \/ later /\ tag = "notifications"
    BY <2>1 DEF ChangesAreTold
  <2>4. CASE tag \in Of(h).changes
    BY <1>6, <2>4
  <2>5. CASE tag \in stale[t]
    BY <1>6, <2>2, <2>3, <2>5 DEF HttpInv, ChangesAreTold
  <2>6. QED  BY <1>6, <2>4, <2>5
<1>9. QED
  BY <1>5, <1>7, <1>8, RestStays, TabsAreTyped DEF FailsHalfway

(* What is published is in every slot with a stream, and nothing that was  *)
(* there is lost.                                                          *)
LEMMA PublishTells ==
  ASSUME HttpInv, NEW topics, topics \subseteq Topics, Publish(topics)
  PROVE  /\ streams' \in [Tabs -> [session : 0 .. issued, slot : SUBSET Topics]]
         /\ \A t \in Tabs : streams[t].session # 0 =>
              /\ TagsOfAll(topics) \subseteq TagsOfAll(streams'[t].slot)
              /\ TagsOfAll(streams[t].slot) \subseteq TagsOfAll(streams'[t].slot)
         /\ \A t \in Tabs : streams'[t].session = streams[t].session
<1>1. \A slot \in SUBSET Topics :
        /\ InSlot(slot, topics) \in SUBSET Topics
        /\ topics \subseteq InSlot(slot, topics) /\ slot \subseteq InSlot(slot, topics)
  BY DEF InSlot
<1>2. ASSUME NEW t \in Tabs
      PROVE  /\ streams'[t] \in [session : 0 .. issued, slot : SUBSET Topics]
             /\ streams'[t].session = streams[t].session
             /\ streams[t].session # 0 =>
                  streams'[t].slot = InSlot(streams[t].slot, topics)
  <2>1. PICK session \in 0 .. issued, slot \in SUBSET Topics :
          streams[t] = [session |-> session, slot |-> slot]
    BY TabsAreTyped
  <2>2. CASE session = 0
    BY <2>1, <2>2 DEF Publish
  <2>3. CASE session # 0
    <3>1. streams'[t] = [session |-> session, slot |-> InSlot(slot, topics)]
      BY <2>1, <2>3 DEF Publish
    <3>2. QED  BY <1>1, <2>1, <3>1
  <2>4. QED  BY <2>2, <2>3
<1>3. streams' \in [Tabs -> [session : 0 .. issued, slot : SUBSET Topics]]
  <2>1. DOMAIN streams' = Tabs /\ streams' = [t \in Tabs |-> streams'[t]]
    BY DEF Publish
  <2>2. QED  BY <1>2, <2>1
<1>4. ASSUME NEW t \in Tabs, streams[t].session # 0
      PROVE  /\ TagsOfAll(topics) \subseteq TagsOfAll(streams'[t].slot)
             /\ TagsOfAll(streams[t].slot) \subseteq TagsOfAll(streams'[t].slot)
  <2>1. streams[t].slot \in SUBSET Topics
    BY TabsAreTyped
  <2>2. topics \subseteq streams'[t].slot /\ streams[t].slot \subseteq streams'[t].slot
    BY <1>1, <1>2, <1>4, <2>1
  <2>3. QED  BY <2>2, TagsGrow
<1>5. QED  BY <1>2, <1>3, <1>4

LEMMA TellGoes ==
  ASSUME HttpInv, NEW h \in Handlers, Tell(h)
  PROVE  HttpInv'
<1>1. PICK changed :
        changed = [handling[h] EXCEPT !.at = "write", !.answer = Says("done")]
  OBVIOUS
<1>2. Steps(h, changed) /\ handling[h].at = "tell" /\ Publish(Of(h).topics)
  BY <1>1 DEF Tell, HandlerAt, Answered
<1>3. changed \in Requested /\ changed.answer = Says("done") /\ changed.reply = handling[h].reply
  <2>1. Says("done") \in HttpAnswers
    BY AnswersAreMade
  <2>2. QED  BY <1>1, <2>1, RequestsAreTyped DEF Requested
<1>4. Honest(changed)
  BY <1>1, <1>2, RequestsAreTyped, AnswersAreMade DEF Honest, IsTrueOf, Requested
<1>5. /\ handling' \in [Handlers -> Requested] /\ HandlersAreHonest' /\ handling'[h] = changed
      /\ \A k \in Handlers : k # h => handling'[k] = handling[k]
  <2>1. issued' = issued /\ issued \in Nat
    BY RequestsAreTyped DEF Tell
  <2>2. changed.answer.session <= issued /\ changed.reply.session <= issued
    BY <1>3, <2>1, AnswersAreMade, RequestsAreTyped
  <2>3. QED  BY <1>2, <1>3, <1>4, <2>1, <2>2, OneHandlerGoes DEF HttpInv
<1>6. Of(h).topics \subseteq Topics
  BY <1>2, WorkIsGood, RequestsAreTyped DEF Honest, Plain
<1>7. ChangesAreTold'
  <2>1. UNCHANGED <<stale, untold, later>>
    BY DEF Tell
  <2>2. ASSUME NEW k \in Handlers, HandlerAt(k, "tell"), k # h
        PROVE  HandlerAt(k, "tell")' /\ Of(k)' = Of(k)
    BY <1>5, <2>2 DEF HandlerAt, Of
  <2>3. SUFFICES ASSUME NEW t \in Tabs, streams'[t].session # 0, NEW tag \in stale[t]
        PROVE  \/ tag \in TagsOfAll(streams'[t].slot) \cup untold[t]
               \/ \E k \in Handlers : HandlerAt(k, "tell")' /\ tag \in TagsOfAll(Of(k)'.topics)
               \/ later /\ tag = "notifications"
    BY <2>1 DEF ChangesAreTold
  <2>4. /\ streams[t].session # 0
        /\ TagsOfAll(Of(h).topics) \subseteq TagsOfAll(streams'[t].slot)
        /\ TagsOfAll(streams[t].slot) \subseteq TagsOfAll(streams'[t].slot)
    BY <1>2, <1>6, <2>3, PublishTells
  <2>5. \/ tag \in TagsOfAll(streams[t].slot) \cup untold[t]
        \/ \E k \in Handlers : HandlerAt(k, "tell") /\ tag \in TagsOfAll(Of(k).topics)
        \/ later /\ tag = "notifications"
    BY <2>3, <2>4 DEF HttpInv, ChangesAreTold
  <2>6. QED  BY <2>2, <2>4, <2>5
<1>8. streams' \in [Tabs -> [session : 0 .. issued, slot : SUBSET Topics]]
  BY <1>2, <1>6, PublishTells
<1>9. QED
  BY <1>5, <1>7, <1>8, RestStays, TabsAreTyped DEF Tell

LEMMA NotificationsAreTold ==
  {"notifications"} \subseteq Topics /\ "notifications" \in TagsOfAll({"notifications"})
BY TagsAreTopics DEF Topics, TagsOfAll

LEMMA ChannelGoes ==
  ASSUME HttpInv, ChannelChanges \/ ChannelTold \/ ChannelWithdrawn
  PROVE  HttpInv'
<1>1. UNCHANGED <<stage, live, issued, cookies, handling>>
  BY DEF ChannelChanges, ChannelTold, ChannelWithdrawn
<1>2. HandlersAreHonest' /\ handling' \in [Handlers -> Requested]
  <2>1. \A h \in Handlers : Honest(handling'[h]) /\ HasItsSession(handling[h])'
    BY <1>1, TabsAreTyped DEF HandlersAreHonest, HasItsSession
  <2>2. QED  BY <1>1, <2>1, TabsAreTyped DEF HandlersAreHonest, Honest, IsTrueOf, Plain
<1>3. ASSUME NEW k \in Handlers, HandlerAt(k, "tell") PROVE HandlerAt(k, "tell")' /\ Of(k)' = Of(k)
  BY <1>1, <1>3 DEF HandlerAt, Of
<1>4. ASSUME NEW t \in Tabs, streams[t].session # 0, NEW tag \in stale[t]
      PROVE  \/ tag \in TagsOfAll(streams[t].slot) \cup untold[t]
             \/ \E k \in Handlers : HandlerAt(k, "tell")' /\ tag \in TagsOfAll(Of(k)'.topics)
             \/ later /\ tag = "notifications"
  BY <1>3, <1>4 DEF HttpInv, ChangesAreTold
<1>5. CASE ChannelChanges
  <2>1. stale' = [t \in Tabs |-> stale[t] \cup {"notifications"}] /\ later'
        /\ UNCHANGED <<streams, untold, apiFaults>>
    BY <1>5 DEF ChannelChanges, Changes
  <2>2. stale' \in [Tabs -> SUBSET Topics]
    BY <2>1, TabsAreTyped, NotificationsAreTold
  <2>3. ChangesAreTold'
    BY <1>4, <2>1 DEF ChangesAreTold
  <2>4. later' \in BOOLEAN
    BY <1>5 DEF ChannelChanges
  <2>5. QED  BY <1>1, <1>2, <2>1, <2>2, <2>3, <2>4, RestStays, TabsAreTyped
<1>6. CASE ChannelTold
  <2>1. Publish({"notifications"}) /\ later' = FALSE /\ UNCHANGED <<stale, untold, apiFaults>>
    BY <1>6 DEF ChannelTold
  <2>2. /\ streams' \in [Tabs -> [session : 0 .. issued, slot : SUBSET Topics]]
        /\ \A t \in Tabs : streams'[t].session # 0 =>
              /\ streams[t].session # 0
              /\ "notifications" \in TagsOfAll(streams'[t].slot)
              /\ TagsOfAll(streams[t].slot) \subseteq TagsOfAll(streams'[t].slot)
    BY <2>1, PublishTells, NotificationsAreTold
  <2>3. ChangesAreTold'
    BY <1>4, <2>1, <2>2 DEF ChangesAreTold
  <2>4. QED  BY <1>1, <1>2, <2>1, <2>2, <2>3, RestStays, TabsAreTyped
<1>7. CASE ChannelWithdrawn
  <2>1. stale' = [t \in Tabs |-> stale[t] \cup {"notifications"}]
        /\ untold' = [t \in Tabs |-> untold[t] \cup {"notifications"}]
        /\ later' = FALSE /\ UNCHANGED streams /\ HttpFault
    BY <1>7 DEF ChannelWithdrawn, Changes
  <2>2. stale' \in [Tabs -> SUBSET Topics] /\ untold' \in [Tabs -> SUBSET Topics]
    BY <2>1, TabsAreTyped, NotificationsAreTold
  <2>3. ChangesAreTold'
    BY <1>4, <2>1 DEF ChangesAreTold
  <2>4. QED  BY <1>1, <1>2, <2>1, <2>2, <2>3, RestStays, TabsAreTyped
<1>8. QED  BY <1>5, <1>6, <1>7

-----------------------------------------------------------------------------
(* Steps of a tab.                                                         *)

LEMMA TabGoes ==
  ASSUME HttpInv, NEW t \in Tabs, TabStep(t)
  PROVE  HttpInv'
<1>1. UNCHANGED <<stage, live, issued, cookies, handling, later, apiFaults>>
  BY DEF TabStep, OpenStream, TabHears, Heartbeat, StreamCloses
<1>2. HandlersAreHonest' /\ handling' \in [Handlers -> Requested]
  <2>1. \A h \in Handlers : Honest(handling'[h]) /\ HasItsSession(handling[h])'
    BY <1>1, TabsAreTyped DEF HandlersAreHonest, HasItsSession
  <2>2. QED  BY <1>1, <2>1, TabsAreTyped DEF HandlersAreHonest, Honest, IsTrueOf, Plain
<1>3. ASSUME NEW k \in Handlers, HandlerAt(k, "tell") PROVE HandlerAt(k, "tell")' /\ Of(k)' = Of(k)
  BY <1>1, <1>3 DEF HandlerAt, Of
<1>4. ASSUME NEW u \in Tabs, streams[u].session # 0, NEW tag \in stale[u]
      PROVE  \/ tag \in TagsOfAll(streams[u].slot) \cup untold[u]
             \/ \E k \in Handlers : HandlerAt(k, "tell")' /\ tag \in TagsOfAll(Of(k)'.topics)
             \/ later /\ tag = "notifications"
  BY <1>3, <1>4 DEF HttpInv, ChangesAreTold
<1>5. CASE OpenStream(t)
  <2>1. streams' = [streams EXCEPT ![t] = [session |-> cookies.session, slot |-> Topics]]
        /\ UNCHANGED <<stale, untold>>
    BY <1>5 DEF OpenStream
  <2>2. [session |-> cookies.session, slot |-> Topics] \in [session : 0 .. issued, slot : SUBSET Topics]
    BY DEF HttpInv, HttpTypeOK
  <2>3. streams' \in [Tabs -> [session : 0 .. issued, slot : SUBSET Topics]]
    BY <2>1, <2>2, TabsAreTyped
  <2>4. /\ streams'[t].slot = Topics
        /\ \A u \in Tabs : u # t => streams'[u] = streams[u]
    BY <2>1, TabsAreTyped
  <2>5. ChangesAreTold'
    <3>1. Topics \subseteq TagsOfAll(Topics)
      BY TagsOfTheTold
    <3>2. QED  BY <1>1, <1>4, <2>1, <2>4, <3>1, TabsAreTyped DEF ChangesAreTold
  <2>6. QED  BY <1>1, <1>2, <2>1, <2>3, <2>5, RestStays, TabsAreTyped
<1>6. CASE TabHears(t)
  <2>1. PICK fetched : fetched = TagsOfAll(streams[t].slot)
    OBVIOUS
  <2>2. /\ stale' = [stale EXCEPT ![t] = @ \ fetched]
        /\ untold' = [untold EXCEPT ![t] = @ \ fetched]
        /\ streams' = [streams EXCEPT ![t].slot = {}]
    BY <1>6, <2>1 DEF TabHears
  <2>3. /\ streams' \in [Tabs -> [session : 0 .. issued, slot : SUBSET Topics]]
        /\ \A u \in Tabs : streams'[u].session = streams[u].session
        /\ \A u \in Tabs : u # t => streams'[u].slot = streams[u].slot
    BY <2>2, TabsAreTyped
  <2>4. /\ stale' \in [Tabs -> SUBSET Topics] /\ untold' \in [Tabs -> SUBSET Topics]
        /\ stale'[t] = stale[t] \ fetched /\ untold'[t] = untold[t] \ fetched
        /\ \A u \in Tabs : u # t => stale'[u] = stale[u] /\ untold'[u] = untold[u]
    BY <2>2, TabsAreTyped
  <2>5. ChangesAreTold'
    <3>1. SUFFICES ASSUME NEW u \in Tabs, streams'[u].session # 0, NEW tag \in stale'[u]
          PROVE  \/ tag \in TagsOfAll(streams'[u].slot) \cup untold'[u]
                 \/ \E k \in Handlers : HandlerAt(k, "tell")' /\ tag \in TagsOfAll(Of(k)'.topics)
                 \/ later /\ tag = "notifications"
      BY <1>1 DEF ChangesAreTold
    <3>2. streams[u].session # 0 /\ tag \in stale[u]
      BY <2>3, <2>4, <3>1
    <3>3. CASE u = t
      BY <1>4, <2>1, <2>4, <3>1, <3>2, <3>3
    <3>4. CASE u # t
      BY <1>4, <2>3, <2>4, <3>1, <3>2, <3>4
    <3>5. QED  BY <3>3, <3>4
  <2>6. QED  BY <1>1, <1>2, <2>3, <2>4, <2>5, RestStays, TabsAreTyped
<1>7. CASE Heartbeat(t) \/ StreamCloses(t)
  <2>1. streams' = [streams EXCEPT ![t] = NoStream] /\ UNCHANGED <<stale, untold>>
    BY <1>7 DEF Heartbeat, StreamCloses
  <2>2. NoStream \in [session : 0 .. issued, slot : SUBSET Topics] /\ NoStream.session = 0
    BY HttpAssumption DEF HttpInv, HttpTypeOK, NoStream
  <2>3. streams' \in [Tabs -> [session : 0 .. issued, slot : SUBSET Topics]]
    BY <2>1, <2>2, TabsAreTyped
  <2>4. streams'[t].session = 0 /\ \A u \in Tabs : u # t => streams'[u] = streams[u]
    BY <2>1, <2>2, TabsAreTyped
  <2>5. ChangesAreTold'
    BY <1>1, <1>4, <2>1, <2>4 DEF ChangesAreTold
  <2>6. QED  BY <1>1, <1>2, <2>1, <2>3, <2>5, RestStays, TabsAreTyped
<1>8. QED  BY <1>5, <1>6, <1>7 DEF TabStep

-----------------------------------------------------------------------------
LEMMA HttpInvInit == HttpInit => HttpInv
<1> SUFFICES ASSUME HttpInit PROVE HttpInv
  OBVIOUS
<1>1. HttpTypeOK
  <2>1. 0 \in 0 .. MaxLogins /\ 0 \in 0 .. MaxApiFaults /\ 0 \in 0 .. 0
    BY HttpAssumption
  <2>2. QED
    BY <2>1, IdleIsTyped DEF HttpInit, HttpTypeOK, NoStream
<1>2. HandlersAreHonest
  <2>1. Honest(Idle)
    BY DEF Honest, Idle
  <2>2. Idle.answer.session <= 0 /\ Idle.reply.session <= 0
    BY IdleIsTyped
  <2>3. QED  BY <2>1, <2>2 DEF HttpInit, HandlersAreHonest, HasItsSession
<1>3. ChangesAreTold
  BY DEF HttpInit, ChangesAreTold
<1>4. QED  BY <1>1, <1>2, <1>3 DEF HttpInv

LEMMA HttpInvNext == HttpInv /\ [HttpNext]_httpVars => HttpInv'
<1> SUFFICES ASSUME HttpInv, [HttpNext]_httpVars PROVE HttpInv'
  OBVIOUS
<1>1. ASSUME NEW h \in Handlers, HandlerStep(h) PROVE HttpInv'
  BY <1>1, SendRequestGoes, PassGateGoes, GateFailsGoes, SucceedsGoes, TellGoes,
     RefusesGoes, FailsHalfwayGoes, LoginGoes, DoorGoes, CommitGoes, TimeOutGoes,
     ReceiveGoes, AnswerLostGoes DEF HandlerStep
<1>2. ASSUME NEW t \in Tabs, TabStep(t) PROVE HttpInv'
  BY <1>2, TabGoes
<1>3. CASE ChannelChanges \/ ChannelTold \/ ChannelWithdrawn
  BY <1>3, ChannelGoes
<1>4. CASE UNCHANGED httpVars
  BY <1>4 DEF httpVars, HttpInv, HttpTypeOK, HandlersAreHonest, Honest, HasItsSession, IsTrueOf,
     Plain, ChangesAreTold, HandlerAt, Of
<1>5. QED  BY <1>1, <1>2, <1>3, <1>4 DEF HttpNext

LEMMA HttpInvIsSafe == HttpInv => HttpTypeOK /\ HttpIsSafe
BY RequestsAreTyped DEF HttpInv, HttpIsSafe, AnswersAreTrue, HandlersAreHonest, Honest, IsTrueOf,
   HandlerAt

-----------------------------------------------------------------------------
(* Histories in pages.                                                     *)

(* A message has its sequence for an id, and no sequence was given twice.  *)
RowsAreNumbered == \A s \in Stored : texts[s].id = s

Recorded == {id \in CallIds : records[id] # 0}

(* What a reader began with or saw is of the past: it will not come into   *)
(* being again.  A conversation that is gone has moved.                    *)
StartIsPast ==
  /\ walk.scope.of = "messages" => walk.start \cup walk.shown \subseteq 1 .. sequence
  /\ walk.scope.of = "calls" => walk.start \cup walk.shown \subseteq Recorded
  /\ walk.scope.of = "conversations" =>
       /\ walk.at = "going" =>
            (walk.start \cup walk.shown) \ walk.moved \subseteq Shows(Entries(walk.scope))
       /\ walk.at = "ended" => walk.start \subseteq walk.shown \cup walk.moved

(* The cursor lies between what was shown and what is still to come.       *)
CursorDivides ==
  walk.at = "going" =>
    /\ walk.after # NoKey
    /\ \A e \in Entries(walk.scope) :
         /\ e.shows \in walk.start \ (walk.shown \cup walk.moved) => Older(e.key, walk.after)
         /\ e.shows \in walk.shown \ walk.moved => ~Older(e.key, walk.after)

(* The cursor's row is, as long as it is there, the one it was taken from. *)
CursorNamesItsRow ==
  walk.at = "going" /\ walk.scope.of # "calls" =>
    /\ walk.after[1] \in 1 .. sequence
    /\ walk.after[1] \in Stored =>
         walk.after = Key(walk.after[1]) /\ InScope(walk.after[1], walk.scope)

RefusedIsGone ==
  walk.at = "refused" =>
    walk.legacy /\ walk.after # NoKey /\ walk.after[1] \in (1 .. sequence) \ Stored

(* The inductive invariant behind PagesAreTrue.                            *)
PageInv == /\ PageTypeOK /\ RowsAreNumbered /\ StartIsPast /\ CursorDivides
           /\ CursorNamesItsRow /\ RefusedIsGone /\ NoneIsSkipped /\ NoneIsRepeated

-----------------------------------------------------------------------------
(* Keys, entries and scopes.                                               *)

LEMMA OlderIsStrict ==
  \A a, b, c \in Nat \X Nat :
    /\ ~Older(a, a)
    /\ Older(a, b) => ~Older(b, a)
    /\ Older(a, b) /\ Older(b, c) => Older(a, c)
BY DEF Older

LEMMA ScopesAreOfKinds ==
  \A scope \in Scopes : scope.of \in {"messages", "conversations", "calls"}
BY DEF Scopes, Everything

LEMMA ConversationsAreEverything ==
  \A scope \in Scopes : scope.of = "conversations" =>
    scope.remote = AnyRemote /\ scope.line = AnyLine
BY DEF Scopes, Everything

LEMMA RowsAreTyped ==
  ASSUME PageTypeOK, NEW s \in Stored
  PROVE  /\ s \in 1 .. sequence /\ s \in Nat /\ sequence \in Nat
         /\ texts[s].remote \in Remotes /\ texts[s].id \in Nat
BY PageAssumption DEF PageTypeOK, Stored

LEMMA MessageEntries ==
  ASSUME NEW scope, scope.of = "messages"
  PROVE  Entries(scope) = {[key |-> Key(s), shows |-> texts[s].id] : s \in {t \in Stored : InScope(t, scope)}}
BY DEF Entries

LEMMA ConversationEntries ==
  ASSUME NEW scope, scope.of = "conversations"
  PROVE  Entries(scope) = {[key |-> Key(s), shows |-> texts[s].remote] : s \in {t \in Stored : Newest(t)}}
BY DEF Entries

LEMMA CallEntries ==
  ASSUME NEW scope, scope.of = "calls"
  PROVE  Entries(scope) = {[key |-> <<records[id], id>>, shows |-> id] : id \in Recorded}
BY DEF Entries, Recorded

(* The row an entry is of, and that no two entries show the same.          *)
LEMMA EntriesAreRows ==
  ASSUME PageTypeOK, NEW scope \in Scopes, scope.of # "calls", NEW e \in Entries(scope)
  PROVE  \E s \in Stored : e.key = Key(s) /\ InScope(s, scope) /\ e.key \in Nat \X Nat
<1>1. CASE scope.of = "messages"
  <2>1. PICK s \in Stored : InScope(s, scope) /\ e = [key |-> Key(s), shows |-> texts[s].id]
    BY <1>1, MessageEntries
  <2>2. QED  BY <2>1, RowsAreTyped DEF Key
<1>2. CASE scope.of = "conversations"
  <2>1. PICK s \in Stored : e = [key |-> Key(s), shows |-> texts[s].remote]
    BY <1>2, ConversationEntries
  <2>2. InScope(s, scope)
    BY <1>2, ConversationsAreEverything DEF InScope
  <2>3. QED  BY <2>1, <2>2, RowsAreTyped DEF Key
<1>3. QED  BY <1>1, <1>2, ScopesAreOfKinds

LEMMA EntriesAreTyped ==
  ASSUME PageTypeOK, NEW scope \in Scopes, NEW e \in Entries(scope)
  PROVE  e.key \in Nat \X Nat /\ e.shows \in Remotes \cup Nat
<1>1. CASE scope.of = "messages"
  <2>1. PICK s \in Stored : e = [key |-> Key(s), shows |-> texts[s].id]
    BY <1>1, MessageEntries
  <2>2. QED  BY <2>1, RowsAreTyped DEF Key
<1>2. CASE scope.of = "conversations"
  <2>1. PICK s \in Stored : e = [key |-> Key(s), shows |-> texts[s].remote]
    BY <1>2, ConversationEntries
  <2>2. QED  BY <2>1, RowsAreTyped DEF Key
<1>3. CASE scope.of = "calls"
  <2>1. PICK id \in Recorded : e = [key |-> <<records[id], id>>, shows |-> id]
    BY <1>3, CallEntries
  <2>2. id \in Nat /\ records[id] \in Nat
    BY PageAssumption DEF Recorded, PageTypeOK
  <2>3. QED  BY <2>1, <2>2
<1>4. QED  BY <1>1, <1>2, <1>3, ScopesAreOfKinds

LEMMA EntriesDiffer ==
  ASSUME PageTypeOK, RowsAreNumbered, NEW scope \in Scopes,
         NEW e \in Entries(scope), NEW f \in Entries(scope), e.shows = f.shows
  PROVE  e = f
<1>1. CASE scope.of = "messages"
  <2>1. PICK s \in Stored : e = [key |-> Key(s), shows |-> texts[s].id]
    BY <1>1, MessageEntries
  <2>2. PICK t \in Stored : f = [key |-> Key(t), shows |-> texts[t].id]
    BY <1>1, MessageEntries
  <2>3. s = t
    BY <2>1, <2>2 DEF RowsAreNumbered
  <2>4. QED  BY <2>1, <2>2, <2>3
<1>2. CASE scope.of = "conversations"
  <2>1. PICK s \in Stored : Newest(s) /\ e = [key |-> Key(s), shows |-> texts[s].remote]
    BY <1>2, ConversationEntries
  <2>2. PICK t \in Stored : Newest(t) /\ f = [key |-> Key(t), shows |-> texts[t].remote]
    BY <1>2, ConversationEntries
  <2>3. s <= t /\ t <= s
    BY <2>1, <2>2 DEF Newest
  <2>4. s = t
    BY <2>3, RowsAreTyped
  <2>5. QED  BY <2>1, <2>2, <2>4
<1>3. CASE scope.of = "calls"
  <2>1. PICK id \in Recorded : e = [key |-> <<records[id], id>>, shows |-> id]
    BY <1>3, CallEntries
  <2>2. PICK other \in Recorded : f = [key |-> <<records[other], other>>, shows |-> other]
    BY <1>3, CallEntries
  <2>3. QED  BY <2>1, <2>2
<1>4. QED  BY <1>1, <1>2, <1>3, ScopesAreOfKinds

LEMMA EntriesStay ==
  ASSUME UNCHANGED <<texts, records>>, NEW scope
  PROVE  Entries(scope)' = Entries(scope)
BY DEF Entries, Key, InScope, Stored, Newest

-----------------------------------------------------------------------------
(* A page more is shown.                                                   *)

LEMMA TurnsGoes ==
  ASSUME PageTypeOK, RowsAreNumbered, UNCHANGED <<texts, sequence, records, now>>,
         NEW before \in Walks, NEW legacy \in BOOLEAN, Turns(before, legacy),
         \A e \in Entries(before.scope) :
           /\ e.shows \in before.start \ (before.shown \cup before.moved)
                => e \in Selected(before.scope, before.after)
           /\ e.shows \in before.shown \ before.moved
                => e \notin Selected(before.scope, before.after),
         before.again \subseteq before.moved,
         before.scope.of = "messages" => before.start \cup before.shown \subseteq 1 .. sequence,
         before.scope.of = "calls" => before.start \cup before.shown \subseteq Recorded,
         before.scope.of = "conversations" =>
           (before.start \cup before.shown) \ before.moved \subseteq Shows(Entries(before.scope))
  PROVE  PageInv'
<1> DEFINE all == Entries(before.scope)
           left == Selected(before.scope, before.after)
<1>1. PICK page \in Pages(left) : \E after \in Cursors(page, left) :
        walk' = [before EXCEPT !.shown = @ \cup Shows(page),
                   !.again = @ \cup (before.shown \cap Shows(page)) \cup Twice(page),
                   !.at = IF page = left THEN "ended" ELSE "going",
                   !.after = after, !.legacy = legacy /\ page # left]
  BY DEF Turns
<1>2. PICK after \in Cursors(page, left) :
        walk' = [before EXCEPT !.shown = @ \cup Shows(page),
                   !.again = @ \cup (before.shown \cap Shows(page)) \cup Twice(page),
                   !.at = IF page = left THEN "ended" ELSE "going",
                   !.after = after, !.legacy = legacy /\ page # left]
  BY <1>1
<1>3. /\ before.scope \in Scopes /\ before.at \in {"none", "going", "ended", "refused"}
      /\ before.after \in (Nat \X Nat) \cup {NoKey} /\ before.legacy \in BOOLEAN
      /\ before.shown \subseteq Remotes \cup Nat /\ before.again \subseteq Remotes \cup Nat
      /\ before.start \subseteq Remotes \cup Nat /\ before.moved \subseteq Remotes
  BY DEF Walks
<1>4. /\ walk'.scope = before.scope /\ walk'.start = before.start /\ walk'.moved = before.moved
      /\ walk'.after = after /\ walk'.legacy = (legacy /\ page # left)
      /\ walk'.at = IF page = left THEN "ended" ELSE "going"
      /\ walk'.shown = before.shown \cup Shows(page)
      /\ walk'.again = before.again \cup (before.shown \cap Shows(page)) \cup Twice(page)
  BY <1>2 DEF Walks
<1>5. page \subseteq left /\ left \subseteq all
  BY DEF Pages, Selected
<1>6. all' = all
  BY EntriesStay
<1>7. \A e \in all : e.key \in Nat \X Nat /\ e.shows \in Remotes \cup Nat
  BY <1>3, EntriesAreTyped
<1>8. \A e, f \in all : e.shows = f.shows => e = f
  BY <1>3, EntriesDiffer
<1>9. Shows(page) \subseteq Shows(all) /\ Shows(page) \subseteq Remotes \cup Nat
  BY <1>5, <1>7 DEF Shows
<1>10. Twice(page) = {}
  BY <1>5, <1>8 DEF Twice, Shows
<1>11. before.shown \cap Shows(page) \subseteq before.moved
  <2> SUFFICES ASSUME NEW e \in page, e.shows \in before.shown
               PROVE  e.shows \in before.moved
    BY DEF Shows
  <2>1. QED  BY <1>5
<1>12. page # left =>
        \E o \in page : after = o.key /\ \A f \in page : f = o \/ Older(o.key, f.key)
  BY DEF Cursors
<1>13. page = left => after = NoKey
  BY DEF Cursors
<1>14. after \in (Nat \X Nat) \cup {NoKey} /\ (page # left => after \in Nat \X Nat /\ after # NoKey)
  BY <1>5, <1>7, <1>12, <1>13, PageAssumption
<1>15. Stored' = Stored /\ Recorded' = Recorded
  BY DEF Stored, Recorded
<1> HIDE DEF all, left
<1>16. PageTypeOK'
  <2>1. walk' \in Walks
    <3>1. walk'.again = before.again \cup (before.shown \cap Shows(page))
      BY <1>4, <1>10
    <3>2. walk'.again \subseteq Remotes \cup Nat /\ walk'.shown \subseteq Remotes \cup Nat
      BY <3>1, <1>3, <1>4, <1>9
    <3>3. (IF page = left THEN "ended" ELSE "going") \in {"none", "going", "ended", "refused"}
      OBVIOUS
    <3>4. QED  BY <1>2, <1>3, <1>4, <1>14, <3>2, <3>3 DEF Walks
  <2>2. QED  BY <2>1, <1>15 DEF PageTypeOK
<1>17. RowsAreNumbered'
  BY <1>15 DEF RowsAreNumbered
<1>18. walk'.at = "ended" =>
         \A x \in before.start : x \in Shows(all) => x \in walk'.shown \cup walk'.moved
  <2> SUFFICES ASSUME page = left, NEW e \in all, e.shows \in before.start,
                      e.shows \notin before.shown, e.shows \notin before.moved
               PROVE  e.shows \in walk'.shown
    BY <1>4 DEF Shows
  <2>1. e \in left
    BY DEF all, left
  <2>2. QED  BY <2>1, <1>4 DEF Shows
<1>19. StartIsPast'
  <2>1. CASE before.scope.of = "messages"
    <3>1. \A e \in all : e.shows \in 1 .. sequence
      <4> SUFFICES ASSUME NEW e \in all  PROVE  e.shows \in 1 .. sequence
        OBVIOUS
      <4>1. PICK s \in Stored : e = [key |-> Key(s), shows |-> texts[s].id]
        BY <2>1, MessageEntries DEF all
      <4>2. QED  BY <4>1, RowsAreTyped DEF RowsAreNumbered
    <3>2. Shows(page) \subseteq 1 .. sequence
      BY <3>1, <1>5 DEF Shows
    <3>3. walk'.start \cup walk'.shown \subseteq 1 .. sequence'
      BY <2>1, <3>2, <1>4
    <3>4. QED  BY <2>1, <3>3, <1>4 DEF StartIsPast
  <2>2. CASE before.scope.of = "calls"
    <3>1. \A e \in all : e.shows \in Recorded
      BY <2>2, CallEntries DEF all
    <3>2. Shows(page) \subseteq Recorded
      BY <3>1, <1>5 DEF Shows
    <3>3. walk'.start \cup walk'.shown \subseteq Recorded'
      BY <2>2, <3>2, <1>4, <1>15
    <3>4. QED  BY <2>2, <3>3, <1>4 DEF StartIsPast
  <2>3. CASE before.scope.of = "conversations"
    <3>1. (before.start \cup before.shown) \ before.moved \subseteq Shows(all)
      BY <2>3 DEF all
    <3>2. Shows(Entries(walk.scope))' = Shows(all)
      BY <1>4, <1>6 DEF all, Shows
    <3>3. (walk'.start \cup walk'.shown) \ walk'.moved \subseteq Shows(Entries(walk.scope))'
      BY <3>1, <3>2, <1>4, <1>9
    <3>4. walk'.at = "ended" => walk'.start \subseteq walk'.shown \cup walk'.moved
      BY <3>1, <1>4, <1>18
    <3>5. QED  BY <2>3, <3>3, <3>4, <1>4 DEF StartIsPast
  <2>4. QED  BY <2>1, <2>2, <2>3, <1>3, ScopesAreOfKinds
<1>20. CursorDivides'
  <2> SUFFICES ASSUME page # left, NEW e \in all
               PROVE  /\ e.shows \in before.start \ (walk'.shown \cup before.moved) => Older(e.key, after)
                      /\ e.shows \in walk'.shown \ before.moved => ~Older(e.key, after)
    BY <1>4, <1>6, <1>14 DEF CursorDivides, all
  <2>1. PICK o \in page : after = o.key /\ \A f \in page : f = o \/ Older(o.key, f.key)
    BY <1>12
  <2>2. \A a \in left \ page : Older(a.key, o.key)
    BY <2>1 DEF Pages
  <2>3. ASSUME e.shows \in before.start, e.shows \notin walk'.shown, e.shows \notin before.moved
        PROVE  Older(e.key, after)
    <3>1. e \in left /\ e \notin page
      BY <2>3, <1>4 DEF all, left, Shows
    <3>2. QED  BY <3>1, <2>1, <2>2
  <2>4. ASSUME e.shows \in before.shown, e.shows \notin before.moved
        PROVE  ~Older(e.key, after)
    <3>1. e \notin left
      BY <2>4 DEF all, left
    <3>2. before.after # NoKey /\ ~Older(e.key, before.after) /\ Older(o.key, before.after)
      BY <3>1, <1>5 DEF left, all, Selected
    <3>3. before.after \in Nat \X Nat /\ e.key \in Nat \X Nat /\ o.key \in Nat \X Nat
      BY <3>2, <1>3, <1>5, <1>7
    <3>4. QED  BY <3>2, <3>3, <2>1, OlderIsStrict
  <2>5. ASSUME e.shows \in Shows(page)  PROVE ~Older(e.key, after)
    <3>1. PICK f \in page : f.shows = e.shows
      BY <2>5 DEF Shows
    <3>2. f = e /\ e.key \in Nat \X Nat /\ o.key \in Nat \X Nat
      BY <3>1, <1>5, <1>7, <1>8
    <3>3. e = o \/ Older(o.key, e.key)
      BY <3>1, <3>2, <2>1
    <3>4. QED  BY <3>2, <3>3, <2>1, OlderIsStrict
  <2>6. QED  BY <2>3, <2>4, <2>5, <1>4
<1>21. CursorNamesItsRow'
  <2> SUFFICES ASSUME page # left, before.scope.of # "calls"
               PROVE  after[1] \in Stored /\ after[1] \in 1 .. sequence /\ after = Key(after[1])
                      /\ InScope(after[1], before.scope)
    BY <1>4, <1>15 DEF CursorNamesItsRow, Key, InScope
  <2>1. PICK o \in all : after = o.key
    BY <1>5, <1>12
  <2>2. PICK s \in Stored : o.key = Key(s) /\ InScope(s, before.scope)
    BY <1>3, EntriesAreRows DEF all
  <2>3. after[1] = s
    BY <2>1, <2>2 DEF Key
  <2>4. QED  BY <2>1, <2>2, <2>3, RowsAreTyped
<1>22. RefusedIsGone'
  BY <1>4 DEF RefusedIsGone
<1>23. NoneIsSkipped'
  <2>1. Shows(Entries(walk.scope))' = Shows(all)
    BY <1>4, <1>6 DEF all, Shows
  <2>2. QED  BY <2>1, <1>4, <1>18 DEF NoneIsSkipped, StillThere
<1>24. NoneIsRepeated'
  BY <1>4, <1>10, <1>11 DEF NoneIsRepeated
<1>25. QED
  BY <1>16, <1>17, <1>19, <1>20, <1>21, <1>22, <1>23, <1>24 DEF PageInv

-----------------------------------------------------------------------------
(* The reader waits, while others write.                                   *)

(* What a reader has seen is the same, and is still to be of the past.     *)
WalkWaits ==
  /\ walk'.scope = walk.scope /\ walk'.at = walk.at /\ walk'.after = walk.after
  /\ walk'.legacy = walk.legacy /\ walk'.shown = walk.shown
  /\ walk'.again = walk.again /\ walk'.start = walk.start
  /\ walk.moved \subseteq walk'.moved
  /\ walk.at # "going" => walk'.moved = walk.moved

LEMMA WalkStays ==
  ASSUME PageInv, PageTypeOK', RowsAreNumbered', StartIsPast', WalkWaits,
         \A e \in Entries(walk.scope)' :
           \/ e \in Entries(walk.scope)
           \/ e.shows \notin (walk.start \cup walk.shown) \ walk'.moved
           \/ walk.scope.of = "conversations" /\ walk.at # "going",
         sequence <= sequence',
         \A s \in 1 .. sequence : s \in Stored' => s \in Stored /\ texts'[s] = texts[s]
  PROVE  PageInv'
<1> DEFINE all == Entries(walk.scope)
<1>1. PICK those : those = Entries(walk.scope)'
  OBVIOUS
<1>2. all = Entries(walk.scope)
  OBVIOUS
<1>3. \A e \in those :
        \/ e \in all
        \/ e.shows \notin (walk.start \cup walk.shown) \ walk'.moved
        \/ walk.scope.of = "conversations" /\ walk.at # "going"
  BY <1>1
<1>4. sequence \in Nat /\ sequence' \in Nat
  BY PageAssumption DEF PageInv, PageTypeOK
<1> HIDE DEF all
<1>5. CursorDivides'
  <2>0. walk'.at = "going" => walk'.after # NoKey
    BY DEF PageInv, CursorDivides, WalkWaits
  <2> SUFFICES ASSUME walk'.at = "going", NEW e \in those
               PROVE  /\ e.shows \in walk'.start \ (walk'.shown \cup walk'.moved) => Older(e.key, walk'.after)
                      /\ e.shows \in walk'.shown \ walk'.moved => ~Older(e.key, walk'.after)
    BY <1>1, <2>0, Zenon DEF CursorDivides
  <2>1. CASE e \in all
    BY <1>2, <2>1 DEF PageInv, CursorDivides, WalkWaits
  <2>2. CASE e.shows \notin (walk.start \cup walk.shown) \ walk'.moved
    BY <2>2 DEF PageInv, CursorDivides, WalkWaits
  <2>3. QED  BY <1>3, <2>1, <2>2 DEF WalkWaits
<1>6. CursorNamesItsRow'
  BY <1>4 DEF PageInv, CursorNamesItsRow, WalkWaits, Key, InScope
<1>7. RefusedIsGone'
  BY <1>4 DEF PageInv, RefusedIsGone, WalkWaits
<1>8. NoneIsSkipped'
  <2> SUFFICES ASSUME walk.at = "ended", NEW e \in those, e.shows \in walk.start
               PROVE  e.shows \in walk.shown \cup walk.moved
    BY <1>1 DEF NoneIsSkipped, StillThere, Shows, WalkWaits
  <2>1. CASE walk.scope.of = "conversations"
    BY <2>1 DEF PageInv, StartIsPast
  <2>2. CASE e \in all
    BY <1>2, <2>2 DEF PageInv, NoneIsSkipped, StillThere, Shows
  <2>3. CASE e.shows \notin (walk.start \cup walk.shown) \ walk'.moved
    BY <2>3 DEF WalkWaits
  <2>4. QED  BY <1>3, <2>1, <2>2, <2>3
<1>9. NoneIsRepeated'
  BY DEF PageInv, NoneIsRepeated, WalkWaits
<1>10. QED  BY <1>5, <1>6, <1>7, <1>8, <1>9 DEF PageInv

LEMMA MovesWaits ==
  ASSUME PageTypeOK, NEW remote \in Remotes, Moves(remote)
  PROVE  /\ WalkWaits /\ walk' \in Walks
         /\ walk'.moved = IF walk.at = "going" /\ walk.scope.of = "conversations"
                            THEN walk.moved \cup {remote} ELSE walk.moved
<1>1. walk \in Walks
  BY DEF PageTypeOK
<1>2. CASE walk.at = "going" /\ walk.scope.of = "conversations"
  <2>1. walk' = [walk EXCEPT !.moved = @ \cup {remote}]
    BY <1>2 DEF Moves
  <2>2. QED  BY <1>1, <1>2, <2>1 DEF WalkWaits, Walks
<1>3. CASE ~(walk.at = "going" /\ walk.scope.of = "conversations")
  <2>1. walk' = walk
    BY <1>3 DEF Moves
  <2>2. QED  BY <1>1, <1>3, <2>1 DEF WalkWaits
<1>4. QED  BY <1>2, <1>3

(* A conversation of which no row comes or goes stays as it is.            *)
LEMMA ConversationStays ==
  ASSUME PageTypeOK, NEW remote, NEW scope, scope.of = "conversations",
         \A s : s \in Stored' /\ texts'[s].remote = remote <=> s \in Stored /\ texts[s].remote = remote,
         \A s \in Stored : texts[s].remote = remote => texts'[s] = texts[s]
  PROVE  {e \in Entries(scope) : e.shows = remote}' = {e \in Entries(scope) : e.shows = remote}
<1>1. \A s \in Stored : texts[s].remote = remote => (Newest(s)' <=> Newest(s)) /\ Key(s)' = Key(s)
  BY DEF Newest, Key
<1>2. PICK those : those = Entries(scope)'
  OBVIOUS
<1>3. those = {[key |-> Key(s), shows |-> texts[s].remote] : s \in {t \in Stored : Newest(t)}}'
  BY <1>2 DEF Entries
<1>4. ASSUME NEW e \in those, e.shows = remote  PROVE  e \in Entries(scope)
  <2>1. PICK s \in Stored' : Newest(s)' /\ e = [key |-> Key(s)', shows |-> texts'[s].remote]
    BY <1>3
  <2>2. s \in Stored /\ Newest(s) /\ e = [key |-> Key(s), shows |-> texts[s].remote]
    BY <1>1, <1>4, <2>1
  <2>3. QED  BY <2>2, ConversationEntries
<1>5. ASSUME NEW e \in Entries(scope), e.shows = remote  PROVE  e \in those
  <2>1. PICK s \in Stored : Newest(s) /\ e = [key |-> Key(s), shows |-> texts[s].remote]
    BY ConversationEntries
  <2>2. s \in Stored' /\ Newest(s)' /\ e = [key |-> Key(s)', shows |-> texts'[s].remote]
    BY <1>1, <1>5, <2>1
  <2>3. QED  BY <2>2, <1>3
<1>6. QED  BY <1>2, <1>4, <1>5

-----------------------------------------------------------------------------
(* The actions.                                                            *)

LEMMA PageInvInit ==
  PageInit => PageInv
<1> SUFFICES ASSUME PageInit  PROVE PageInv
  OBVIOUS
<1>1. /\ walk.scope = Everything("calls") /\ walk.at = "none" /\ walk.after = NoKey
      /\ walk.legacy = FALSE /\ walk.shown = {} /\ walk.again = {} /\ walk.start = {}
      /\ walk.moved = {} /\ walk.scope.of = "calls"
  BY DEF PageInit, NoWalk, Everything
<1>2. Stored = {}
  BY DEF PageInit, Stored
<1>3. NoWalk \in Walks
  BY DEF NoWalk, Walks, Scopes
<1>4. PageTypeOK
  BY <1>2, <1>3, PageAssumption DEF PageInit, PageTypeOK
<1>5. QED
  BY <1>1, <1>2, <1>4 DEF PageInv, RowsAreNumbered, StartIsPast, CursorDivides,
       CursorNamesItsRow, RefusedIsGone, NoneIsSkipped, NoneIsRepeated

LEMMA FirstPageKeepsPageInv ==
  ASSUME PageInv, NEW scope \in Scopes, NEW legacy \in BOOLEAN, FirstPage(scope, legacy)
  PROVE  PageInv'
<1>1. PICK before : before = [NoWalk EXCEPT !.scope = scope, !.start = Shows(Entries(scope))]
  OBVIOUS
<1>2. /\ before.scope = scope /\ before.start = Shows(Entries(scope)) /\ before.after = NoKey
      /\ before.shown = {} /\ before.again = {} /\ before.moved = {}
  BY <1>1 DEF NoWalk
<1>3. PageTypeOK /\ RowsAreNumbered
  BY DEF PageInv
<1>4. Shows(Entries(scope)) \subseteq Remotes \cup Nat
  BY <1>3, EntriesAreTyped DEF Shows
<1>5. before \in Walks
  BY <1>1, <1>4 DEF Walks, NoWalk
<1>6. Turns(before, legacy) /\ UNCHANGED <<texts, sequence, records, now>>
  BY <1>1 DEF FirstPage
<1>7. Selected(scope, NoKey) = Entries(scope)
  BY DEF Selected
<1>8. scope.of = "messages" => Shows(Entries(scope)) \subseteq 1 .. sequence
  <2> SUFFICES ASSUME scope.of = "messages", NEW e \in Entries(scope)
               PROVE  e.shows \in 1 .. sequence
    BY DEF Shows
  <2>1. PICK s \in Stored : e = [key |-> Key(s), shows |-> texts[s].id]
    BY MessageEntries
  <2>2. QED  BY <1>3, <2>1, RowsAreTyped DEF RowsAreNumbered
<1>9. scope.of = "calls" => Shows(Entries(scope)) \subseteq Recorded
  BY CallEntries DEF Shows
<1>10. QED
  BY <1>2, <1>3, <1>5, <1>6, <1>7, <1>8, <1>9, TurnsGoes

LEMMA NextPageKeepsPageInv ==
  ASSUME PageInv, NextPage
  PROVE  PageInv'
<1>1. /\ PageTypeOK /\ RowsAreNumbered /\ walk \in Walks /\ walk.at = "going"
      /\ UNCHANGED <<texts, sequence, records, now>>
  BY DEF PageInv, PageTypeOK, NextPage
<1>2. CASE CursorResolves(walk.scope, walk.after, walk.legacy)
  <2>1. Turns(walk, FALSE)
    BY <1>2 DEF NextPage
  <2>2. walk.scope.of = "conversations" =>
          (walk.start \cup walk.shown) \ walk.moved \subseteq Shows(Entries(walk.scope))
    BY <1>1 DEF PageInv, StartIsPast
  <2>3. /\ walk.scope.of = "messages" => walk.start \cup walk.shown \subseteq 1 .. sequence
        /\ walk.scope.of = "calls" => walk.start \cup walk.shown \subseteq Recorded
    BY DEF PageInv, StartIsPast
  <2>4. walk.again \subseteq walk.moved
    BY DEF PageInv, NoneIsRepeated
  <2>5. ASSUME NEW e \in Entries(walk.scope)
        PROVE  /\ e.shows \in walk.start \ (walk.shown \cup walk.moved)
                    => e \in Selected(walk.scope, walk.after)
               /\ e.shows \in walk.shown \ walk.moved
                    => e \notin Selected(walk.scope, walk.after)
    BY <1>1 DEF PageInv, CursorDivides, Selected
  <2>6. QED  BY <1>1, <2>1, <2>2, <2>3, <2>4, <2>5, TurnsGoes
<1>3. CASE ~CursorResolves(walk.scope, walk.after, walk.legacy)
  <2>1. walk' = [walk EXCEPT !.at = "refused"]
    BY <1>3 DEF NextPage
  <2>2. /\ walk'.at = "refused" /\ walk'.scope = walk.scope /\ walk'.after = walk.after
        /\ walk'.legacy = walk.legacy /\ walk'.shown = walk.shown /\ walk'.again = walk.again
        /\ walk'.start = walk.start /\ walk'.moved = walk.moved /\ walk' \in Walks
    BY <1>1, <2>1 DEF Walks
  <2>3. walk.scope.of # "calls" /\ walk.after # NoKey
    BY <1>3 DEF CursorResolves
  <2>4. /\ walk.after[1] \in 1 .. sequence
        /\ walk.after[1] \in Stored =>
             walk.after = Key(walk.after[1]) /\ InScope(walk.after[1], walk.scope)
    BY <1>1, <2>3 DEF PageInv, CursorNamesItsRow
  <2>5. walk.legacy /\ walk.after[1] \notin Stored
    BY <1>3, <2>4 DEF CursorResolves
  <2>6. Stored' = Stored /\ Recorded' = Recorded
    BY <1>1 DEF Stored, Recorded
  <2>7. RefusedIsGone'
    BY <1>1, <2>2, <2>3, <2>4, <2>5, <2>6 DEF RefusedIsGone
  <2>8. PageTypeOK' /\ RowsAreNumbered'
    BY <1>1, <2>2, <2>6 DEF PageTypeOK, RowsAreNumbered
  <2>9. StartIsPast'
    BY <1>1, <2>2, <2>6 DEF PageInv, StartIsPast
  <2>10. QED
    BY <2>2, <2>7, <2>8, <2>9
       DEF PageInv, CursorDivides, CursorNamesItsRow, NoneIsSkipped, NoneIsRepeated
<1>4. QED  BY <1>2, <1>3

LEMMA StoreMessageKeepsPageInv ==
  ASSUME PageInv, NEW remote \in Remotes, NEW line \in OnLines, StoreMessage(remote, line)
  PROVE  PageInv'
<1>1. PageTypeOK /\ RowsAreNumbered /\ StartIsPast
  BY DEF PageInv
<1> DEFINE new == sequence + 1
<1>2. /\ sequence \in Nat /\ MaxSequence \in Nat /\ sequence < MaxSequence
      /\ sequence' = new /\ records' = records /\ now' = now
      /\ texts' = [texts EXCEPT ![new] = [remote |-> remote, line |-> line, id |-> new]]
  BY <1>1, PageAssumption DEF PageTypeOK, StoreMessage, NextSequence
<1>3. new \in 1 .. MaxSequence /\ Stored \subseteq 1 .. sequence /\ new \notin Stored
  BY <1>1, <1>2 DEF PageTypeOK
<1>4. /\ texts'[new] = [remote |-> remote, line |-> line, id |-> new] /\ texts'[new] # Gone
      /\ \A s \in 1 .. MaxSequence : s # new => texts'[s] = texts[s]
  <2>1. texts'[new] = [remote |-> remote, line |-> line, id |-> new]
    BY <1>1, <1>2, <1>3 DEF PageTypeOK
  <2>2. texts'[new] # Gone
    BY <2>1, <1>2 DEF Gone
  <2>3. QED  BY <2>1, <2>2, <1>1, <1>2 DEF PageTypeOK
<1>5. Stored' = Stored \cup {new}
  BY <1>3, <1>4 DEF Stored
<1> HIDE DEF new
<1>6. /\ WalkWaits /\ walk' \in Walks
      /\ walk'.moved = IF walk.at = "going" /\ walk.scope.of = "conversations"
                         THEN walk.moved \cup {remote} ELSE walk.moved
  BY <1>1, MovesWaits DEF StoreMessage
<1>7. PageTypeOK'
  <2>1. [remote |-> remote, line |-> line, id |-> new]
          \in {Gone} \cup [remote : Remotes, line : OnLines, id : 1 .. MaxSequence]
    BY <1>3
  <2>2. texts' \in [1 .. MaxSequence -> {Gone} \cup
                      [remote : Remotes, line : OnLines, id : 1 .. MaxSequence]]
    BY <1>1, <1>2, <2>1 DEF PageTypeOK
  <2>3. sequence' \in 0 .. MaxSequence /\ Stored' \subseteq 1 .. sequence'
    BY <1>2, <1>3, <1>5 DEF new
  <2>4. QED  BY <1>1, <1>2, <1>6, <2>2, <2>3 DEF PageTypeOK, Gone
<1>8. RowsAreNumbered'
  <2>1. \A s \in Stored : texts'[s].id = s
    BY <1>1, <1>3, <1>4, RowsAreTyped DEF RowsAreNumbered, Stored
  <2>2. QED  BY <1>4, <1>5, <2>1 DEF RowsAreNumbered
<1>9. \A s \in Stored : texts'[s] = texts[s]
  BY <1>3, <1>4 DEF Stored
<1>10. CASE walk.scope.of = "messages"
  <2>1. StartIsPast'
    BY <1>1, <1>2, <1>6, <1>10 DEF StartIsPast, WalkWaits, new
  <2>2. new \notin walk.start \cup walk.shown
    BY <1>1, <1>2, <1>10 DEF StartIsPast, new
  <2>3. PICK those : those = Entries(walk.scope)'
    OBVIOUS
  <2>4. those = {[key |-> Key(s), shows |-> texts[s].id] : s \in {t \in Stored : InScope(t, walk.scope)}}'
    BY <1>6, <1>10, <2>3 DEF Entries, WalkWaits
  <2>5. ASSUME NEW e \in those
        PROVE  e \in Entries(walk.scope) \/ e.shows = new
    <3>1. PICK s \in Stored' : InScope(s, walk.scope)' /\ e = [key |-> Key(s)', shows |-> texts'[s].id]
      BY <2>4
    <3>2. CASE s = new
      BY <1>4, <3>1, <3>2
    <3>3. CASE s \in Stored
      <4>1. texts'[s] = texts[s]
        BY <1>9, <3>3
      <4>2. InScope(s, walk.scope) /\ e = [key |-> Key(s), shows |-> texts[s].id]
        BY <3>1, <4>1, <1>6 DEF InScope, Key, WalkWaits
      <4>3. QED  BY <3>3, <4>2, <1>10, MessageEntries
    <3>4. QED  BY <3>2, <3>3, <1>5
  <2>6. QED
    BY <1>2, <1>3, <1>5, <1>6, <1>7, <1>8, <1>9, <2>1, <2>2, <2>3, <2>5, WalkStays DEF new
<1>11. CASE walk.scope.of = "calls"
  <2>1. StartIsPast'
    BY <1>1, <1>2, <1>6, <1>11 DEF StartIsPast, WalkWaits, Recorded
  <2>2. Entries(walk.scope)' = Entries(walk.scope)
    BY <1>2, <1>6, <1>11 DEF Entries, WalkWaits
  <2>3. QED
    BY <1>2, <1>3, <1>5, <1>6, <1>7, <1>8, <1>9, <2>1, <2>2, WalkStays DEF new
<1>12. CASE walk.scope.of = "conversations"
  <2> PICK scope : scope = walk.scope
    OBVIOUS
  <2>1. PICK those : those = Entries(scope)'
    OBVIOUS
  <2>0. those = Entries(walk.scope)'
    BY <1>6, <2>1 DEF WalkWaits
  <2>2. ASSUME NEW other, other # remote
        PROVE  {e \in those : e.shows = other} = {e \in Entries(scope) : e.shows = other}
    <3>1. \A s : s \in Stored' /\ texts'[s].remote = other <=> s \in Stored /\ texts[s].remote = other
      BY <1>4, <1>5, <1>9, <2>2
    <3>2. {e \in Entries(scope) : e.shows = other}' = {e \in Entries(scope) : e.shows = other}
      BY <1>1, <1>9, <1>12, <3>1, ConversationStays
    <3>3. QED  BY <2>1, <3>2
  <2>3. \A e \in those : e \in Entries(walk.scope) \/ e.shows = remote
    BY <2>2
  <2>4. Shows(Entries(walk.scope))' = Shows(those)
    BY <2>0 DEF Shows
  <2>5. Shows(Entries(walk.scope)) \ {remote} \subseteq Shows(those)
    BY <2>2 DEF Shows
  <2>6. StartIsPast'
    BY <1>1, <1>6, <1>12, <2>4, <2>5 DEF StartIsPast, WalkWaits
  <2>7. QED
    BY <1>2, <1>3, <1>5, <1>6, <1>7, <1>8, <1>9, <1>12, <2>0, <2>3, <2>6, WalkStays DEF new
<1>13. QED
  BY <1>1, <1>10, <1>11, <1>12, ScopesAreOfKinds DEF PageTypeOK, Walks

LEMMA DeleteMessageKeepsPageInv ==
  ASSUME PageInv, NEW gone \in 1 .. sequence, DeleteMessage(gone)
  PROVE  PageInv'
<1>1. PageTypeOK /\ RowsAreNumbered /\ StartIsPast
  BY DEF PageInv
<1>2. /\ gone \in Stored /\ texts' = [texts EXCEPT ![gone] = Gone]
      /\ sequence' = sequence /\ records' = records /\ now' = now
      /\ sequence \in Nat /\ MaxSequence \in Nat
  BY <1>1, PageAssumption DEF PageTypeOK, DeleteMessage
<1>3. /\ gone \in 1 .. MaxSequence /\ texts'[gone] = Gone
      /\ \A s \in 1 .. MaxSequence : s # gone => texts'[s] = texts[s]
  BY <1>1, <1>2 DEF PageTypeOK, Stored
<1>4. Stored' = Stored \ {gone} /\ \A s \in Stored' : texts'[s] = texts[s]
  BY <1>3 DEF Stored
<1>5. texts[gone].remote \in Remotes
  BY <1>1, <1>2, RowsAreTyped
<1>6. /\ WalkWaits /\ walk' \in Walks
      /\ walk.at = "going" /\ walk.scope.of = "conversations" /\ Newest(gone)
           => walk'.moved = walk.moved \cup {texts[gone].remote}
  <2>1. CASE Newest(gone)
    <3>1. Moves(texts[gone].remote)
      BY <2>1 DEF DeleteMessage
    <3>2. QED  BY <1>1, <1>5, <3>1, MovesWaits
  <2>2. CASE ~Newest(gone)
    BY <1>1, <2>2 DEF DeleteMessage, WalkWaits, PageTypeOK
  <2>3. QED  BY <2>1, <2>2
<1>7. PageTypeOK'
  <2>1. texts' \in [1 .. MaxSequence -> {Gone} \cup
                      [remote : Remotes, line : OnLines, id : 1 .. MaxSequence]]
    BY <1>1, <1>2 DEF PageTypeOK
  <2>2. QED  BY <1>1, <1>2, <1>4, <1>6, <2>1 DEF PageTypeOK, Gone
<1>8. RowsAreNumbered'
  BY <1>1, <1>4 DEF RowsAreNumbered
<1>9. sequence <= sequence' /\ \A s \in 1 .. sequence : s \in Stored' => s \in Stored /\ texts'[s] = texts[s]
  BY <1>2, <1>4
<1>10. CASE walk.scope.of = "messages"
  <2>1. StartIsPast'
    BY <1>1, <1>2, <1>6, <1>10 DEF StartIsPast, WalkWaits
  <2>2. PICK those : those = Entries(walk.scope)'
    OBVIOUS
  <2>3. those = {[key |-> Key(s), shows |-> texts[s].id] : s \in {t \in Stored : InScope(t, walk.scope)}}'
    BY <1>6, <1>10, <2>2 DEF Entries, WalkWaits
  <2>4. ASSUME NEW e \in those  PROVE  e \in Entries(walk.scope)
    <3>1. PICK s \in Stored' : InScope(s, walk.scope)' /\ e = [key |-> Key(s)', shows |-> texts'[s].id]
      BY <2>3
    <3>2. s \in Stored /\ texts'[s] = texts[s]
      BY <1>4, <3>1
    <3>3. InScope(s, walk.scope) /\ e = [key |-> Key(s), shows |-> texts[s].id]
      BY <3>1, <3>2, <1>6 DEF InScope, Key, WalkWaits
    <3>4. QED  BY <3>2, <3>3, <1>10, MessageEntries
  <2>5. QED
    BY <1>6, <1>7, <1>8, <1>9, <2>1, <2>2, <2>4, WalkStays
<1>11. CASE walk.scope.of = "calls"
  <2>1. StartIsPast'
    BY <1>1, <1>2, <1>6, <1>11 DEF StartIsPast, WalkWaits, Recorded
  <2>2. Entries(walk.scope)' = Entries(walk.scope)
    BY <1>2, <1>6, <1>11 DEF Entries, WalkWaits
  <2>3. QED
    BY <1>6, <1>7, <1>8, <1>9, <2>1, <2>2, WalkStays
<1>12. CASE walk.scope.of = "conversations"
  <2> PICK scope : scope = walk.scope
    OBVIOUS
  <2>1. PICK those : those = Entries(scope)'
    OBVIOUS
  <2>2. those = Entries(walk.scope)'
    BY <1>6, <2>1 DEF WalkWaits
  <2>3. those = {[key |-> Key(s), shows |-> texts[s].remote] : s \in {t \in Stored : Newest(t)}}'
    BY <1>12, <2>1 DEF Entries
  <2>4. Shows(Entries(walk.scope))' = Shows(those)
    BY <2>2 DEF Shows
  <2>5. CASE Newest(gone)
    <3>1. ASSUME NEW other, other # texts[gone].remote
          PROVE  {e \in those : e.shows = other} = {e \in Entries(scope) : e.shows = other}
      <4>1. \A s : s \in Stored' /\ texts'[s].remote = other <=> s \in Stored /\ texts[s].remote = other
        BY <1>4, <3>1
      <4>2. \A s \in Stored : texts[s].remote = other => texts'[s] = texts[s]
        BY <1>4, <3>1
      <4>3. {e \in Entries(scope) : e.shows = other}' = {e \in Entries(scope) : e.shows = other}
        BY <1>1, <1>12, <4>1, <4>2, ConversationStays
      <4>4. QED  BY <2>1, <4>3
    <3>2. \A e \in those : e \in Entries(walk.scope) \/ e.shows = texts[gone].remote
      BY <3>1
    <3>3. Shows(Entries(walk.scope)) \ {texts[gone].remote} \subseteq Shows(those)
      BY <3>1 DEF Shows
    <3>4. StartIsPast'
      BY <1>1, <1>6, <1>12, <2>4, <2>5, <3>3 DEF StartIsPast, WalkWaits
    <3>5. QED
      BY <1>6, <1>7, <1>8, <1>9, <1>12, <2>2, <2>5, <3>2, <3>4, WalkStays
  <2>6. CASE ~Newest(gone)
    <3>1. PICK last \in Stored : texts[last].remote = texts[gone].remote /\ ~(last <= gone)
      BY <2>6 DEF Newest
    <3>2. last # gone /\ last \in Nat /\ gone \in Nat /\ last \in Stored'
      BY <1>1, <1>2, <1>4, <3>1, RowsAreTyped
    <3>3. ASSUME NEW s \in Stored'
          PROVE  Newest(s)' <=> Newest(s)
      <4>1. s \in Nat /\ s \in Stored /\ texts'[s] = texts[s]
        BY <1>1, <1>4, RowsAreTyped
      <4>2. texts[gone].remote = texts[s].remote /\ last <= s => gone <= s
        BY <3>1, <3>2, <4>1
      <4>3. QED  BY <1>4, <3>1, <3>2, <4>1, <4>2 DEF Newest
    <3>4. ASSUME NEW e \in those  PROVE e \in Entries(walk.scope)
      <4>1. PICK s \in Stored' : Newest(s)' /\ e = [key |-> Key(s)', shows |-> texts'[s].remote]
        BY <2>3
      <4>2. s \in Stored /\ Newest(s) /\ e = [key |-> Key(s), shows |-> texts[s].remote]
        BY <1>4, <3>3, <4>1 DEF Key
      <4>3. QED  BY <4>2, <1>12, ConversationEntries
    <3>5. ASSUME NEW e \in Entries(walk.scope)  PROVE  e.shows \in Shows(those)
      <4>1. PICK s \in Stored : Newest(s) /\ e = [key |-> Key(s), shows |-> texts[s].remote]
        BY <1>12, ConversationEntries
      <4>2. s \in Stored' /\ Newest(s)' /\ e = [key |-> Key(s)', shows |-> texts'[s].remote]
        BY <1>4, <2>6, <3>3, <4>1 DEF Key
      <4>3. e \in those
        BY <2>3, <4>2
      <4>4. QED  BY <4>3 DEF Shows
    <3>6. Shows(Entries(walk.scope)) \subseteq Shows(those)
      BY <3>5 DEF Shows
    <3>7. StartIsPast'
      BY <1>1, <1>6, <1>12, <2>4, <3>6 DEF StartIsPast, WalkWaits
    <3>8. QED
      BY <1>6, <1>7, <1>8, <1>9, <2>2, <3>4, <3>7, WalkStays
  <2>7. QED  BY <2>5, <2>6
<1>13. QED
  BY <1>1, <1>10, <1>11, <1>12, ScopesAreOfKinds DEF PageTypeOK, Walks

LEMMA RecordCallKeepsPageInv ==
  ASSUME PageInv, NEW call \in CallIds, RecordCall(call)
  PROVE  PageInv'
<1>1. /\ PageTypeOK /\ RowsAreNumbered /\ StartIsPast /\ UNCHANGED <<texts, sequence, now, walk>>
      /\ sequence \in Nat
  BY PageAssumption DEF PageInv, PageTypeOK, RecordCall
<1>2. /\ records[call] = 0 /\ records'[call] # 0
      /\ \A id \in CallIds : id # call => records'[id] = records[id]
      /\ records' \in [CallIds -> 0 .. MaxClock]
  BY <1>1, PageAssumption DEF RecordCall, PageTypeOK
<1>3. Recorded \subseteq Recorded' /\ call \notin Recorded
  BY <1>2 DEF Recorded
<1>4. Stored' = Stored /\ WalkWaits
  BY <1>1 DEF Stored, WalkWaits
<1>5. PageTypeOK' /\ RowsAreNumbered'
  BY <1>1, <1>2, <1>4 DEF PageTypeOK, RowsAreNumbered
<1>6. CASE walk.scope.of = "calls"
  <2>1. PICK those : those = Entries(walk.scope)'
    OBVIOUS
  <2>2. those = {[key |-> <<records'[id], id>>, shows |-> id] : id \in Recorded'}
    BY <1>1, <1>6, <2>1 DEF Entries, Recorded
  <2>3. ASSUME NEW e \in those  PROVE  e \in Entries(walk.scope) \/ e.shows \notin Recorded
    <3>1. PICK id \in Recorded' : e = [key |-> <<records'[id], id>>, shows |-> id]
      BY <2>2
    <3>2. CASE id = call
      BY <1>3, <3>1, <3>2
    <3>3. CASE id # call
      <4>1. id \in Recorded /\ records'[id] = records[id]
        BY <1>2, <3>3 DEF Recorded
      <4>2. QED  BY <1>6, <3>1, <4>1, CallEntries
    <3>4. QED  BY <3>2, <3>3
  <2>4. StartIsPast'
    BY <1>1, <1>3, <1>6 DEF StartIsPast
  <2>5. walk.start \cup walk.shown \subseteq Recorded
    BY <1>1, <1>6 DEF StartIsPast
  <2>6. QED
    BY <1>1, <1>4, <1>5, <2>1, <2>3, <2>4, <2>5, WalkStays
<1>7. CASE walk.scope.of # "calls"
  <2>1. Entries(walk.scope)' = Entries(walk.scope)
    BY <1>1, <1>7, ScopesAreOfKinds DEF Entries, Key, InScope, Stored, Newest, PageTypeOK, Walks
  <2>2. StartIsPast'
    BY <1>1, <1>7, <2>1 DEF StartIsPast, Shows
  <2>3. QED
    BY <1>1, <1>4, <1>5, <2>1, <2>2, WalkStays
<1>8. QED  BY <1>6, <1>7

LEMMA ClockKeepsPageInv ==
  ASSUME PageInv, UNCHANGED <<texts, sequence, records, walk>>, now' \in 1 .. MaxClock
  PROVE  PageInv'
<1>1. Stored' = Stored /\ Recorded' = Recorded
  BY DEF Stored, Recorded
<1>2. PageTypeOK'
  BY <1>1 DEF PageInv, PageTypeOK
<1>3. PICK scope : scope = walk.scope
  OBVIOUS
<1>4. Entries(scope)' = Entries(scope)
  BY EntriesStay
<1>5. Entries(walk.scope)' = Entries(walk.scope)
  BY <1>3, <1>4
<1>6. StartIsPast' /\ RowsAreNumbered'
  BY <1>1, <1>5 DEF PageInv, StartIsPast, RowsAreNumbered, Shows
<1>7. WalkWaits /\ sequence <= sequence'
  BY PageAssumption DEF WalkWaits, PageInv, PageTypeOK
<1>8. QED
  BY <1>1, <1>2, <1>5, <1>6, <1>7, WalkStays

LEMMA PageInvNext ==
  PageInv /\ [PageNext]_pageVars => PageInv'
<1> SUFFICES ASSUME PageInv, [PageNext]_pageVars  PROVE PageInv'
  OBVIOUS
<1>1. ASSUME NEW scope \in Scopes, NEW legacy \in BOOLEAN, FirstPage(scope, legacy)
      PROVE  PageInv'
  BY <1>1, FirstPageKeepsPageInv
<1>2. CASE NextPage
  BY <1>2, NextPageKeepsPageInv
<1>3. ASSUME NEW remote \in Remotes, NEW line \in OnLines, StoreMessage(remote, line)
      PROVE  PageInv'
  BY <1>3, StoreMessageKeepsPageInv
<1>4. ASSUME NEW s \in 1 .. sequence, DeleteMessage(s)
      PROVE  PageInv'
  BY <1>4, DeleteMessageKeepsPageInv
<1>5. ASSUME NEW id \in CallIds, RecordCall(id)
      PROVE  PageInv'
  BY <1>5, RecordCallKeepsPageInv
<1>6. ASSUME NEW time \in 1 .. MaxClock, SetClock(time)
      PROVE  PageInv'
  BY <1>6, ClockKeepsPageInv DEF SetClock
<1>7. CASE UNCHANGED pageVars
  BY <1>7, ClockKeepsPageInv DEF pageVars, PageInv, PageTypeOK
<1>8. QED
  BY <1>1, <1>2, <1>3, <1>4, <1>5, <1>6, <1>7 DEF PageNext

LEMMA PageInvIsSafe ==
  PageInv => PageTypeOK /\ PagesAreTrue
<1> SUFFICES ASSUME PageInv  PROVE  PageTypeOK /\ PagesAreTrue
  OBVIOUS
<1>1. CursorsAreGood
  BY DEF CursorsAreGood, PageInv, RefusedIsGone, Key
<1>2. QED  BY <1>1 DEF PageInv, PagesAreTrue

-----------------------------------------------------------------------------
(* What a browser and the providers see stays true, whoever else writes: a *)
(* channel bound is an authorised one; a success was all done, a refusal   *)
(* changed nothing, save a subscription not fetched and Mihomo's start;    *)
(* every change reaches the tabs that read it, save what a failure left    *)
(* halfway and a channel withdrawn; and a history read page by page has    *)
(* everything once, save a conversation whose last message changes.        *)
THEOREM WebHolds == HttpSpec /\ PageSpec /\ NotifySpec => []WebIsSafe
<1>1. HttpSpec => [](HttpTypeOK /\ HttpIsSafe)
  BY HttpInvInit, HttpInvNext, HttpInvIsSafe, PTL DEF HttpSpec
<1>2. PageSpec => [](PageTypeOK /\ PagesAreTrue)
  BY PageInvInit, PageInvNext, PageInvIsSafe, PTL DEF PageSpec
<1>3. NotifySpec => [](BindingIsSafe /\ DeliveriesAreKept)
  BY NotifyInvInit, NotifyInvNext, NotifyInvIsSafe, PTL DEF NotifySpec
<1>4. BindingIsSafe /\ DeliveriesAreKept /\ HttpTypeOK /\ HttpIsSafe /\ PageTypeOK /\ PagesAreTrue
        => WebIsSafe
  BY DEF WebIsSafe
<1>5. QED
  BY <1>1, <1>2, <1>3, <1>4, PTL
=============================================================================
