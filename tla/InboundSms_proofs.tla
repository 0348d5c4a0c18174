-------------------------- MODULE InboundSms_proofs --------------------------
(* Theorems of InboundSms, for every value of its constants: any messages, *)
(* senders and references, and any number of faults, crashes and           *)
(* repetitions.                                                            *)
EXTENDS InboundSms, SequenceTheorems, FunctionTheorems, FiniteSetTheorems, TLAPS

USE DEF networkVars, workerVars, storeVars, passVars, userVars, boundVars

-----------------------------------------------------------------------------
(* The inductive invariant.                                                *)

(* The coordinator works on a listed message, and has rows to announce     *)
(* exactly when it is announcing.                                          *)
PassIsCoherent ==
  /\ phase \in {"store", "create", "ack"} => item \in Deliveries
  /\ phase = "store" => Total(item) # 1
  /\ phase = "create" /\ Total(item) # 1 => spool[item] # None
  /\ phase = "announce" => received # << >>
  /\ phase = "idle" => received = << >>

(* A group contains its founder, and segments of one reference only.       *)
GroupsAgree ==
  /\ \A d \in Deliveries : spool[d] # None => spool[spool[d]] = spool[d]
  /\ \A d, e \in Deliveries :
       spool[d] # None /\ spool[d] = spool[e] => Reference(d) = Reference(e)

(* What is in the database of a message that may be acknowledged.          *)
Kept(d) ==
  IF Total(d) = 1 THEN created[d] > 0
  ELSE /\ spool[d] # None
       /\ Parts(spool[d]) = 1 .. Total(d) => created[spool[d]] > 0

AcknowledgedIsKept == phase = "ack" => Kept(item)

(* Rows, insertions and deletions agree, and only a crash loses the        *)
(* announcement of an inserted row.                                        *)
Places(s, d) == {i \in 1 .. Len(s) : s[i] = d}
Times(s, d)  == Cardinality(Places(s, d))

CountsAgree ==
  \A d \in Deliveries :
    /\ created[d] = deleted[d] + (IF d \in stored THEN 1 ELSE 0)
    /\ announced[d] + Times(received, d) <= created[d]
    /\ crashes = 0 => announced[d] + Times(received, d) = created[d]

(* What a token's boundary covers was on its page.                         *)
TokenCovers ==
  token.message \in Deliveries =>
    \A d \in Deliveries :
      /\ unread[d] # 0 /\ unread[d] <= token.unread
      /\ Sender(d) = Sender(token.message)
      => << d, unread[d] >> \in token.shown

-----------------------------------------------------------------------------
(* Types.                                                                  *)

LEMMA TypesInit == Init => TypeOK /\ PassIsCoherent
BY ConstantsAssumption DEF Init, TypeOK, PassIsCoherent, NoToken

(* A pass that ends leaves the rows it has to announce.                    *)
LEMMA EndOfPass ==
  ASSUME TypeOK, EndPass
  PROVE  /\ phase' \in {"idle", "announce"} /\ todo' = {} /\ item' = None
         /\ received' = received
         /\ phase' = "announce" => received # << >>
         /\ phase' = "idle" => received = << >>
BY DEF EndPass

LEMMA GroupIsTyped ==
  ASSUME TypeOK, NEW d \in Deliveries
  PROVE  GroupFor(d) \in Deliveries
<1>1. OpenGroups(d) # {} => (CHOOSE g \in OpenGroups(d) : TRUE) \in OpenGroups(d)
  OBVIOUS
<1>2. OpenGroups(d) \subseteq Deliveries
  BY DEF OpenGroups
<1>3. spool[d] \in Deliveries \cup {None}
  BY DEF TypeOK
<1>4. QED
  BY <1>1, <1>2, <1>3 DEF GroupFor

LEMMA CountOneMore ==
  ASSUME NEW count \in [Deliveries -> Nat], NEW d \in Deliveries
  PROVE  /\ [count EXCEPT ![d] = @ + 1] \in [Deliveries -> Nat]
         /\ [count EXCEPT ![d] = @ + 1][d] = count[d] + 1
         /\ \A e \in Deliveries \ {d} : [count EXCEPT ![d] = @ + 1][e] = count[e]
OBVIOUS

LEMMA TypesNext == TypeOK /\ PassIsCoherent /\ [Next]_vars => TypeOK' /\ PassIsCoherent'
<1> SUFFICES ASSUME TypeOK, PassIsCoherent, [Next]_vars
             PROVE  TypeOK' /\ PassIsCoherent'
  OBVIOUS
<1>B. None \notin Deliveries /\ MaxRepeats \in Nat /\ MaxFaults \in Nat
  BY ConstantsAssumption
<1>F. Fault => faults' \in 0 .. MaxFaults
  BY <1>B DEF Fault, TypeOK
<1>C. Crash => crashes' \in 0 .. MaxFaults
  BY <1>B DEF Crash, TypeOK
<1>1. ASSUME NEW d \in Deliveries, NetworkDelivers(d) \/ NetworkRepeats(d)
      PROVE  TypeOK' /\ PassIsCoherent'
  <2>1. /\ offered' = offered \cup {d}
        /\ repeats' \in 0 .. MaxRepeats
        /\ UNCHANGED << settled, storeVars, passVars, userVars, announced, boundVars >>
    <3>1. CASE NetworkDelivers(d)
      BY <3>1, <1>B DEF NetworkDelivers, TypeOK
    <3>2. CASE NetworkRepeats(d)
      <4>1. repeats' \in 0 .. MaxRepeats
        BY <3>2, <1>B DEF NetworkRepeats, TypeOK
      <4>2. QED
        BY <3>2, <4>1 DEF NetworkRepeats
    <3>3. QED
      BY <1>1, <3>1, <3>2
  <2>2. pending' \subseteq pending \cup {d} /\ acknowledged' \subseteq acknowledged
    BY <1>1 DEF NetworkDelivers, NetworkRepeats, Receive
  <2>3. QED
    BY <2>1, <2>2 DEF TypeOK, PassIsCoherent
<1>2. ASSUME WorkerRestarts PROVE TypeOK' /\ PassIsCoherent'
  BY <1>2, <1>F DEF WorkerRestarts, TypeOK, PassIsCoherent
<1>3. ASSUME StartPass PROVE TypeOK' /\ PassIsCoherent'
  BY <1>3 DEF StartPass, TypeOK, PassIsCoherent
<1>4. ASSUME NEW d \in Deliveries, ReadNext(d) PROVE TypeOK' /\ PassIsCoherent'
  BY <1>4, EndOfPass DEF ReadNext, TypeOK, PassIsCoherent
<1>5. ASSUME StoreFragment PROVE TypeOK' /\ PassIsCoherent'
  <2>1. item \in Deliveries /\ Total(item) # 1 /\ None \notin Deliveries
    BY <1>5, <1>B DEF StoreFragment, PassIsCoherent
  <2>2. CASE Ambiguous(item)
    BY <1>5, <2>2, EndOfPass DEF StoreFragment, TypeOK, PassIsCoherent
  <2>3. CASE ~Ambiguous(item)
    <3>1. GroupFor(item) \in Deliveries
      BY <2>1, GroupIsTyped
    <3>2. /\ spool' = [spool EXCEPT ![item] = GroupFor(item)]
          /\ phase' \in {"create", "ack"}
      BY <1>5, <2>3 DEF StoreFragment, AfterStore
    <3>3. spool' \in [Deliveries -> Deliveries \cup {None}] /\ spool'[item] # None
      BY <2>1, <3>1, <3>2 DEF TypeOK
    <3>4. QED
      BY <1>5, <2>1, <2>3, <3>2, <3>3 DEF StoreFragment, TypeOK, PassIsCoherent
  <2>4. QED
    BY <2>2, <2>3
<1>6. ASSUME CreateRow PROVE TypeOK' /\ PassIsCoherent'
  <2>1. item \in Deliveries /\ Founder \in Deliveries
    BY <1>6, <1>B DEF CreateRow, PassIsCoherent, Founder, TypeOK
  <2>2. phase' = "ack" /\ item' = item
    BY <1>6 DEF CreateRow
  <2>3. CASE Replayed(Founder)
    BY <1>6, <2>1, <2>3 DEF CreateRow, TypeOK, PassIsCoherent
  <2>4. CASE ~Replayed(Founder)
    <3>1. /\ lastUnread' = lastUnread + 1
          /\ unread' = [unread EXCEPT ![Founder] = lastUnread + 1]
          /\ stored' = stored \cup {Founder}
          /\ created' = [created EXCEPT ![Founder] = @ + 1]
          /\ received' = Append(received, Founder)
          /\ UNCHANGED << todo, item, spool, networkVars, workerVars, userVars,
                          announced, boundVars >>
      BY <1>6, <2>4 DEF CreateRow, NextUnread
    <3> HIDE DEF Founder
    <3>2. lastUnread' \in Nat /\ unread' \in [Deliveries -> 0 .. lastUnread']
      <4>1. lastUnread \in Nat /\ unread \in [Deliveries -> 0 .. lastUnread]
        BY DEF TypeOK
      <4>2. /\ lastUnread' \in Nat /\ lastUnread + 1 \in 0 .. lastUnread'
            /\ \A n \in 0 .. lastUnread : n \in 0 .. lastUnread'
        BY <3>1, <4>1
      <4>3. unread' \in [Deliveries -> 0 .. lastUnread']
        BY <3>1, <4>1, <4>2
      <4>4. QED
        BY <4>2, <4>3
    <3>3. /\ token'.unread \in 0 .. lastUnread'
          /\ token'.message \in Deliveries \cup {None}
          /\ token'.shown \subseteq Deliveries \X (1 .. lastUnread')
      <4>1. lastUnread \in Nat /\ token' = token
        BY <3>1 DEF TypeOK
      <4>2. token.unread \in 0 .. lastUnread' /\ token.message \in Deliveries \cup {None}
        BY <3>1, <4>1 DEF TypeOK
      <4>3. \A n \in 1 .. lastUnread : n \in 1 .. lastUnread'
        BY <3>1, <4>1
      <4>4. token.shown \subseteq Deliveries \X (1 .. lastUnread)
        BY DEF TypeOK
      <4>5. QED
        BY <4>1, <4>2, <4>3, <4>4
    <3>4. created' \in [Deliveries -> Nat] /\ received' \in Seq(Deliveries)
      <4>1. created \in [Deliveries -> Nat] /\ received \in Seq(Deliveries)
        BY DEF TypeOK
      <4>2. created' \in [Deliveries -> Nat]
        BY <2>1, <3>1, <4>1
      <4>3. received' \in Seq(Deliveries)
        BY <2>1, <3>1, <4>1
      <4>4. QED
        BY <4>2, <4>3
    <3>5. PassIsCoherent'
      BY <2>1, <2>2 DEF PassIsCoherent
    <3>6. QED
      BY <2>1, <2>2, <3>1, <3>2, <3>3, <3>4, <3>5 DEF TypeOK
  <2>5. QED
    BY <2>3, <2>4
<1>7. ASSUME EndPass, UNCHANGED << offered, repeats, storeVars, userVars, announced >>,
             settled' \subseteq offered, pending' \subseteq offered,
             acknowledged' \subseteq offered,
             faults' \in 0 .. MaxFaults, crashes' \in 0 .. MaxFaults
      PROVE  TypeOK' /\ PassIsCoherent'
  <2>1. /\ phase' \in {"idle", "announce"} /\ todo' = {} /\ item' = None
        /\ received' = received
    BY <1>7, EndOfPass
  <2>2. PassIsCoherent'
    BY <1>7, <2>1, EndOfPass DEF PassIsCoherent
  <2>3. QED
    BY <1>7, <2>1, <2>2 DEF TypeOK
<1>8. /\ settled \subseteq offered /\ pending \subseteq offered
      /\ acknowledged \subseteq offered
      /\ faults \in 0 .. MaxFaults /\ crashes \in 0 .. MaxFaults
  BY DEF TypeOK
<1>9. ASSUME AckUnknown \/ PassFails \/ PassDone PROVE TypeOK' /\ PassIsCoherent'
  BY <1>7, <1>8, <1>9, <1>F DEF AckUnknown, PassFails, PassDone
<1>10. AckExecuted =>
         /\ settled' \subseteq offered /\ pending' \subseteq offered
         /\ acknowledged' \subseteq offered
         /\ UNCHANGED << offered, repeats >>
  BY <1>8 DEF AckExecuted
<1>11. ASSUME AckSucceeds PROVE TypeOK' /\ PassIsCoherent'
  <2>1. /\ phase' = "read" /\ item' = None
        /\ UNCHANGED << todo, received, storeVars, userVars, announced, boundVars >>
    BY <1>11 DEF AckSucceeds
  <2>2. PassIsCoherent'
    BY <2>1 DEF PassIsCoherent
  <2>3. QED
    BY <1>10, <1>11, <2>1, <2>2 DEF AckSucceeds, TypeOK
<1>12. ASSUME AckAnswerLost \/ AckResponseLost PROVE TypeOK' /\ PassIsCoherent'
  <2>1. AckAnswerLost => TypeOK' /\ PassIsCoherent'
    BY <1>7, <1>8, <1>10, <1>F DEF AckAnswerLost
  <2>2. AckResponseLost => TypeOK' /\ PassIsCoherent'
    BY <1>7, <1>8, <1>F DEF AckResponseLost
  <2>3. QED
    BY <1>12, <2>1, <2>2
<1>13. ASSUME Shorten, phase = "announce"
       PROVE  /\ received' \in Seq(Deliveries) /\ PassIsCoherent'
              /\ phase' \in {"idle", "announce"}
  <2>1. received # << >> /\ received \in Seq(Deliveries)
    BY <1>13 DEF PassIsCoherent, TypeOK
  <2>2. Tail(received) \in Seq(Deliveries) /\ Len(Tail(received)) = Len(received) - 1
    BY <2>1, HeadTailProperties
  <2>3. Len(received) = 1 <=> Tail(received) = << >>
    <3> DEFINE rest == Tail(received)
    <3>1. rest \in Seq(Deliveries) /\ Len(rest) = Len(received) - 1
      BY <2>2
    <3>2. Len(received) \in Nat
      BY <2>1
    <3> HIDE DEF rest
    <3>3. Len(rest) = 0 <=> rest = << >>
      BY <3>1, EmptySeq
    <3>4. QED
      BY <3>1, <3>2, <3>3 DEF rest
  <2>4. QED
    BY <1>13, <2>2, <2>3 DEF Shorten, PassIsCoherent
<1>14. ASSUME Announce PROVE TypeOK' /\ PassIsCoherent'
  <2>1. announced' \in [Deliveries -> Nat]
    <3>1. Head(received) \in Deliveries
      <4>1. received # << >> /\ received \in Seq(Deliveries)
        BY <1>14 DEF Announce, PassIsCoherent, TypeOK
      <4>2. QED
        BY <4>1, HeadTailProperties
    <3>2. PICK d \in Deliveries : announced' = [announced EXCEPT ![d] = @ + 1]
      BY <1>14, <3>1 DEF Announce
    <3>3. announced \in [Deliveries -> Nat]
      BY DEF TypeOK
    <3>4. QED
      BY <3>2, <3>3, CountOneMore
  <2>2. Shorten /\ phase = "announce"
    BY <1>14 DEF Announce
  <2>3. QED
    BY <1>13, <1>14, <2>1, <2>2 DEF Announce, Shorten, TypeOK
<1>15. ASSUME AnnounceFails PROVE TypeOK' /\ PassIsCoherent'
  <2>1. Shorten /\ phase = "announce"
    BY <1>15 DEF AnnounceFails
  <2>2. QED
    BY <1>13, <1>15, <1>C, <2>1 DEF AnnounceFails, Shorten, TypeOK
<1>16. ASSUME DaemonRestarts PROVE TypeOK' /\ PassIsCoherent'
  <2>1. << >> \in Seq(Deliveries)
    BY EmptySeq
  <2>2. QED
    BY <1>16, <1>C, <2>1 DEF DaemonRestarts, TypeOK, PassIsCoherent
<1>17. ASSUME NEW g \in Deliveries, ShowPage(g) PROVE TypeOK' /\ PassIsCoherent'
  <2>1. \A d \in MarkersOf(g) : d \in Deliveries /\ unread[d] \in 1 .. lastUnread
    BY DEF MarkersOf, TypeOK
  <2>2. /\ token'.unread = unread[g] /\ token'.message = g
        /\ token'.shown = {<< d, unread[d] >> : d \in MarkersOf(g)}
    BY <1>17 DEF ShowPage
  <2>3. token'.shown \subseteq Deliveries \X (1 .. lastUnread)
    BY <2>1, <2>2
  <2>4. unread[g] \in 0 .. lastUnread
    BY DEF TypeOK
  <2>5. QED
    BY <1>17, <2>2, <2>3, <2>4 DEF ShowPage, TypeOK, PassIsCoherent
<1>18. ASSUME MarkRead PROVE TypeOK' /\ PassIsCoherent'
  <2>1. unread' \in [Deliveries -> 0 .. lastUnread]
    BY <1>18 DEF MarkRead, TypeOK
  <2>2. PassIsCoherent'
    BY <1>18 DEF MarkRead, PassIsCoherent
  <2>3. QED
    BY <1>18, <2>1, <2>2 DEF MarkRead, TypeOK
<1>19. ASSUME NEW g \in Deliveries, DeleteMessage(g) PROVE TypeOK' /\ PassIsCoherent'
  <2>1. unread' \in [Deliveries -> 0 .. lastUnread] /\ deleted' \in [Deliveries -> Nat]
    <3>1. unread \in [Deliveries -> 0 .. lastUnread] /\ deleted \in [Deliveries -> Nat]
          /\ lastUnread \in Nat
      BY DEF TypeOK
    <3>2. unread' = [unread EXCEPT ![g] = 0] /\ deleted' = [deleted EXCEPT ![g] = @ + 1]
          /\ lastUnread' = lastUnread
      BY <1>19 DEF DeleteMessage
    <3>3. unread' \in [Deliveries -> 0 .. lastUnread]
      BY <3>1, <3>2
    <3>4. QED
      BY <3>1, <3>2, <3>3, CountOneMore
  <2>2. stored' \subseteq Deliveries /\ PassIsCoherent'
    BY <1>19 DEF DeleteMessage, PassIsCoherent, TypeOK
  <2>3. QED
    BY <1>19, <2>1, <2>2 DEF DeleteMessage, TypeOK
<1>20. ASSUME UNCHANGED vars PROVE TypeOK' /\ PassIsCoherent'
  BY <1>20 DEF vars, TypeOK, PassIsCoherent
<1>21. QED
  BY <1>1, <1>2, <1>3, <1>4, <1>5, <1>6, <1>9, <1>11, <1>12, <1>14,
     <1>15, <1>16, <1>17, <1>18, <1>19, <1>20 DEF Next

(* Every variable keeps its type, whatever is delivered, lost or deleted.  *)
THEOREM InboundTypes == Spec => []TypeOK
BY TypesInit, TypesNext, PTL DEF Spec

-----------------------------------------------------------------------------
(* Counting.                                                               *)

LEMMA PlacesAreFinite ==
  ASSUME NEW s \in Seq(Deliveries), NEW d
  PROVE  IsFiniteSet(Places(s, d)) /\ Times(s, d) \in Nat
<1>1. IsFiniteSet(1 .. Len(s))
  BY LenProperties, FS_Interval
<1>2. Places(s, d) \in SUBSET (1 .. Len(s))
  BY DEF Places
<1>3. QED
  BY <1>1, <1>2, FS_Subset, FS_CardinalityType DEF Times

LEMMA NothingInEmpty == ASSUME NEW d PROVE Times(<< >>, d) = 0
<1>1. Places(<< >>, d) = {}
  BY DEF Places
<1>2. QED
  BY <1>1, FS_EmptySet DEF Times

(* A row appended is one more to announce.                                 *)
LEMMA TimesOfAppend ==
  ASSUME NEW s \in Seq(Deliveries), NEW x \in Deliveries, NEW d
  PROVE  Times(Append(s, x), d) = Times(s, d) + (IF x = d THEN 1 ELSE 0)
<1> DEFINE t == Append(s, x)
           n == Len(s)
<1>1. /\ n \in Nat /\ Len(t) = n + 1
      /\ \A i \in 1 .. n : t[i] = s[i]
      /\ t[n + 1] = x
  BY AppendProperties, LenProperties
<1> HIDE DEF t
<1>2. 1 .. Len(t) = (1 .. n) \cup {n + 1}
  BY <1>1
<1>3. Places(t, d) = IF x = d THEN Places(s, d) \cup {n + 1} ELSE Places(s, d)
  BY <1>1, <1>2 DEF Places
<1>4. n + 1 \notin Places(s, d)
  BY <1>1 DEF Places
<1>5. IsFiniteSet(Places(s, d)) /\ Times(s, d) \in Nat
  BY PlacesAreFinite
<1>6. Cardinality(Places(s, d) \cup {n + 1}) = Cardinality(Places(s, d)) + 1
  BY <1>4, <1>5, FS_AddElement
<1>7. Times(t, d) = Times(s, d) + (IF x = d THEN 1 ELSE 0)
  BY <1>3, <1>5, <1>6 DEF Times
<1>8. QED
  BY <1>7 DEF t

(* The first row announced is one less.                                    *)
LEMMA TimesOfTail ==
  ASSUME NEW s \in Seq(Deliveries), s # << >>, NEW d
  PROVE  Times(s, d) = Times(Tail(s), d) + (IF Head(s) = d THEN 1 ELSE 0)
<1> DEFINE t == Tail(s)
           n == Len(t)
           P == Places(t, d)
           Q == {i \in 2 .. n + 1 : s[i] = d}
           shift == [i \in P |-> i + 1]
<1>1. /\ t \in Seq(Deliveries) /\ Len(s) = n + 1
      /\ \A i \in 1 .. n : t[i] = s[i + 1]
      /\ n \in Nat
  <2>1. t \in Seq(Deliveries) /\ n = Len(s) - 1 /\ \A i \in 1 .. n : t[i] = s[i + 1]
    BY HeadTailProperties
  <2>2. n \in Nat /\ Len(s) \in Nat
    BY <2>1, LenProperties
  <2> HIDE DEF t, n
  <2>3. QED
    BY <2>1, <2>2
<1>2. Head(s) = s[1]
  OBVIOUS
<1> HIDE DEF t, n
<1>3. IsFiniteSet(P) /\ Times(t, d) \in Nat
  BY <1>1, PlacesAreFinite
<1>4. shift \in [P -> Q] /\ \A i, j \in P : shift[i] = shift[j] => i = j
  BY <1>1 DEF Places, n
<1>5. \A j \in Q : \E i \in P : shift[i] = j
  <2>1. ASSUME NEW j \in Q PROVE j - 1 \in P /\ shift[j - 1] = j
    <3>1. j \in 2 .. n + 1 /\ s[j] = d /\ j - 1 \in 1 .. n /\ (j - 1) + 1 = j
      BY <1>1
    <3>2. t[j - 1] = d
      BY <1>1, <3>1
    <3>3. j - 1 \in P
      BY <3>1, <3>2 DEF Places, n
    <3>4. QED
      BY <3>1, <3>3
  <2>2. QED
    BY <2>1
<1>6. shift \in Bijection(P, Q)
  BY <1>4, <1>5, Fun_IsBij
<1>7. IsFiniteSet(Q) /\ Cardinality(Q) = Cardinality(P)
  <2> HIDE DEF P, Q, shift
  <2>1. ExistsBijection(P, Q)
    BY <1>6 DEF ExistsBijection
  <2>2. QED
    BY <1>3, <2>1, FS_Bijection
<1>8. Places(s, d) = IF Head(s) = d THEN Q \cup {1} ELSE Q
  BY <1>1, <1>2 DEF Places
<1>9. 1 \notin Q
  BY <1>1
<1>10. Cardinality(Q \cup {1}) = Cardinality(Q) + 1
  BY <1>7, <1>9, FS_AddElement
<1>11. Times(s, d) = Times(t, d) + (IF Head(s) = d THEN 1 ELSE 0)
  BY <1>3, <1>7, <1>8, <1>10 DEF Times
<1>12. QED
  BY <1>11 DEF t

LEMMA CountsInit == Init => CountsAgree
BY NothingInEmpty DEF Init, CountsAgree

LEMMA CountsNext ==
  TypeOK /\ PassIsCoherent /\ CountsAgree /\ [Next]_vars => CountsAgree'
<1> SUFFICES ASSUME TypeOK, PassIsCoherent, CountsAgree, [Next]_vars,
                    NEW d \in Deliveries
             PROVE  /\ created'[d] = deleted'[d] + (IF d \in stored' THEN 1 ELSE 0)
                    /\ announced'[d] + Times(received', d) <= created'[d]
                    /\ crashes' = 0 => announced'[d] + Times(received', d) = created'[d]
  BY DEF CountsAgree
<1> DEFINE Agree == /\ created'[d] = deleted'[d] + (IF d \in stored' THEN 1 ELSE 0)
                    /\ announced'[d] + Times(received', d) <= created'[d]
                    /\ crashes' = 0 => announced'[d] + Times(received', d) = created'[d]
<1>1. /\ created[d] = deleted[d] + (IF d \in stored THEN 1 ELSE 0)
      /\ announced[d] + Times(received, d) <= created[d]
      /\ crashes = 0 => announced[d] + Times(received, d) = created[d]
  BY DEF CountsAgree
<1>2. /\ created \in [Deliveries -> Nat] /\ deleted \in [Deliveries -> Nat]
      /\ announced \in [Deliveries -> Nat] /\ received \in Seq(Deliveries)
      /\ crashes \in 0 .. MaxFaults
  <2> HIDE DEF Agree
  <2> QED
    BY DEF TypeOK
<1>3. Times(received, d) \in Nat /\ Times(<< >>, d) = 0
  BY <1>2, PlacesAreFinite, NothingInEmpty
<1>4. /\ created[d] \in Nat /\ deleted[d] \in Nat /\ announced[d] \in Nat
  BY <1>2
<1>5. ASSUME UNCHANGED << created, deleted, stored, announced, received, crashes >>
      PROVE  Agree
  BY <1>1, <1>5
<1>6. ASSUME CreateRow PROVE Agree
  <2> DEFINE x == Founder
  <2>1. x \in Deliveries
    BY <1>6 DEF CreateRow, PassIsCoherent, Founder, TypeOK
  <2>2. UNCHANGED << deleted, announced, crashes >>
    BY <1>6 DEF CreateRow
  <2>3. CASE x \in stored
    BY <1>5, <1>6, <2>2, <2>3 DEF CreateRow, Replayed
  <2>4. CASE x \notin stored
    <3>1. /\ stored' = stored \cup {x}
          /\ created' = [created EXCEPT ![x] = @ + 1]
          /\ received' = Append(received, x)
      BY <1>6, <2>4 DEF CreateRow, Replayed
    <3> HIDE DEF x
    <3>2. Times(received', d) = Times(received, d) + (IF x = d THEN 1 ELSE 0)
      BY <1>2, <2>1, <3>1, TimesOfAppend
    <3>3. created'[d] = created[d] + (IF x = d THEN 1 ELSE 0)
      BY <1>2, <2>1, <3>1, CountOneMore
    <3>4. QED
      BY <1>1, <1>3, <1>4, <2>2, <2>4, <3>1, <3>2, <3>3
  <2>5. QED
    BY <2>3, <2>4
<1>7. ASSUME NEW g \in Deliveries, DeleteMessage(g) PROVE Agree
  <2>1. /\ g \in stored /\ stored' = stored \ {g}
        /\ deleted' = [deleted EXCEPT ![g] = @ + 1]
        /\ UNCHANGED << created, announced, received, crashes >>
    BY <1>7 DEF DeleteMessage
  <2>2. deleted'[d] = deleted[d] + (IF g = d THEN 1 ELSE 0)
    BY <1>2, <1>7, <2>1, CountOneMore
  <2>3. QED
    BY <1>1, <1>4, <2>1, <2>2
<1>8. ASSUME phase = "announce"
      PROVE  /\ Head(received) \in Deliveries
             /\ Times(received, d) = Times(Tail(received), d)
                                       + (IF Head(received) = d THEN 1 ELSE 0)
             /\ Times(Tail(received), d) \in Nat
  <2>1. received # << >>
    BY <1>8 DEF PassIsCoherent
  <2>2. Head(received) \in Deliveries /\ Tail(received) \in Seq(Deliveries)
    BY <1>2, <2>1, HeadTailProperties
  <2>3. QED
    BY <1>2, <2>1, <2>2, TimesOfTail, PlacesAreFinite
<1>9. ASSUME Announce PROVE Agree
  <2> DEFINE h == Head(received)
             t == Tail(received)
  <2>1. /\ announced' = [announced EXCEPT ![h] = @ + 1] /\ received' = t
        /\ UNCHANGED << created, deleted, stored, crashes >>
    BY <1>9 DEF Announce, Shorten
  <2>2. /\ h \in Deliveries /\ Times(t, d) \in Nat
        /\ Times(received, d) = Times(t, d) + (IF h = d THEN 1 ELSE 0)
    BY <1>8, <1>9 DEF Announce
  <2> HIDE DEF h, t
  <2>3. announced'[d] = announced[d] + (IF h = d THEN 1 ELSE 0)
    BY <1>2, <2>1, <2>2, CountOneMore
  <2>4. QED
    BY <1>1, <1>4, <2>1, <2>2, <2>3
<1>10. ASSUME AnnounceFails PROVE Agree
  <2> DEFINE h == Head(received)
             t == Tail(received)
  <2>1. /\ received' = t /\ crashes' = crashes + 1
        /\ UNCHANGED << created, deleted, stored, announced >>
    BY <1>10 DEF AnnounceFails, Shorten, Crash
  <2>2. /\ Times(t, d) \in Nat
        /\ Times(received, d) = Times(t, d) + (IF h = d THEN 1 ELSE 0)
    BY <1>8, <1>10 DEF AnnounceFails
  <2> HIDE DEF h, t
  <2>3. QED
    BY <1>1, <1>2, <1>4, <2>1, <2>2
<1>11. ASSUME DaemonRestarts PROVE Agree
  <2>1. /\ received' = << >> /\ crashes' = crashes + 1
        /\ UNCHANGED << created, deleted, stored, announced >>
    BY <1>11 DEF DaemonRestarts, Crash
  <2>2. QED
    BY <1>1, <1>2, <1>3, <1>4, <2>1
<1>12. ASSUME \/ StartPass \/ StoreFragment \/ AckUnknown \/ AckSucceeds
              \/ AckAnswerLost \/ AckResponseLost \/ PassFails \/ PassDone
              \/ MarkRead \/ WorkerRestarts \/ UNCHANGED vars
       PROVE  Agree
  BY <1>5, <1>12 DEF StartPass, StoreFragment, AckUnknown, AckSucceeds, AckAnswerLost,
     AckResponseLost, PassFails, PassDone, MarkRead, WorkerRestarts, EndPass, vars
<1>13. ASSUME NEW g \in Deliveries,
              \/ NetworkDelivers(g) \/ NetworkRepeats(g) \/ ReadNext(g) \/ ShowPage(g)
       PROVE  Agree
  BY <1>5, <1>13 DEF NetworkDelivers, NetworkRepeats, ReadNext, ShowPage, EndPass
<1>14. QED
  BY <1>6, <1>7, <1>9, <1>10, <1>11, <1>12, <1>13 DEF Next

(* Every message that came in is announced, also when a later message, an  *)
(* acknowledgement or a timeout ends its pass with an error; only a crash  *)
(* of simplusd or a failing channel loses an announcement (runCycle).      *)
THEOREM ArrivalsAnnounced == Spec => []ArrivalsAreAnnounced
<1>1. TypeOK /\ PassIsCoherent /\ CountsAgree => ArrivalsAreAnnounced
  <2> SUFFICES ASSUME TypeOK, PassIsCoherent, CountsAgree, phase = "idle", crashes = 0
               PROVE  announced = created
    BY DEF ArrivalsAreAnnounced
  <2>1. received = << >>
    BY DEF PassIsCoherent
  <2>2. announced \in [Deliveries -> Nat] /\ created \in [Deliveries -> Nat]
    BY DEF TypeOK
  <2>3. \A d \in Deliveries : announced[d] = created[d]
    BY <2>1, <2>2, NothingInEmpty DEF CountsAgree
  <2>4. QED
    BY <2>2, <2>3
<1>2. QED
  BY <1>1, TypesInit, TypesNext, CountsInit, CountsNext, PTL DEF Spec

(* Repeated deliveries, lost acknowledgements and restarts announce no     *)
(* message twice; it takes a user's DELETE to make one arrive again        *)
(* (CreateInboundSMS).                                                     *)
THEOREM NothingAnnouncedTwice == Spec => []AnnouncedOnce
<1>1. TypeOK /\ CountsAgree => AnnouncedOnce
  <2> SUFFICES ASSUME TypeOK, CountsAgree, NEW d \in Deliveries
               PROVE  announced[d] <= 1 + deleted[d]
    BY DEF AnnouncedOnce
  <2>1. Times(received, d) \in Nat
    BY PlacesAreFinite DEF TypeOK
  <2>2. announced[d] \in Nat /\ deleted[d] \in Nat /\ created[d] \in Nat
    BY DEF TypeOK
  <2>3. QED
    BY <2>1, <2>2 DEF CountsAgree
<1>2. QED
  BY <1>1, TypesInit, TypesNext, CountsInit, CountsNext, PTL DEF Spec

-----------------------------------------------------------------------------
(* What the network may forget.                                            *)

KeptInv == AcknowledgedIsKept /\ GroupsAgree /\ SettledIsKept

LEMMA KeptInit == Init => KeptInv
BY DEF Init, KeptInv, AcknowledgedIsKept, GroupsAgree, SettledIsKept

(* A segment joins a group of its own reference, or founds one.            *)
LEMMA JoinsItsGroup ==
  ASSUME TypeOK, GroupsAgree, NEW d \in Deliveries, spool[d] = None
  PROVE  LET g == GroupFor(d)
         IN  /\ g \in Deliveries
             /\ g = d \/ spool[g] = g
             /\ \A e \in Deliveries : spool[e] = g => Reference(e) = Reference(d)
<1> DEFINE g == GroupFor(d)
<1>1. g \in Deliveries
  BY GroupIsTyped
<1>2. CASE OpenGroups(d) = {}
  <2>1. g = d
    BY <1>2 DEF GroupFor
  <2>2. \A e \in Deliveries : spool[e] # d
    BY ConstantsAssumption DEF GroupsAgree
  <2>3. QED
    BY <1>1, <2>1, <2>2
<1>3. CASE OpenGroups(d) # {}
  <2>1. g \in OpenGroups(d)
    BY <1>3 DEF GroupFor
  <2> HIDE DEF g
  <2>2. Members(g) # {} /\ \A e \in Members(g) : Reference(e) = Reference(d)
    BY <2>1 DEF OpenGroups
  <2>3. PICK e \in Deliveries : spool[e] = g
    BY <2>2 DEF Members
  <2>4. spool[g] = g
    BY <1>1, <2>3, ConstantsAssumption DEF GroupsAgree
  <2>5. QED
    BY <1>1, <2>2, <2>4 DEF Members, g
<1>4. QED
  BY <1>2, <1>3

(* Storing a segment again changes nothing; a new one changes one group    *)
(* and is not acknowledged yet.                                            *)
LEMMA StoringKeeps ==
  ASSUME TypeOK, PassIsCoherent, KeptInv, StoreFragment
  PROVE  KeptInv'
<1>1. item \in Deliveries /\ Total(item) # 1 /\ phase = "store"
  BY DEF StoreFragment, PassIsCoherent
<1>2. UNCHANGED << settled, created >>
  BY DEF StoreFragment
<1>3. CASE Ambiguous(item)
  <2>1. spool' = spool /\ phase' # "ack"
    BY <1>3 DEF StoreFragment, EndPass
  <2>2. QED
    BY <1>2, <2>1 DEF KeptInv, AcknowledgedIsKept, GroupsAgree, SettledIsKept,
       Members, Parts
<1>4. CASE ~Ambiguous(item)
  <2>1. PICK g \in Deliveries : g = GroupFor(item)
    BY <1>1, GroupIsTyped
  <2>2. /\ spool' = [spool EXCEPT ![item] = g]
        /\ phase' = AfterStore(g, item)
        /\ item' = item
    BY <1>4, <2>1 DEF StoreFragment
  <2>3. spool[item] # None => g = spool[item]
    BY <2>1 DEF GroupFor
  <2>4. spool \in [Deliveries -> Deliveries \cup {None}] /\ None \notin Deliveries
    BY ConstantsAssumption DEF TypeOK
  <2>5. spool[item] = None =>
          /\ g = item \/ spool[g] = g
          /\ \A e \in Deliveries : spool[e] = g => Reference(e) = Reference(item)
    BY <1>1, <2>1, JoinsItsGroup DEF KeptInv
  <2>6. /\ spool'[item] = g
        /\ \A e \in Deliveries \ {item} : spool'[e] = spool[e]
    BY <1>1, <2>2, <2>4
  <2>7. GroupsAgree'
    <3>1. CASE spool[item] = None
      <4>1. spool'[g] = g
        BY <2>5, <2>6, <3>1
      <4>2. \A d \in Deliveries : spool'[d] # None => spool'[spool'[d]] = spool'[d]
        BY <2>4, <2>6, <3>1, <4>1 DEF KeptInv, GroupsAgree
      <4>3. \A d, e \in Deliveries :
              spool'[d] # None /\ spool'[d] = spool'[e] => Reference(d) = Reference(e)
        BY <2>5, <2>6, <3>1 DEF KeptInv, GroupsAgree
      <4>4. QED
        BY <4>2, <4>3 DEF GroupsAgree
    <3>2. CASE spool[item] # None
      <4>1. spool' = spool
        BY <2>2, <2>3, <2>4, <3>2
      <4>2. QED
        BY <4>1 DEF KeptInv, GroupsAgree
    <3>3. QED
      BY <3>1, <3>2
  <2>8. AcknowledgedIsKept'
    <3> SUFFICES ASSUME phase' = "ack"
                 PROVE  spool'[item] # None /\ Parts(g)' # 1 .. Total(item)
      BY <1>1, <2>2, <2>6 DEF AcknowledgedIsKept, Kept, Parts
    <3>1. Parts(g) \cup {PartOf[item]} # 1 .. Total(item)
      BY <2>2 DEF AfterStore, Complete
    <3>2. Members(g)' = Members(g) \cup {item}
      BY <1>1, <2>6 DEF Members
    <3>3. Parts(g)' = Parts(g) \cup {PartOf[item]}
      BY <3>2 DEF Parts
    <3>4. QED
      BY <2>4, <2>6, <3>1, <3>3
  <2>9. SettledIsKept'
    <3> SUFFICES ASSUME NEW d \in settled, Total(d) # 1
                 PROVE  /\ spool'[d] # None
                        /\ /\ Parts(spool[d])' = 1 .. Total(d)
                           /\ Members(spool[d])' \subseteq settled
                           => created[spool'[d]] > 0
      BY <1>2 DEF KeptInv, SettledIsKept
    <3>1. CASE spool[item] # None
      <4>1. spool' = spool
        BY <2>2, <2>3, <2>4, <3>1
      <4>2. QED
        BY <4>1 DEF KeptInv, SettledIsKept, Members, Parts
    <3>2. CASE spool[item] = None
      <4>1. d \in Deliveries /\ spool[d] # None
        BY DEF KeptInv, SettledIsKept, TypeOK
      <4>2. d # item /\ spool'[d] = spool[d]
        BY <2>6, <3>2, <4>1
      <4>3. item \notin settled
        BY <1>1, <3>2 DEF KeptInv, SettledIsKept
      <4>4. CASE spool[d] = g
        <5>1. item \in Members(spool[d])'
          BY <1>1, <2>6, <4>2, <4>4 DEF Members
        <5>2. QED
          BY <4>1, <4>2, <4>3, <5>1
      <4>5. CASE spool[d] # g
        <5>1. {e \in Deliveries : spool'[e] = spool[d]}
                = {e \in Deliveries : spool[e] = spool[d]}
          BY <2>6, <3>2, <4>1, <4>5
        <5>2. Members(spool[d])' = Members(spool[d]) /\ Parts(spool[d])' = Parts(spool[d])
          BY <4>2, <5>1 DEF Members, Parts
        <5>3. QED
          BY <4>1, <4>2, <5>2 DEF KeptInv, SettledIsKept
      <4>6. QED
        BY <4>4, <4>5
    <3>3. QED
      BY <3>1, <3>2
  <2>10. QED
    BY <2>7, <2>8, <2>9 DEF KeptInv
<1>5. QED
  BY <1>3, <1>4

(* The network may forget the message that is being acknowledged.          *)
LEMMA SettlingKeeps ==
  ASSUME TypeOK, PassIsCoherent, KeptInv, phase = "ack",
         settled' \in {settled, settled \cup {item}}, phase' # "ack",
         UNCHANGED << spool, created >>
  PROVE  KeptInv'
<1>1. Kept(item) /\ item \in Deliveries
  BY DEF KeptInv, AcknowledgedIsKept, PassIsCoherent
<1>2. GroupsAgree' /\ AcknowledgedIsKept'
  BY DEF KeptInv, GroupsAgree, AcknowledgedIsKept
<1>3. ASSUME NEW d \in settled', Total(d) # 1
      PROVE  /\ spool[d] # None
             /\ Parts(spool[d]) = 1 .. Total(d) /\ Members(spool[d]) \subseteq settled'
                => created[spool[d]] > 0
  <2>1. CASE d = item
    BY <1>1, <1>3, <2>1 DEF Kept
  <2>2. CASE d # item
    <3>1. d \in settled /\ d \in Deliveries
      BY <1>3, <2>2 DEF TypeOK
    <3>2. spool[d] # None
      BY <1>3, <3>1 DEF KeptInv, SettledIsKept
    <3>3. CASE Members(spool[d]) \subseteq settled
      BY <1>3, <3>1, <3>2, <3>3 DEF KeptInv, SettledIsKept
    <3>4. CASE item \in Members(spool[d])
      <4>1. spool[item] = spool[d]
        BY <3>4 DEF Members
      <4>2. Reference(item) = Reference(d)
        BY <1>1, <3>1, <3>2, <4>1 DEF KeptInv, GroupsAgree
      <4>3. Total(item) = Total(d)
        BY <1>1, <3>1, <4>2, ConstantsAssumption DEF Reference, Total
      <4>4. QED
        BY <1>1, <1>3, <3>2, <4>1, <4>3 DEF Kept
    <3>5. QED
      BY <3>2, <3>3, <3>4
  <2>3. QED
    BY <2>1, <2>2
<1>4. ASSUME NEW d \in settled', Total(d) = 1 PROVE created[d] > 0
  BY <1>1, <1>4 DEF Kept, KeptInv, SettledIsKept
<1>5. SettledIsKept'
  BY <1>3, <1>4 DEF SettledIsKept, Parts, Members
<1>6. QED
  BY <1>2, <1>5 DEF KeptInv

LEMMA KeptNext ==
  TypeOK /\ PassIsCoherent /\ CountsAgree /\ KeptInv /\ [Next]_vars => KeptInv'
<1> SUFFICES ASSUME TypeOK, PassIsCoherent, CountsAgree, KeptInv, [Next]_vars
             PROVE  KeptInv'
  OBVIOUS
<1>1. ASSUME UNCHANGED << settled, spool, created >>,
             phase' = "ack" => phase = "ack" /\ item' = item
      PROVE  KeptInv'
  BY <1>1 DEF KeptInv, AcknowledgedIsKept, Kept, GroupsAgree, SettledIsKept, Parts, Members
<1>2. EndPass => phase' # "ack"
  BY DEF EndPass
<1>3. ASSUME CreateRow PROVE KeptInv'
  <2> DEFINE x == Founder
  <2>1. item \in Deliveries /\ x \in Deliveries /\ (Total(item) # 1 => spool[item] # None)
    BY <1>3 DEF CreateRow, PassIsCoherent, Founder, TypeOK
  <2>2. UNCHANGED << settled, spool, item >> /\ phase' = "ack"
    BY <1>3 DEF CreateRow
  <2>3. created \in [Deliveries -> Nat] /\ deleted \in [Deliveries -> Nat]
    BY DEF TypeOK
  <2>4. created'[x] > 0 /\ \A d \in Deliveries : created'[d] >= created[d]
    <3>1. CASE x \in stored
      <4>1. created' = created
        BY <1>3, <3>1 DEF CreateRow, Replayed
      <4>2. created[x] > 0
        BY <2>1, <2>3, <3>1 DEF CountsAgree
      <4>3. QED
        BY <2>3, <4>1, <4>2
    <3>2. CASE x \notin stored
      <4>1. created' = [created EXCEPT ![x] = @ + 1]
        BY <1>3, <3>2 DEF CreateRow, Replayed
      <4> HIDE DEF x
      <4>2. created'[x] = created[x] + 1 /\ \A d \in Deliveries \ {x} : created'[d] = created[d]
        BY <2>1, <2>3, <4>1, CountOneMore
      <4>3. QED
        BY <2>1, <2>3, <4>2
    <3>3. QED
      BY <3>1, <3>2
  <2>5. Kept(item)'
    BY <2>1, <2>2, <2>4 DEF Kept, Founder
  <2>6. GroupsAgree' /\ AcknowledgedIsKept'
    BY <2>2, <2>5 DEF KeptInv, GroupsAgree, AcknowledgedIsKept, Kept, Parts, Members
  <2>7. \A d \in Deliveries : created[d] > 0 => created'[d] > 0
    <3>1. created' \in [Deliveries -> Nat]
      BY TypesNext DEF TypeOK
    <3>2. QED
      BY <2>3, <2>4, <3>1
  <2>8. \A d \in settled : d \in Deliveries /\ spool[d] \in Deliveries \cup {None}
    BY DEF TypeOK
  <2>9. SettledIsKept'
    BY <2>2, <2>7, <2>8 DEF KeptInv, SettledIsKept, Parts, Members
  <2>10. QED
    BY <2>6, <2>9 DEF KeptInv
<1>4. ASSUME StoreFragment PROVE KeptInv'
  BY <1>4, StoringKeeps
<1>5. ASSUME AckSucceeds \/ AckAnswerLost \/ AckResponseLost PROVE KeptInv'
  <2>1. /\ phase = "ack" /\ phase' # "ack"
        /\ settled' \in {settled, settled \cup {item}}
        /\ UNCHANGED << spool, created >>
    BY <1>2, <1>5 DEF AckSucceeds, AckAnswerLost, AckResponseLost, AckExecuted
  <2>2. QED
    BY <2>1, SettlingKeeps
<1>6. ASSUME AckUnknown \/ PassFails \/ PassDone PROVE KeptInv'
  BY <1>1, <1>2, <1>6 DEF AckUnknown, PassFails, PassDone
<1>7. ASSUME NEW d \in Deliveries, ReadNext(d) PROVE KeptInv'
  BY <1>1, <1>2, <1>7 DEF ReadNext
<1>8. ASSUME \/ StartPass \/ Announce \/ AnnounceFails \/ DaemonRestarts
             \/ MarkRead \/ WorkerRestarts \/ UNCHANGED vars
      PROVE  KeptInv'
  BY <1>1, <1>8 DEF StartPass, Announce, AnnounceFails, Shorten, DaemonRestarts, MarkRead,
     WorkerRestarts, vars
<1>9. ASSUME NEW d \in Deliveries,
             \/ NetworkDelivers(d) \/ NetworkRepeats(d) \/ ShowPage(d) \/ DeleteMessage(d)
      PROVE  KeptInv'
  BY <1>1, <1>9 DEF NetworkDelivers, NetworkRepeats, ShowPage, DeleteMessage
<1>10. QED
  BY <1>3, <1>4, <1>5, <1>6, <1>7, <1>8, <1>9 DEF Next

(* The network forgets a message only when simplus has it: what it was     *)
(* told about is in the database, and a long message all of whose segments *)
(* it was told about was put together, whatever crashed or was lost in     *)
(* between (persistAndAcknowledgeInbound, StoreInboundSMSFragment).        *)
THEOREM NothingSettledIsLost == Spec => []SettledIsKept
<1>1. KeptInv => SettledIsKept
  BY DEF KeptInv
<1>2. QED
  BY <1>1, TypesInit, TypesNext, CountsInit, CountsNext, KeptInit, KeptNext, PTL DEF Spec

-----------------------------------------------------------------------------
(* Read tokens.                                                            *)

LEMMA TokenInit == Init => TokenCovers
BY ConstantsAssumption DEF Init, TokenCovers, NoToken

LEMMA TokenNext == TypeOK /\ TokenCovers /\ [Next]_vars => TokenCovers'
<1> SUFFICES ASSUME TypeOK, TokenCovers, [Next]_vars
             PROVE  TokenCovers'
  OBVIOUS
<1>1. lastUnread \in Nat /\ unread \in [Deliveries -> 0 .. lastUnread]
      /\ token.unread \in 0 .. lastUnread
  BY DEF TypeOK
<1>2. ASSUME token' = token,
             \A d \in Deliveries : unread'[d] \in {0, unread[d], lastUnread + 1}
      PROVE  TokenCovers'
  <2> SUFFICES ASSUME token.message \in Deliveries, NEW d \in Deliveries,
                      unread'[d] # 0, unread'[d] <= token.unread,
                      Sender(d) = Sender(token.message)
               PROVE  << d, unread'[d] >> \in token.shown
    BY <1>2 DEF TokenCovers
  <2>1. unread'[d] # lastUnread + 1
    BY <1>1
  <2>2. unread'[d] = unread[d]
    BY <1>2, <2>1
  <2>3. QED
    BY <2>2 DEF TokenCovers
<1>3. ASSUME CreateRow PROVE TokenCovers'
  <2>1. token' = token
        /\ (unread' = unread \/ unread' = [unread EXCEPT ![Founder] = lastUnread + 1])
    BY <1>3 DEF CreateRow, NextUnread
  <2> HIDE DEF Founder
  <2>2. \A d \in Deliveries : unread'[d] \in {unread[d], lastUnread + 1}
    BY <1>1, <2>1
  <2>3. QED
    BY <1>2, <2>1, <2>2
<1>4. ASSUME MarkRead PROVE TokenCovers'
  BY <1>2, <1>4 DEF MarkRead
<1>5. ASSUME NEW g \in Deliveries, DeleteMessage(g) PROVE TokenCovers'
  <2>1. token' = token /\ unread' = [unread EXCEPT ![g] = 0]
    BY <1>5 DEF DeleteMessage
  <2>2. \A d \in Deliveries : unread'[d] \in {0, unread[d]}
    BY <1>1, <2>1
  <2>3. QED
    BY <1>2, <2>1, <2>2
<1>6. ASSUME NEW g \in Deliveries, ShowPage(g) PROVE TokenCovers'
  BY <1>6 DEF ShowPage, TokenCovers, MarkersOf
<1>7. ASSUME \/ StartPass \/ StoreFragment \/ AckUnknown \/ AckSucceeds
             \/ AckAnswerLost \/ AckResponseLost \/ PassFails \/ PassDone
             \/ Announce \/ AnnounceFails \/ WorkerRestarts \/ DaemonRestarts
             \/ UNCHANGED vars
      PROVE  TokenCovers'
  BY <1>2, <1>7 DEF StartPass, StoreFragment, AckUnknown, AckSucceeds, AckAnswerLost,
     AckResponseLost, PassFails, PassDone, Announce, AnnounceFails, WorkerRestarts,
     DaemonRestarts, vars
<1>8. ASSUME NEW g \in Deliveries, NetworkDelivers(g) \/ NetworkRepeats(g) \/ ReadNext(g)
      PROVE  TokenCovers'
  BY <1>2, <1>8 DEF NetworkDelivers, NetworkRepeats, ReadNext
<1>9. QED
  BY <1>3, <1>4, <1>5, <1>6, <1>7, <1>8 DEF Next

(* A marker is cleared by the page that shows it or goes with its row.     *)
LEMMA StepClearsShown ==
  TypeOK /\ TokenCovers /\ [Next]_vars =>
    \A d \in Deliveries :
      unread[d] # 0 /\ unread'[d] = 0 /\ d \in stored' => << d, unread[d] >> \in token.shown
<1> SUFFICES ASSUME TypeOK, TokenCovers, [Next]_vars, NEW d \in Deliveries,
                    unread[d] # 0, unread'[d] = 0, d \in stored'
             PROVE  << d, unread[d] >> \in token.shown
  OBVIOUS
<1>1. lastUnread \in Nat /\ unread \in [Deliveries -> 0 .. lastUnread]
  BY DEF TypeOK
<1>2. CASE MarkRead
  <2>1. token.message \in Deliveries /\ ReadThrough(d)
    BY <1>2 DEF MarkRead, TypeOK
  <2>2. QED
    BY <2>1 DEF ReadThrough, TokenCovers
<1>3. ASSUME NEW g \in Deliveries, DeleteMessage(g) PROVE FALSE
  BY <1>1, <1>3 DEF DeleteMessage
<1>4. ASSUME CreateRow PROVE FALSE
  <2>1. unread' = unread \/ unread' = [unread EXCEPT ![Founder] = lastUnread + 1]
    BY <1>4 DEF CreateRow, NextUnread
  <2> HIDE DEF Founder
  <2>2. unread'[d] \in {unread[d], lastUnread + 1}
    BY <1>1, <2>1
  <2>3. QED
    BY <1>1, <2>2
<1>5. unread' # unread
  OBVIOUS
<1>6. QED
  BY <1>2, <1>3, <1>4, <1>5 DEF Next, StartPass, StoreFragment, AckUnknown, AckSucceeds,
     AckAnswerLost, AckResponseLost, PassFails, PassDone, Announce, AnnounceFails,
     WorkerRestarts, DaemonRestarts, NetworkDelivers, NetworkRepeats, ReadNext, ShowPage,
     vars

(* The markers a read token clears were there when its page was shown: a   *)
(* message that came in later, or came again after a DELETE, stays unread  *)
(* (MarkSMSConversationRead, AUTOINCREMENT).                               *)
THEOREM ReadWhatWasShown == Spec => OnlyShownIsRead
<1>1. TypeOK /\ TokenCovers /\ [Next]_vars =>
        [\A d \in Deliveries :
           unread[d] # 0 /\ unread'[d] = 0 /\ d \in stored' =>
             << d, unread[d] >> \in token.shown]_vars
  BY StepClearsShown
<1>2. QED
  BY <1>1, TypesInit, TypesNext, TokenInit, TokenNext, PTL DEF Spec, OnlyShownIsRead
=============================================================================
