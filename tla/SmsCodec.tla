------------------------------ MODULE SmsCodec ------------------------------
(***************************************************************************)
(* How a text becomes SMS segments and is read again: here, where a        *)
(* segment is what Encode makes of the text, and as a handset sends it,    *)
(* with any header elements before the text.                               *)
(***************************************************************************)
EXTENDS Naturals, Sequences, FiniteSets
LOCAL INSTANCE SequencesExt
LOCAL INSTANCE FiniteSetsExt

CONSTANTS
  GsmSingle, GsmConcat,   \* septets of a text in one segment, of a segment: 160, 153
  Ucs2Single, Ucs2Concat, \* UTF-16 units: 70, 67
  MaxOctets,              \* of user data: 140
  MaxSeptets, MaxUnits,   \* bounds: how long a text is
  MaxForeign              \* bound: letters of a text a handset sends

Concatenation(reference, total, part) ==
  [is |-> IF reference > 255 THEN "concat16" ELSE "concat8",
   reference |-> reference, total |-> total, part |-> part]
Size(element) ==
  CASE element.is = "concat8" -> 3
    [] element.is \in {"concat16", "ports"} -> 4
    [] OTHER -> 1

HeaderOctets(header) ==
  1 + MapThenSumSet(LAMBDA i : 2 + Size(header[i]), DOMAIN header)
HeaderSeptets(octets) == (octets * 8 + 6) \div 7
Padding(octets)       == HeaderSeptets(octets) * 7 - octets * 8
PackedOctets(septets, padding) == (padding + septets * 7 + 7) \div 8

OwnHeader == HeaderOctets(<<Concatenation(0, 2, 1)>>)

(* The limits are what the user data of a segment can hold.                *)
CodecAssumption ==
  /\ PackedOctets(GsmSingle, 0) <= MaxOctets
  /\ OwnHeader + PackedOctets(GsmConcat, Padding(OwnHeader)) <= MaxOctets
  /\ 2 * Ucs2Single <= MaxOctets /\ OwnHeader + 2 * Ucs2Concat <= MaxOctets
  /\ GsmConcat >= 2 /\ Ucs2Concat >= 2

VARIABLES
  draft,  \* a text
  pdus,   \* what was sent of it
  sentBy  \* by whom

codecVars == <<draft, pdus, sentBy>>

-----------------------------------------------------------------------------
(* Three letters: one of the default alphabet whose code is zero, one of   *)
(* the extension table, one outside of both and of the basic plane.        *)

Escape  == 27
Letters == {"at", "bracket", "grin"}
Septets == [letter \in {"at", "bracket"} |->
              IF letter = "at" THEN <<0>> ELSE <<Escape, 60>>]
Utf16   == [letter \in Letters |->
              CASE letter = "at" -> <<64>> [] letter = "bracket" -> <<91>>
                [] OTHER -> <<55357, 56832>>]
High(unit) == unit \in 55296 .. 56319
Low(unit)  == unit \in 56320 .. 57343

Bad == <<"unreadable">>

IsGsm(text)   == Range(text) \subseteq DOMAIN Septets
Tokens(text)  == [i \in DOMAIN text |-> IF IsGsm(text) THEN Septets[text[i]] ELSE Utf16[text[i]]]
UnitsOf(text) == FlattenSeq(Tokens(text))

Bit(number, b) == (number \div 2 ^ b) % 2
Sum(bits) == MapThenSumSet(LAMBDA b : bits[b] * 2 ^ b, DOMAIN bits)

PackSeptets(septets, padding) ==
  LET bitAt(i) == IF i \in padding .. padding + 7 * Len(septets) - 1
                    THEN Bit(septets[(i - padding) \div 7 + 1], (i - padding) % 7)
                    ELSE 0
  IN  [k \in 1 .. PackedOctets(Len(septets), padding) |->
         Sum([b \in 0 .. 7 |-> bitAt(8 * (k - 1) + b)])]

UnpackSeptets(octets, count, padding) ==
  LET bitAt(i) == Bit(octets[i \div 8 + 1], i % 8)
  IN  [j \in 1 .. count |-> Sum([b \in 0 .. 6 |-> bitAt(padding + 7 * (j - 1) + b)])]

PackUnits(units) == FlattenSeq([i \in DOMAIN units |-> <<units[i] \div 256, units[i] % 256>>])
UnpackUnits(octets) ==
  [j \in 1 .. Len(octets) \div 2 |-> 256 * octets[2 * j - 1] + octets[2 * j]]

(* Units are read one after another: `half' is an escape or a high         *)
(* surrogate that waits for what follows it.                               *)
Read(units, Starts(_), Whole(_)) ==
  LET step(done, unit) ==
        IF done.text = Bad THEN done
        ELSE IF done.half = <<>> /\ Starts(unit) THEN [done EXCEPT !.half = <<unit>>]
        ELSE LET letter == Whole(Append(done.half, unit))
             IN  [text |-> IF letter = "none" THEN Bad ELSE Append(done.text, letter),
                  half |-> <<>>]
      end == FoldLeft(step, [text |-> <<>>, half |-> <<>>], units)
  IN  IF end.half = <<>> THEN end.text ELSE Bad

(* An extension code that is not known is shown as a space.                *)
GsmLetter(septets) ==
  IF \E letter \in DOMAIN Septets : Septets[letter] = septets
    THEN CHOOSE letter \in DOMAIN Septets : Septets[letter] = septets
    ELSE IF Len(septets) = 2 THEN "space" ELSE "other"
Ucs2Letter(units) ==
  IF \E letter \in Letters : Utf16[letter] = units
    THEN CHOOSE letter \in Letters : Utf16[letter] = units
    ELSE IF (Len(units) = 2 /\ ~Low(units[2])) \/ (Len(units) = 1 /\ Low(units[1]))
      THEN "none" ELSE "other"

ReadSeptets(septets) == Read(septets, LAMBDA unit : unit = Escape, GsmLetter)
ReadUnits(units)     == Read(units, High, Ucs2Letter)

-----------------------------------------------------------------------------
(* A segment, and reading it.                                              *)

Concatenations(header) ==
  {i \in DOMAIN header : header[i].is \in {"concat8", "concat16"}}

(* The octets of a header count, never what they say.                      *)
AsOctets(header) == [i \in 1 .. HeaderOctets(header) |-> 255]
UserData(s) == IF s.udhi THEN AsOctets(s.header) \o s.octets ELSE s.octets
Skip(octets, n) == SubSeq(octets, n + 1, Len(octets))

(* segmentPayload: of one of several segments the header is parsed again;  *)
(* of a single one its length is remembered.                               *)
Skipped(s) == IF s.total = 1 THEN s.headerOctets ELSE HeaderOctets(s.header)

DecodeSegment(s) ==
  LET octets  == Skip(UserData(s), Skipped(s))
      padding == Padding(Skipped(s))
  IN  CASE s.encoding = "data8" -> <<"data">>
        [] s.encoding = "gsm7" ->
             IF /\ s.unitCount \in 1 .. (IF s.total = 1 THEN GsmSingle ELSE GsmConcat)
                /\ Len(octets) = PackedOctets(s.unitCount, padding)
               THEN ReadSeptets(UnpackSeptets(octets, s.unitCount, padding)) ELSE Bad
        [] OTHER ->
             IF /\ s.unitCount \in 1 .. (IF s.total = 1 THEN Ucs2Single ELSE Ucs2Concat)
                /\ Len(octets) = 2 * s.unitCount
               THEN ReadUnits(UnpackUnits(octets)) ELSE Bad

(* validateAndOrder: the segments of one message, whatever their order.    *)
Decode(segments) ==
  LET some  == CHOOSE s \in segments : TRUE
      parts == [i \in 1 .. some.total |-> CHOOSE s \in segments : s.part = i]
  IN  IF /\ Cardinality(segments) = some.total
         /\ \A s \in segments : /\ s.encoding = some.encoding
                                /\ s.reference = some.reference /\ s.total = some.total
         /\ {s.part : s \in segments} = 1 .. some.total
        THEN IF \E s \in segments : DecodeSegment(s) = Bad THEN Bad
             ELSE FlattenSeq([i \in DOMAIN parts |-> DecodeSegment(parts[i])])
        ELSE Bad

-----------------------------------------------------------------------------
(* Encode and EncodeSubmitPDU.                                             *)

MutantSplit(tokens, limit) ==
  LET units == FlattenSeq(tokens)
  IN  [i \in 1 .. (Len(units) + limit - 1) \div limit |->
         SubSeq(units, limit * (i - 1) + 1, IF limit * i < Len(units) THEN limit * i
                                              ELSE Len(units))]

(* A letter's units stay together.                                         *)
Split(tokens, limit) ==
  LET step(parts, token) ==
        LET last == parts[Len(parts)]
        IN  IF last # <<>> /\ Len(last) + Len(token) > limit
              THEN Append(parts, token)
              ELSE [parts EXCEPT ![Len(parts)] = last \o token]
  IN  FoldLeft(step, <<<<>>>>, tokens)

Limit(text) ==
  IF IsGsm(text) THEN IF Len(UnitsOf(text)) > GsmSingle THEN GsmConcat ELSE GsmSingle
                 ELSE IF Len(UnitsOf(text)) > Ucs2Single THEN Ucs2Concat ELSE Ucs2Single

(* The user data of a PDU: its header, if any, then the packed units, with *)
(* a filling octet before them if the sender puts one there.               *)
Pdu(encoding, units, udhi, header, fill) ==
  LET before == IF udhi THEN HeaderOctets(header) ELSE 0
      packed == IF encoding = "gsm7" THEN PackSeptets(units, Padding(before))
                                     ELSE PackUnits(units)
      octets == (IF fill THEN <<0>> ELSE <<>>) \o packed
  IN  [from |-> "usual", encoding |-> encoding, udhi |-> udhi, header |-> header,
       octets |-> octets,
       udl |-> IF encoding = "gsm7" THEN HeaderSeptets(before) + Len(units)
                                    ELSE before + Len(octets)]

(* The reference is taken from a digest of the text, and none for a single *)
(* segment.                                                                *)
Encode(text, digest) ==
  LET parts == Split(Tokens(text), Limit(text))
  IN  [i \in DOMAIN parts |->
         Pdu(IF IsGsm(text) THEN "gsm7" ELSE "ucs2", parts[i], Len(parts) > 1,
             IF Len(parts) > 1 THEN <<Concatenation(digest, Len(parts), i)>> ELSE <<>>,
             FALSE)]

Octets(p) == Len(UserData(p))

-----------------------------------------------------------------------------
(* DecodeDeliverPDU.                                                       *)

MutantFilled(before, udl) == before
Filled(before, udl) == before + ((udl - before) % 2)

(* The header in front of the text, with what fills up to an even offset.  *)
Before(p) ==
  LET before == IF p.udhi THEN HeaderOctets(p.header) ELSE 0
  IN  IF p.encoding = "ucs2" THEN Filled(before, p.udl) ELSE before

Segment(p) ==
  LET found == Concatenations(p.header)
      one   == p.header[CHOOSE i \in found : TRUE]
  IN  [encoding |-> p.encoding, udhi |-> p.udhi, header |-> p.header,
       octets |-> p.octets, headerOctets |-> Before(p),
       reference |-> IF found = {} THEN 0 ELSE one.reference,
       total |-> IF found = {} THEN 1 ELSE one.total,
       part |-> IF found = {} THEN 1 ELSE one.part,
       unitCount |-> CASE p.encoding = "gsm7" -> p.udl - HeaderSeptets(Before(p))
                       [] p.encoding = "ucs2" -> (p.udl - Before(p)) \div 2
                       [] OTHER -> p.udl - Before(p)]

National(p) == \E i \in DOMAIN p.header : p.header[i].is = "shift"

Delivered(p) ==
  /\ Cardinality(Concatenations(p.header)) <= 1
  /\ ~(National(p) /\ p.encoding = "gsm7")
  /\ IF p.encoding = "gsm7" THEN p.udl > HeaderSeptets(Before(p))
                            ELSE Octets(p) = p.udl /\ p.udl > Before(p)
  /\ DecodeSegment(Segment(p)) # Bad

-----------------------------------------------------------------------------
(* Over host VoWiFi a segment goes through simplus-netd without the length *)
(* of its header (queueInboundSMSLocked, validSMSMessagePayload).          *)

Carried(s) == [s EXCEPT !.headerOctets = 0]

PassesNetd(p) ==
  LET s == Segment(p)
  IN  /\ p.from = "usual"
      /\ s.encoding \in {"gsm7", "ucs2"} /\ s.reference <= 255
      /\ Len(UserData(s)) \in 1 .. MaxOctets
      /\ DecodeSegment(Carried(s)) # Bad
      /\ s.total = 1 => DecodeSegment(Carried(s)) = DecodeSegment(s)

-----------------------------------------------------------------------------
CodecInit == draft = <<>> /\ pdus = <<>> /\ sentBy = "nobody"

Type(letter) ==
  /\ sentBy = "nobody"
  /\ draft' = Append(draft, letter)
  /\ Len(UnitsOf(draft')) <= (IF IsGsm(draft') THEN MaxSeptets ELSE MaxUnits)
  /\ UNCHANGED <<pdus, sentBy>>

SendHere(digest) ==
  /\ sentBy = "nobody" /\ draft # <<>>
  /\ sentBy' = "here" /\ pdus' = Encode(draft, digest)
  /\ UNCHANGED draft

(* A handset sends one segment, or two cut anywhere, with other elements   *)
(* before or after the concatenation, some with a filling octet to have    *)
(* UCS-2 text at an even offset; or data.  A sender's name is odd where    *)
(* validInboundSMSSender does not know it, with a digit in front say.      *)
Senders == {"usual", "odd"}
Others == {[is |-> kind] : kind \in {"ports", "shift", "other"}}
ForeignHeaders(concatenation) ==
  LET rest == {<<>>} \cup {<<e>> : e \in Others}
  IN  {before \o concatenation \o after : before \in rest, after \in rest}

MayFill(encoding, udhi, header) ==
  encoding = "ucs2" /\ udhi /\ HeaderOctets(header) % 2 = 1

ForeignPdus(encoding, units, udhi, concatenation) ==
  LET with(header) == {Pdu(encoding, units, udhi, header, fill) :
                         fill \in {FALSE, MayFill(encoding, udhi, header)}}
      all == UNION {with(header) : header \in IF udhi THEN ForeignHeaders(concatenation)
                                                     ELSE {<<>>}}
  IN  {p \in all : Octets(p) <= MaxOctets}

ForeignUnits(encoding, text) ==
  IF encoding = "gsm7" THEN UnitsOf(text)
                       ELSE FlattenSeq([i \in DOMAIN text |-> Utf16[text[i]]])

SendOne(encoding, udhi, from) ==
  /\ sentBy = "nobody" /\ Len(draft) \in 1 .. MaxForeign
  /\ encoding = "gsm7" => IsGsm(draft)
  /\ \E p \in ForeignPdus(encoding, ForeignUnits(encoding, draft), udhi, <<>>) :
       pdus' = <<[p EXCEPT !.from = from]>>
  /\ sentBy' = "handset"
  /\ UNCHANGED draft

SendTwo(encoding, reference, cut) ==
  /\ sentBy = "nobody" /\ Len(draft) \in 1 .. MaxForeign
  /\ encoding = "gsm7" => IsGsm(draft)
  /\ LET units == ForeignUnits(encoding, draft)
     IN  /\ cut < Len(units)
         /\ \E p \in ForeignPdus(encoding, SubSeq(units, 1, cut), TRUE,
                                 <<Concatenation(reference, 2, 1)>>),
               q \in ForeignPdus(encoding, Skip(units, cut), TRUE,
                                 <<Concatenation(reference, 2, 2)>>) :
              /\ Len(p.header) = Len(q.header) /\ pdus' = <<p, q>>
  /\ sentBy' = "handset"
  /\ UNCHANGED draft

CodecNext ==
  \/ \E letter \in Letters : Type(letter)
  \/ \E digest \in {0, 255} : SendHere(digest)
  \/ \E encoding \in {"gsm7", "ucs2", "data8"}, udhi \in BOOLEAN, from \in Senders :
       SendOne(encoding, udhi, from)
  \/ \E encoding \in {"gsm7", "ucs2"}, reference \in {7, 300}, cut \in 1 .. 2 * MaxForeign :
       SendTwo(encoding, reference, cut)

-----------------------------------------------------------------------------
Segments == {Segment(pdus[i]) : i \in DOMAIN pdus}

CodecTypeOK ==
  /\ draft \in Seq(Letters) /\ sentBy \in {"nobody", "here", "handset"}
  /\ \A i \in DOMAIN pdus : Range(pdus[i].octets) \subseteq 0 .. 255

(* What is sent here goes out whole: every segment fits, can be read by    *)
(* itself, and all of them, in whatever order they come, are the text; some *)
(* of them are none.                                                       *)
TextIsExact ==
  sentBy = "here" =>
    /\ \A i \in DOMAIN pdus : Octets(pdus[i]) <= MaxOctets /\ Delivered(pdus[i])
    /\ Decode(Segments) = draft
    /\ \A some \in SUBSET Segments \ {{}, Segments} : Decode(some) = Bad

LettersAreWhole ==
  \E k \in DOMAIN draft : Len(ForeignUnits(pdus[1].encoding, SubSeq(draft, 1, k)))
                           = Segment(pdus[1]).unitCount

(* A handset's segment whose alphabet is known and whose letters are whole *)
(* is read as the text it is, whatever else its header says; the segments  *)
(* of one of several with a filling octet are not.                         *)
HandsetIsRead ==
  sentBy = "handset" =>
    LET Aligned(p) == p.encoding = "ucs2" /\ Len(p.octets) % 2 = 1
    IN  \/ \E i \in DOMAIN pdus : National(pdus[i]) /\ pdus[i].encoding = "gsm7"
        \/ Len(pdus) = 2 /\ \E i \in DOMAIN pdus : Aligned(pdus[i])
        \/ Len(pdus) = 2 /\ ~LettersAreWhole
        \/ /\ \A i \in DOMAIN pdus : Delivered(pdus[i])
           /\ Decode(Segments) \in {draft, <<"data">>}

(* What the worker keeps can be read at simplusd, except data, a reference *)
(* of 16 bits, a single segment with a header and one of an odd sender:    *)
(* netd refuses these every time they are asked for.                       *)
KeptIsCarried ==
  \A i \in DOMAIN pdus :
    LET s == Segment(pdus[i])
    IN  Delivered(pdus[i]) =>
          (PassesNetd(pdus[i])
             <=> ~(\/ s.encoding = "data8" \/ s.reference > 255
                   \/ (s.total = 1 /\ s.headerOctets > 0)
                   \/ pdus[i].from = "odd"))

CodecIsSafe == TextIsExact /\ HandsetIsRead /\ KeptIsCarried

=============================================================================
