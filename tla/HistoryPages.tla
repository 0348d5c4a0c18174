---------------------------- MODULE HistoryPages ----------------------------
(***************************************************************************)
(* The histories of messages, conversations and calls, read page by page   *)
(* while messages are stored and deleted and calls recorded.  A page is    *)
(* what is older than the cursor, at most Limit of it, and the cursor of   *)
(* the next page is the oldest thing on it.                                *)
(***************************************************************************)
EXTENDS Naturals, FiniteSets

CONSTANTS
  Remotes,     \* the other ends of conversations
  OnLines,     \* Lines
  Limit,       \* how much is on a page
  MaxSequence, \* bound: messages stored
  CallIds,     \* bound: calls recorded, by their id, which is random
  MaxClock,    \* bound: milliseconds of the clock
  AnyRemote, AnyLine, NoKey

ASSUME PageAssumption ==
  /\ AnyRemote \notin Remotes /\ AnyLine \notin OnLines /\ NoKey \notin Nat \X Nat
  /\ Limit \in Nat \ {0} /\ MaxSequence \in Nat
  /\ CallIds \subseteq Nat /\ MaxClock \in Nat \ {0}

VARIABLES
  texts,       \* sms_messages: remote, Line and id by record_sequence
  sequence,    \* how many messages were ever stored: the latest one's id
  records,     \* call_records: created_at by id, 0 for none
  now,         \* the clock calls are recorded by; it may be set back
  walk         \* a reader: what of, how far, what was shown

pageVars == <<texts, sequence, records, now, walk>>

Gone == [remote |-> AnyRemote, line |-> AnyLine, id |-> 0]
Stored == {s \in 1 .. MaxSequence : texts[s] # Gone}

Everything(kind) == [of |-> kind, remote |-> AnyRemote, line |-> AnyLine]
Scopes ==
  {[of |-> "messages", remote |-> r, line |-> AnyLine] : r \in Remotes}
  \cup {[of |-> "messages", remote |-> r, line |-> l] : r \in Remotes, l \in OnLines}
  \cup {Everything(kind) : kind \in {"messages", "conversations", "calls"}}

NoWalk == [scope |-> Everything("calls"), at |-> "none", after |-> NoKey,
           legacy |-> FALSE, shown |-> {}, again |-> {}, start |-> {},
           moved |-> {}]

Walks == [scope : Scopes, at : {"none", "going", "ended", "refused"},
          after : (Nat \X Nat) \cup {NoKey}, legacy : BOOLEAN,
          shown : SUBSET (Remotes \cup Nat), again : SUBSET (Remotes \cup Nat),
          start : SUBSET (Remotes \cup Nat), moved : SUBSET Remotes]

PageTypeOK ==
  /\ texts \in [1 .. MaxSequence -> {Gone} \cup
                 [remote : Remotes, line : OnLines, id : 1 .. MaxSequence]]
  /\ sequence \in 0 .. MaxSequence /\ Stored \subseteq 1 .. sequence
  /\ records \in [CallIds -> 0 .. MaxClock] /\ now \in 1 .. MaxClock
  /\ walk \in Walks

PageInit ==
  /\ texts = [s \in 1 .. MaxSequence |-> Gone] /\ sequence = 0
  /\ records = [id \in CallIds |-> 0] /\ now = 1
  /\ walk = NoWalk

-----------------------------------------------------------------------------
(* What a scope's query is over: keys to order by, and what each shows.    *)

InScope(s, scope) ==
  /\ scope.remote \in {texts[s].remote, AnyRemote}
  /\ scope.line \in {texts[s].line, AnyLine}
Newest(s) ==
  \A t \in Stored : texts[t].remote = texts[s].remote => t <= s
Key(s) == <<s, texts[s].id>>

Entries(scope) ==
  CASE scope.of = "messages" ->
         {[key |-> Key(s), shows |-> texts[s].id] : s \in {t \in Stored : InScope(t, scope)}}
    [] scope.of = "conversations" ->
         {[key |-> Key(s), shows |-> texts[s].remote] : s \in {t \in Stored : Newest(t)}}
    [] OTHER ->
         {[key |-> <<records[id], id>>, shows |-> id]
            : id \in {i \in CallIds : records[i] # 0}}

Older(a, b) == a[1] < b[1] \/ (a[1] = b[1] /\ a[2] < b[2])

MutantSelected(scope, after) ==
  {e \in Entries(scope) : after = NoKey \/ ~Older(after, e.key)}
Selected(scope, after) ==
  {e \in Entries(scope) : after = NoKey \/ Older(e.key, after)}

(* A page: the newest of the entries, as many as go on it.                 *)
Pages(entries) ==
  {page \in SUBSET entries :
     /\ page = entries \/ Cardinality(page) = Limit
     /\ Cardinality(page) <= Limit
     /\ \A e \in entries \ page, f \in page : Older(e.key, f.key)}

(* The next page's cursor is the oldest entry's, if there is more.         *)
Cursors(page, entries) ==
  IF page = entries THEN {NoKey}
  ELSE {e.key : e \in {o \in page : \A f \in page : f = o \/ Older(o.key, f.key)}}

(* A cursor of messages names the row it is taken from: a row with its     *)
(* sequence and of another scope refuses it.  One of the form used before  *)
(* sequences has to find its row.                                          *)
CursorResolves(scope, after, legacy) ==
  \/ after = NoKey \/ scope.of = "calls"
  \/ after[1] \notin Stored /\ ~legacy
  \/ after[1] \in Stored /\ after = Key(after[1]) /\ InScope(after[1], scope)

-----------------------------------------------------------------------------
(* A reader.                                                               *)

Shows(page) == {e.shows : e \in page}
Twice(page) ==
  Shows({e \in page : \E f \in page : f # e /\ f.shows = e.shows})

Turns(before, legacy) ==
  LET entries == Selected(before.scope, before.after)
  IN  \E page \in Pages(entries) : \E after \in Cursors(page, entries) :
        walk' = [before EXCEPT !.shown = @ \cup Shows(page),
                   !.again = @ \cup (before.shown \cap Shows(page)) \cup Twice(page),
                   !.at = IF page = entries THEN "ended" ELSE "going",
                   !.after = after, !.legacy = legacy /\ page # entries]

(* A first page that simplusd served before it had sequences has a cursor  *)
(* of the old form.                                                        *)
FirstPage(scope, legacy) ==
  /\ legacy => scope.of # "calls"
  /\ Turns([NoWalk EXCEPT !.scope = scope, !.start = Shows(Entries(scope))], legacy)
  /\ UNCHANGED <<texts, sequence, records, now>>

NextPage ==
  /\ walk.at = "going"
  /\ IF CursorResolves(walk.scope, walk.after, walk.legacy)
       THEN Turns(walk, FALSE)
       ELSE walk' = [walk EXCEPT !.at = "refused"]
  /\ UNCHANGED <<texts, sequence, records, now>>

-----------------------------------------------------------------------------
(* What goes on meanwhile.                                                 *)

(* History: conversations whose last message is another than it was.       *)
Moves(remote) ==
  walk' = IF walk.at = "going" /\ walk.scope.of = "conversations"
            THEN [walk EXCEPT !.moved = @ \cup {remote}] ELSE walk

(* AUTOINCREMENT: a deleted row's sequence is not given again.             *)
MutantNextSequence == Cardinality(Stored) + 1
NextSequence == sequence + 1

StoreMessage(remote, line) ==
  /\ sequence < MaxSequence /\ sequence' = sequence + 1
  /\ texts' = [texts EXCEPT ![NextSequence] =
                 [remote |-> remote, line |-> line, id |-> sequence']]
  /\ Moves(remote)
  /\ UNCHANGED <<records, now>>

DeleteMessage(s) ==
  /\ s \in Stored
  /\ texts' = [texts EXCEPT ![s] = Gone]
  /\ IF Newest(s) THEN Moves(texts[s].remote) ELSE UNCHANGED walk
  /\ UNCHANGED <<sequence, records, now>>

RecordCall(id) ==
  /\ records[id] = 0
  /\ records' = [records EXCEPT ![id] = now]
  /\ UNCHANGED <<texts, sequence, now, walk>>

SetClock(time) ==
  /\ now' = time
  /\ UNCHANGED <<texts, sequence, records, walk>>

PageNext ==
  \/ \E scope \in Scopes, legacy \in BOOLEAN : FirstPage(scope, legacy)
  \/ NextPage
  \/ \E remote \in Remotes, line \in OnLines : StoreMessage(remote, line)
  \/ \E s \in 1 .. sequence : DeleteMessage(s)
  \/ \E id \in CallIds : RecordCall(id)
  \/ \E time \in 1 .. MaxClock : SetClock(time)

PageSpec == PageInit /\ [][PageNext]_pageVars

-----------------------------------------------------------------------------
StillThere == Shows(Entries(walk.scope))

(* A reader who pages to the end has seen everything that was there from   *)
(* the first page on, once: what is stored, deleted or recorded meanwhile, *)
(* or by a clock set back, takes no page away.  A conversation whose last  *)
(* message changed meanwhile may be missed or seen twice.                  *)
NoneIsSkipped ==
  walk.at = "ended" => walk.start \cap StillThere \subseteq walk.shown \cup walk.moved
NoneIsRepeated == walk.again \subseteq walk.moved

(* A cursor is good for as long as its reader likes, in its own scope: only *)
(* one of the old form needs the row it was taken from.                    *)
CursorsAreGood ==
  walk.at = "refused" => walk.legacy /\ walk.after \notin {Key(s) : s \in Stored}

PagesAreTrue == NoneIsSkipped /\ NoneIsRepeated /\ CursorsAreGood

=============================================================================
