------------------------------ MODULE Responses ------------------------------
(***************************************************************************)
(* Reactions and comments on one journal post.  A response is a message    *)
(* sealed to the devices of the post's author, and of the responder; the   *)
(* author's devices fold the responses they hold into a record, which is   *)
(* published to the audience of the post, and publish a new record when    *)
(* the fold yields something else than the latest record says (node.py,    *)
(* store.py).  Moderating a response is noted on the device where it is    *)
(* done, and nowhere else.                                                 *)
(***************************************************************************)
EXTENDS Naturals, FiniteSets

CONSTANTS
  Author,         \* the devices of the post's author
  Responder,      \* the others who respond, one device each
  Myself,         \* the author as a responder
  MaxResponses,   \* how many responses are composed
  MaxRecords,     \* how many records are published
  MaxRemovals     \* how many responses are moderated away

ASSUME ResponseAssumption ==
  /\ Author # {} /\ IsFiniteSet(Author) /\ Myself \notin Responder
  /\ {MaxResponses, MaxRecords, MaxRemovals} \subseteq Nat

VARIABLES
  keys,        \* the author devices that each responder knows the key of
  responses,   \* what was composed so far
  desk,        \* the state of each author device
  records      \* how many records were published

responseVars == <<keys, responses, desk, records>>
----------------------------------------------------------------------------
Person == Responder \union {Myself}

\* created_at, which grows strictly on one device, and here over all of them.
Moment == 1..MaxResponses

\* A reaction of "clear" takes the reaction back; the body of a retraction names the
\* created_at of the response it takes back.
Kind == {"comment", "reaction", "clear", "retract"}

Response == [by : Person, at : Moment, kind : Kind, of : {0} \union Moment]

\* What a record says of a response: kind and body are those of the response.
Entry == [by : Person, at : Moment, kind : {"comment", "reaction"}]

Record == [rank : 0..MaxRecords, entries : SUBSET Entry]

\* removed_responses: the moderated ones, with what the device took them for.
Removal == [by : Person, at : Moment, kind : Kind]

\* An author device: the responses it holds, the latest record and whether it is its
\* own, and the removals; and whether responses or removals came to it since it last
\* published a record (history).
Desk ==
  [held : SUBSET Response, record : Record, mine : BOOLEAN, removed : SUBSET Removal,
   fresh : BOOLEAN]

NoRecord == [rank |-> 0, entries |-> {}]

ResponseInit ==
  /\ keys \in [Responder -> (SUBSET Author) \ {{}}]
  /\ responses = {}
  /\ desk = [d \in Author |->
       [held |-> {}, record |-> NoRecord, mine |-> FALSE, removed |-> {},
        fresh |-> FALSE]]
  /\ records = 0
----------------------------------------------------------------------------
(***************************************************************************)
(* _rebuild_responses_record(): the fold.                                  *)
(***************************************************************************)
\* A response is sealed to the author devices whose key the responder knows; the
\* others ingest it and cannot read it.
Decodes(d, by) == by = Myself \/ d \in keys[by]

\* _response_event(): what device d can decode.
Events(d, held) == {r \in held : Decodes(d, r.by)}

Retracted(events, r) == \E s \in events : s.kind = "retract" /\ s.by = r.by /\ s.of = r.at

\* A removed comment goes by exact match.  A removed reaction is a cutoff: an older
\* one of the same person must not come back in its place.
RemovedExactly(removed, r) ==
  \E t \in removed : t.kind # "reaction" /\ t.by = r.by /\ t.at = r.at

\* A plausible defect: a reaction, too, goes by exact match only.
ExactOnly(removed, r) ==
  \E t \in removed : t.kind = "reaction" /\ t.by = r.by /\ r.at = t.at

CutOff(removed, r) ==
  \E t \in removed : t.kind = "reaction" /\ t.by = r.by /\ r.at <= t.at

EntryOf(r) == [by |-> r.by, at |-> r.at, kind |-> r.kind]

\* A plausible defect: a "clear" is skipped, and leaves the older reaction in place.
FoldedKeepingCleared(entries, r, events, removed) ==
  IF \/ r.kind \in {"retract", "clear"} \/ Retracted(events, r)
     \/ RemovedExactly(removed, r) \/ (r.kind = "reaction" /\ CutOff(removed, r))
  THEN entries ELSE entries \union {EntryOf(r)}

\* One step: the entries so far, and one more event.
Folded(entries, r, events, removed) ==
  LET others == {e \in entries : ~(e.by = r.by /\ e.kind = "reaction")} IN
  IF r.kind = "retract" \/ Retracted(events, r) \/ RemovedExactly(removed, r)
  THEN entries
  ELSE IF r.kind = "comment" THEN entries \union {EntryOf(r)}
  ELSE IF CutOff(removed, r) THEN entries
  ELSE IF r.kind = "clear" THEN others
  ELSE others \union {EntryOf(r)}

\* The events are folded oldest first; no two are of one moment.
Fold(events, removed) ==
  LET after[t \in 0..MaxResponses] ==
        IF t = 0 THEN {}
        ELSE IF \E r \in events : r.at = t
        THEN Folded(after[t - 1], CHOOSE r \in events : r.at = t, events, removed)
        ELSE after[t - 1]
  IN  after[MaxResponses]

\* process_responses(): without an event that can be decoded nothing is published;
\* otherwise a record is, unless it would say what the latest one says.
Rebuilds(d, held, removed, record) ==
  /\ Events(d, held) # {}
  /\ record.rank = 0 \/ Fold(Events(d, held), removed) # record.entries

Process(d, held, removed) ==
  LET moved == [desk[d] EXCEPT !.held = held, !.removed = removed, !.fresh = TRUE]
  IN  IF Rebuilds(d, held, removed, desk[d].record)
      THEN /\ records < MaxRecords /\ records' = records + 1
           /\ desk' = [desk EXCEPT ![d] =
                [moved EXCEPT !.record = [rank |-> records + 1,
                                          entries |-> Fold(Events(d, held), removed)],
                              !.mine = TRUE, !.fresh = FALSE]]
      ELSE desk' = [desk EXCEPT ![d] = moved] /\ UNCHANGED records
----------------------------------------------------------------------------
\* compose_response(): the responder retracts only what is its own.
Composes(p, kind, of) ==
  LET at == Cardinality(responses) + 1 IN
  /\ at <= MaxResponses
  /\ IF kind = "retract" THEN \E r \in responses : r.by = p /\ r.at = of ELSE of = 0
  /\ responses' = responses \union {[by |-> p, at |-> at, kind |-> kind, of |-> of]}

Respond(p, kind, of) == Composes(p, kind, of) /\ UNCHANGED <<keys, desk, records>>

\* On one's own post the record is rebuilt at once.
RespondToOneself(d, kind, of) ==
  /\ Composes(Myself, kind, of)
  /\ Process(d, desk[d].held \union (responses' \ responses), desk[d].removed)
  /\ UNCHANGED keys

\* A session with the responder, or with somebody who relays for it.
Receive(d, r) ==
  /\ r \notin desk[d].held /\ r.by # Myself
  /\ desk' = [desk EXCEPT ![d].held = @ \union {r}, ![d].fresh = TRUE]
  /\ UNCHANGED <<keys, responses, records>>

\* Two devices of the author: responses, and the later record wins.  Removals stay.
Sibling(d, e) ==
  /\ d # e
  /\ LET later == desk[e].record.rank < desk[d].record.rank
         met == [desk[e] EXCEPT !.held = @ \union desk[d].held,
                                !.record = IF later THEN desk[d].record ELSE @,
                                !.mine = @ /\ ~later,
                                !.fresh = @ \/ ~(desk[d].held \subseteq desk[e].held)]
     IN  met # desk[e] /\ desk' = [desk EXCEPT ![e] = met]
  /\ UNCHANGED <<keys, responses, records>>

\* The sweep at the end of a round.
ProcessResponses(d) ==
  /\ Rebuilds(d, desk[d].held, desk[d].removed, desk[d].record)
  /\ Process(d, desk[d].held, desk[d].removed)
  /\ UNCHANGED <<keys, responses>>

\* remove_response(): whatever entry of the record the author points at.  What it was
\* is looked up among the responses that can be decoded here; failing that, it is
\* treated as a comment.
RemovedKind(d, e) ==
  IF \E r \in desk[d].held : Decodes(d, e.by) /\ r.by = e.by /\ r.at = e.at
  THEN e.kind ELSE "comment"

RemoveResponse(d, e) ==
  /\ Cardinality(UNION {desk[a].removed : a \in Author}) < MaxRemovals
  /\ e \in desk[d].record.entries
  /\ Process(d, desk[d].held,
             desk[d].removed \union {[e EXCEPT !.kind = RemovedKind(d, e)]})
  /\ UNCHANGED <<keys, responses>>

ResponseNext ==
  \/ \E kind \in Kind, of \in {0} \union Moment :
       \/ \E p \in Responder : Respond(p, kind, of)
       \/ \E d \in Author : RespondToOneself(d, kind, of)
  \/ \E d \in Author :
       \/ \E r \in responses : Receive(d, r)
       \/ \E e \in Author : Sibling(d, e)
       \/ ProcessResponses(d)
       \/ \E e \in desk[d].record.entries : RemoveResponse(d, e)

ResponseSpec == ResponseInit /\ [][ResponseNext]_responseVars
----------------------------------------------------------------------------
ResponseTypeOK ==
  /\ responses \subseteq Response /\ desk \in [Author -> Desk]
  /\ records \in 0..MaxRecords /\ keys \in [Responder -> SUBSET Author]

\* What the author moderated away on a device is in no record which that device
\* publishes later, and an older reaction of the same person does not come back in
\* its place (node.py:2793), whatever was retracted or cleared in between.
ModeratedStaysGone ==
  \A d \in Author : desk[d].mine =>
    \A e \in desk[d].record.entries, t \in desk[d].removed :
      e.by = t.by => e.at # t.at /\ ~(e.kind = "reaction" /\ t.kind = "reaction"
                                        /\ e.at < t.at)

\* A record says what the responses say: of each person the comments not retracted,
\* and at most one reaction, the last one not retracted, and none if that one is a
\* "clear"; a record published from responses that the device all decodes, with
\* nothing moderated, has exactly those (node.py:2768).
LastReaction(rs, r) ==
  /\ r.kind = "reaction"
  /\ \A s \in rs : (s.by = r.by /\ s.kind \in {"reaction", "clear"} /\ s.at > r.at)
                     => \E t \in rs : t.kind = "retract" /\ t.by = s.by /\ t.of = s.at

Standing(rs) ==
  {r \in rs : /\ ~\E t \in rs : t.kind = "retract" /\ t.by = r.by /\ t.of = r.at
              /\ r.kind = "comment" \/ LastReaction(rs, r)}

RecordIsRight ==
  \A d \in Author :
    (desk[d].mine /\ ~desk[d].fresh) =>
      /\ (desk[d].removed = {} /\ \A r \in desk[d].held : Decodes(d, r.by)) =>
           desk[d].record.entries = {EntryOf(r) : r \in Standing(desk[d].held)}
      /\ \A e, f \in desk[d].record.entries :
           (e.kind = "reaction" /\ f.kind = "reaction" /\ e.by = f.by) => e = f

\* "must not mint a new record when nothing changed" (node.py:2733): a device publishes
\* a record only after a response or a removal came to it since its last one.
NoRemint ==
  [][\A d \in Author :
       (desk'[d].mine /\ desk'[d].record # desk[d].record) =>
         \/ desk[d].fresh
         \/ desk'[d].held # desk[d].held \/ desk'[d].removed # desk[d].removed]_responseVars
=============================================================================
