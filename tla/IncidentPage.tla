---------------------------- MODULE IncidentPage ----------------------------
(***************************************************************************)
(* The incident page (app/dashboard/incident-analysis/page.tsx): a list    *)
(* and a detail that poll the API, each from an effect that is torn down   *)
(* and started again when what it depends on changes, a form that reports, *)
(* and buttons that delete and retry.                                      *)
(*                                                                         *)
(* React runs the effects some time after the state they depend on was     *)
(* set; an answer may come in between. An answer to an effect that was     *)
(* torn down is ignored, so only the request of the running effect is      *)
(* kept. Messages, statuses and the limit of a hundred rows are left out.  *)
(***************************************************************************)
EXTENDS Naturals, FiniteSets

CONSTANTS
  MaxRows,   \* bound: incidents ever stored
  MaxForms,  \* bound: report forms opened
  MaxKeys    \* bound: keys minted

ASSUME PageAssumption ==
  MaxRows \in Nat \ {0} /\ MaxForms \in Nat \ {0} /\ MaxKeys \in Nat \ {0}

VARIABLES
  rows,      \* incoming_incidents: id -> key and form it came from
  stored,    \* rows ever stored
  list,      \* incidents: the ids shown
  selected,  \* the id selected, or 0
  detail,    \* the id of the incident shown in detail, or 0
  gone,      \* deletedIds
  demo,      \* the demo is shown instead
  dirty,     \* effects whose dependencies changed since they ran
  poll,      \* the request or the timer of each effect
  form,      \* the form: its number (0: closed) and the key in its dataset
  opened,    \* forms ever mounted
  minted,    \* keys ever minted
  act        \* what the buttons wait for: create, delete, retry

server == <<rows, stored>>
shown  == <<list, selected, detail, gone>>
typed  == <<form, opened, minted>>
incidentVars == <<server, shown, demo, dirty, poll, typed, act>>

Effects == {"list", "detail"}
NoForm == [no |-> 0, key |-> 0]
Off  == [pc |-> "off"]
Idle == [pc |-> "idle"]

IncidentInit ==
  /\ rows = << >> /\ stored = 0
  /\ list = {} /\ selected = 0 /\ detail = 0 /\ gone = {}
  /\ demo = FALSE /\ dirty = Effects
  /\ poll = [f \in Effects |-> Off]
  /\ form = NoForm /\ opened = 0 /\ minted = 0
  /\ act = [a \in {"create", "delete", "retry"} |-> Idle]

-----------------------------------------------------------------------------
(* Everybody else: reports come in, colleagues delete.                     *)

Stored(key, no) ==
  /\ stored < MaxRows
  /\ stored' = stored + 1
  /\ rows' = [n \in DOMAIN rows \cup {stored + 1} |->
                IF n = stored + 1 THEN [key |-> key, form |-> no] ELSE rows[n]]

Removed(id) == rows' = [n \in DOMAIN rows \ {id} |-> rows[n]] /\ UNCHANGED stored

Others ==
  /\ \/ Stored(0, 0)
     \/ \E id \in DOMAIN rows : Removed(id)
  /\ UNCHANGED <<shown, demo, dirty, poll, typed, act>>

-----------------------------------------------------------------------------
(* The two effects. Each asks, waits for the answer, and asks again after a *)
(* while, for as long as it is not torn down; the detail's for the incident *)
(* that was selected when it ran.                                           *)

Sent(id) == [pc |-> "sent", id |-> id]

\* Faulty: an answer to the effect before this one still counts.
RunDetailOver(p) ==
  IF demo \/ selected = 0 THEN Off ELSE IF p.pc = "answered" THEN p ELSE Sent(selected)

RunDetail(p) == IF demo \/ selected = 0 THEN Off ELSE Sent(selected)

\* Cleanup and body of the effects whose dependencies changed.
Commit ==
  /\ dirty # {} /\ dirty' = {}
  /\ poll' = [list   |-> IF "list" \notin dirty THEN poll["list"] ELSE IF demo THEN Off ELSE Sent(0),
              detail |-> IF "detail" \notin dirty THEN poll["detail"] ELSE RunDetail(poll["detail"])]
  /\ detail' = IF "detail" \in dirty THEN 0 ELSE detail
  /\ UNCHANGED <<server, list, selected, gone, demo, typed, act>>

\* The API reads for a request, or the request fails.
Read(f) ==
  LET p == poll[f] IN
  /\ p.pc = "sent"
  /\ poll' = [poll EXCEPT ![f] =
                [pc |-> "answered", id |-> p.id,
                 got |-> IF f = "list" THEN DOMAIN rows ELSE {p.id} \cap DOMAIN rows]]
  /\ UNCHANGED <<server, shown, demo, dirty, typed, act>>

\* Faulty: a failure ends the polling.
AgainUnlessFailed(f, ok) == IF ok THEN Sent(poll[f].id) ELSE Off

\* finally: it asks again, after a while, whatever came.
Again(f, ok) == Sent(poll[f].id)

\* Failed requests and a 404 leave what is shown.
Miss(f) ==
  /\ poll[f].pc \in {"sent", "answered"}
  /\ poll' = [poll EXCEPT ![f] = Again(f, FALSE)]
  /\ UNCHANGED <<server, shown, demo, dirty, typed, act>>

\* Faulty: the answer is the list.
VisibleAll(ids) == ids

Visible(ids) == ids \ gone

ShowList ==
  /\ poll["list"].pc = "answered"
  /\ list' = Visible(poll["list"].got)
  /\ poll' = [poll EXCEPT !["list"] = Again("list", TRUE)]
  /\ UNCHANGED <<server, selected, detail, gone, demo, dirty, typed, act>>

ShowDetail ==
  LET p == poll["detail"] IN
  /\ p.pc = "answered" /\ p.got # {}
  /\ detail' = p.id
  /\ poll' = [poll EXCEPT !["detail"] = Again("detail", TRUE)]
  /\ UNCHANGED <<server, list, selected, gone, demo, dirty, typed, act>>

-----------------------------------------------------------------------------
(* The reader, whose clicks find the effects of earlier ones run.          *)

Ready == ~demo /\ dirty = {}

Select(id) ==
  /\ Ready /\ id \in list /\ id # selected
  /\ selected' = id /\ dirty' = {"detail"}
  /\ UNCHANGED <<server, list, detail, gone, demo, poll, typed, act>>

Mount == opened < MaxForms /\ opened' = opened + 1 /\ form' = [no |-> opened + 1, key |-> 0]

\* View demo and back. An open form is mounted anew, without its key.
ToggleDemo ==
  /\ dirty = {} /\ demo' = ~demo /\ dirty' = Effects
  /\ \/ demo /\ form.no # 0 /\ Mount
     \/ (~demo \/ form.no = 0) /\ UNCHANGED <<form, opened>>
  /\ UNCHANGED <<server, shown, poll, minted, act>>

\* Report incident and Cancel, which a submission under way does not disable.
ToggleForm ==
  /\ Ready
  /\ \/ form.no = 0 /\ Mount
     \/ form.no # 0 /\ form' = NoForm /\ UNCHANGED opened
  /\ UNCHANGED <<server, shown, demo, dirty, poll, minted, act>>

\* Faulty: a key for every submission.
KeyOfEach(f) == minted + 1

\* The form's dataset retains the key.
KeyOf(f) == IF f.key # 0 THEN f.key ELSE minted + 1

Submit ==
  LET key == KeyOf(form) IN
  /\ Ready /\ form.no # 0 /\ act["create"] = Idle /\ key <= MaxKeys
  /\ form' = [form EXCEPT !.key = key]
  /\ minted' = IF key > minted THEN key ELSE minted
  /\ act' = [act EXCEPT !["create"] = [pc |-> "sent", key |-> key, no |-> form.no]]
  /\ UNCHANGED <<server, shown, demo, dirty, poll, opened>>

Press(a, id) ==
  /\ Ready /\ act[a] = Idle
  /\ act' = [act EXCEPT ![a] = [pc |-> "sent", id |-> id]]
  /\ UNCHANGED <<server, shown, demo, dirty, poll, typed>>

\* From the list or from the detail, after a confirmation.
Delete == \E id \in list \cup ({detail} \ {0}) : Press("delete", id)
Retry  == detail # 0 /\ Press("retry", 0)

-----------------------------------------------------------------------------
(* What the API does for a button, and what the page does with the answer. *)

Answer(a, id) == act' = [act EXCEPT ![a] = [pc |-> "done", id |-> id]]

\* The request is refused, or it or its answer is lost.
Lost(a) ==
  /\ act[a] # Idle
  /\ act' = [act EXCEPT ![a] = Idle]
  /\ UNCHANGED <<server, shown, demo, dirty, poll, typed>>

\* insertIncident: the row of this key, old or new.
Create ==
  LET job == act["create"]
      old == {n \in DOMAIN rows : rows[n].key = job.key}
  IN /\ job.pc = "sent"
     /\ IF old # {} THEN UNCHANGED server /\ \E n \in old : Answer("create", n)
        ELSE Stored(job.key, job.no) /\ Answer("create", stored + 1)
     /\ UNCHANGED <<shown, demo, dirty, poll, typed>>

Remove ==
  LET job == act["delete"] IN
  /\ job.pc = "sent" /\ job.id \in DOMAIN rows
  /\ Removed(job.id) /\ Answer("delete", job.id)
  /\ UNCHANGED <<shown, demo, dirty, poll, typed>>

\* Whether the incident is one that failed is left out.
Requeue ==
  /\ act["retry"].pc = "sent" /\ Answer("retry", 0)
  /\ UNCHANGED <<server, shown, demo, dirty, poll, typed>>

\* setVersion: both effects run again.
Handled(a) ==
  /\ act[a].pc = "done"
  /\ act' = [act EXCEPT ![a] = Idle]
  /\ dirty' = Effects
  /\ UNCHANGED <<server, detail, demo, poll, opened, minted>>

\* Whatever form is open by now is closed.
Created == Handled("create") /\ selected' = act["create"].id /\ form' = NoForm /\ UNCHANGED <<list, gone>>

Deleted ==
  LET id == act["delete"].id IN
  /\ Handled("delete")
  /\ gone' = gone \cup {id} /\ list' = list \ {id}
  /\ selected' = IF selected = id THEN 0 ELSE selected
  /\ UNCHANGED form

Retried == Handled("retry") /\ UNCHANGED <<list, gone, selected, form>>

IncidentNext ==
  \/ Others \/ Commit
  \/ \E f \in Effects : Read(f) \/ Miss(f)
  \/ ShowList \/ ShowDetail
  \/ \E id \in list : Select(id)
  \/ ToggleDemo \/ ToggleForm \/ Submit \/ Delete \/ Retry
  \/ \E a \in DOMAIN act : Lost(a)
  \/ Create \/ Remove \/ Requeue \/ Created \/ Deleted \/ Retried

IncidentSpec == IncidentInit /\ [][IncidentNext]_incidentVars

\* React commits, and a request that is made again and again is
\* answered some time.
FairSpec ==
  /\ IncidentSpec
  /\ WF_incidentVars(Commit)
  /\ SF_incidentVars(Read("list")) /\ SF_incidentVars(ShowList)

-----------------------------------------------------------------------------
(* What the page promises.                                                 *)

\* An incident the reader deleted does not come back, not even with a list
\* that was read before and arrives after the deletion's answer (page.tsx:41,
\* 52, 83-86).
DeletedStaysGone == gone \cap list = {}

\* Once the effects have run, the detail is the selected incident's: no answer
\* for the one selected before is shown under it (page.tsx:60-74).
DetailIsSelected == dirty = {} /\ detail # 0 => detail = selected

\* "Retain the key on failures so a retry cannot create a second incident"
\* (page.tsx:105): a form, however often it is submitted and whatever answers
\* are lost, has one row.
OneRowPerForm ==
  \A n, m \in DOMAIN rows : rows[n].form = rows[m].form /\ rows[n].form # 0 => n = m

\* Incidents that others stored or deleted reach the list: whenever the page
\* is not showing the demo, it will show what is stored, or others changed it
\* again (page.tsx:45-58).
ListCatchesUp == []<>(demo \/ list = DOMAIN rows)

=============================================================================
