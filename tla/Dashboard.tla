------------------------------- MODULE Dashboard -------------------------------
(***************************************************************************)
(* The page in the browser (web/static/app.js) and the two requests it     *)
(* polls (web/app.py, service.py, storage.py).                             *)
(*                                                                         *)
(* A tick is started every POLL_MS whether or not the last one is over; it *)
(* sends two requests, which are answered in any order, each with what the *)
(* service knows at that moment.  When both answers are in, or one request *)
(* has failed, the tick ends and changes the page.  The user filters and   *)
(* opens rows in between.                                                  *)
(*                                                                         *)
(* The alerts are numbered as in the table, and never deleted there; an    *)
(* answer to /api/alerts is the number of the latest.                      *)
(***************************************************************************)
EXTENDS Integers, Sequences

CONSTANTS
    Severities,   \* what sevClass() returns
    SevClass,     \* per alert, in the order of the table
    All,          \* the filter that shows all of them
    Ticks,        \* bound: ticks under way at a time
    Limit         \* the limit the page asks for: 200 in the code

ASSUME DashboardAssumption ==
    /\ All \notin Severities
    /\ SevClass \in Seq(Severities)
    /\ Limit \in Nat \ {0}

MaxStored == Len(SevClass)    \* bound: rows of the table

(* The service. *)
VARIABLES
    up,         \* the server answers
    health,     \* what status() says: "warm" (warmup_remaining > 0), "ok",
                \* or "error" (last_error)
    stored      \* rows of the table

(* The page. *)
VARIABLES
    tick,       \* per tick under way: its two answers
    alerts,     \* STATE.alerts
    expanded,   \* STATE.expanded
    filterSev,  \* STATE.filterSev
    page        \* what is shown

service == <<up, health, stored>>
pageState == <<alerts, expanded, filterSev>>
pageVars == <<service, tick, pageState, page>>

Apis == {"status", "alerts"}

\* What has become of a request.
Waiting == [is |-> "waiting"]
Lost == [is |-> "lost"]
Answer(value) == [is |-> "answered", value |-> value]

Idle == [api \in Apis |-> [is |-> "idle"]]
Asked == [api \in Apis |-> IF up THEN Waiting ELSE Lost]

\* Slip: a row more than the limit.
RowsInclusive(latest) == {id \in 1..latest : id >= latest - Limit}

\* The rows an answer holds, the latest Limit of them.
Rows(latest) == {id \in 1..latest : id > latest - Limit}

\* The page of the answers of a tick, under a filter and what is expanded.
Shown(latest, filter) == {id \in Rows(latest) : filter \in {All, SevClass[id]}}

FirstPage == [pill |-> "none", total |-> 0, histogram |-> 0, rows |-> {}, details |-> {}]

\* Of a service that was just started; --warmup 0 leaves no warm-up.
Started == {"warm", "ok"}

PageInit ==
    /\ up = TRUE /\ health \in Started /\ stored = 0
    /\ tick = [t \in Ticks |-> Idle]
    /\ alerts = 0 /\ expanded = {} /\ filterSev = All
    /\ page = FirstPage

-----------------------------------------------------------------------------
(* The service: what changes its answers.                                  *)

\* An alert is saved: of the traffic, or, in the warm-up too, of a destination.
\* The capture thread goes on while a server that stops does not answer any more.
NewAlert ==
    /\ health # "error" /\ stored < MaxStored
    /\ stored' = stored + 1
    /\ UNCHANGED <<up, health, tick, pageState, page>>

\* The first windows are over.
Warmed ==
    /\ health = "warm" /\ health' = "ok"
    /\ UNCHANGED <<up, stored, tick, pageState, page>>

\* The capture thread dies; last_error is set, and never cleared.
CaptureDies ==
    /\ health # "error" /\ health' = "error"
    /\ UNCHANGED <<up, stored, tick, pageState, page>>

\* The process ends: requests under way are lost.
Down ==
    /\ up /\ up' = FALSE
    /\ tick' = [t \in Ticks |-> [api \in Apis |->
                    IF tick[t][api] = Waiting THEN Lost ELSE tick[t][api]]]
    /\ UNCHANGED <<health, stored, pageState, page>>

\* The next process starts with the same table and no error.
Up ==
    /\ ~ up /\ up' = TRUE
    /\ health' \in Started
    /\ UNCHANGED <<stored, tick, pageState, page>>

\* What a request is answered now.
Present(api) ==
    Answer(IF api = "status" THEN [health |-> health, total |-> stored] ELSE stored)

Reply(t, api) ==
    /\ up /\ tick[t][api] = Waiting
    /\ tick' = [tick EXCEPT ![t][api] = Present(api)]
    /\ UNCHANGED <<service, pageState, page>>

-----------------------------------------------------------------------------
(* The page.                                                               *)

\* setInterval() starts a tick whatever the others do.
Tick(t) ==
    /\ tick[t] = Idle
    /\ tick' = [tick EXCEPT ![t] = Asked]
    /\ UNCHANGED <<service, pageState, page>>

\* Slip: the pill of an error is not taken down.
PillSticks(was, s) == IF was = "unreachable" THEN was ELSE s

\* setPill(): whatever the pill was, it is now that of the status.
Pill(was, s) == s

\* renderAlerts(): rows and details as of now.
Rendered(latest, filter, open) ==
    [rows |-> Shown(latest, filter), details |-> Shown(latest, filter) \cap open]

\* Both answers are in: renderStatus(), renderHistogram(), renderAlerts().
Render(t) ==
    /\ \A api \in Apis : tick[t][api].is = "answered"
    /\ LET status == tick[t]["status"].value
           latest == tick[t]["alerts"].value
           shown == Rendered(latest, filterSev, expanded)
       IN  /\ page' = [pill |-> Pill(page.pill, status.health), total |-> status.total,
                       histogram |-> latest, rows |-> shown.rows, details |-> shown.details]
           /\ alerts' = latest
    /\ tick' = [tick EXCEPT ![t] = Idle]
    /\ UNCHANGED <<service, expanded, filterSev>>

\* One request has failed: the other's answer, if any, is dropped.
Fail(t) ==
    /\ \E api \in Apis : tick[t][api] = Lost
    /\ page' = [page EXCEPT !.pill = "unreachable"]
    /\ tick' = [tick EXCEPT ![t] = Idle]
    /\ UNCHANGED <<service, pageState>>

\* What a click renders again, from what the last tick left in STATE.
Again(filter, open) ==
    LET shown == Rendered(alerts, filter, open)
    IN  [page EXCEPT !.rows = shown.rows, !.details = shown.details]

Filter(f) ==
    /\ filterSev' = f
    /\ page' = Again(f, expanded)
    /\ UNCHANGED <<service, tick, alerts, expanded>>

Toggled(id) == IF id \in expanded THEN expanded \ {id} ELSE expanded \cup {id}

ToggleExpand(id) ==
    /\ id \in page.rows
    /\ expanded' = Toggled(id)
    /\ page' = Again(filterSev, Toggled(id))
    /\ UNCHANGED <<service, tick, alerts, filterSev>>

ServiceNext == NewAlert \/ Warmed \/ CaptureDies \/ Down \/ Up

PageNext ==
    \/ ServiceNext
    \/ \E t \in Ticks : Tick(t) \/ Render(t) \/ Fail(t) \/ \E api \in Apis : Reply(t, api)
    \/ \E f \in Severities \cup {All} : Filter(f)
    \/ \E id \in page.rows : ToggleExpand(id)

\* The browser runs its timer and its callbacks, and a server that is up
\* answers; nothing is assumed of the user, or of the process.
Fairness ==
    \A t \in Ticks :
        /\ WF_pageVars(Tick(t)) /\ WF_pageVars(Render(t)) /\ WF_pageVars(Fail(t))
        /\ \A api \in Apis : WF_pageVars(Reply(t, api))

PageSpec == PageInit /\ [][PageNext]_pageVars /\ Fairness

-----------------------------------------------------------------------------

Replies == [status |-> [health : {"warm", "ok", "error"}, total : 0..MaxStored],
            alerts |-> 0..MaxStored]

PageTypeOK ==
    /\ up \in BOOLEAN /\ health \in {"warm", "ok", "error"}
    /\ stored \in 0..MaxStored
    /\ \A t \in Ticks, api \in Apis :
        LET request == tick[t][api]
        IN  CASE request.is = "answered" -> request.value \in Replies[api]
              [] OTHER -> request.is \in {"idle", "waiting", "lost"}
    /\ alerts \in 0..stored
    /\ expanded \subseteq 1..stored
    /\ filterSev \in Severities \cup {All}
    /\ page.pill \in {"none", "warm", "ok", "error", "unreachable"}
    /\ page.total \in 0..stored
    /\ page.rows \subseteq 1..stored
    /\ \A i, j \in page.rows : i - j < Limit

\* Through ticks that overlap, fail and end in any order, and clicks between
\* them, the page shows one answer: its histogram, the rows of the filter that
\* is active now, and the details of those that are open now
\* (web/static/app.js:74-81, 256-314, 379-396).
PageIsOfOneAnswer ==
    /\ page.histogram = alerts
    /\ page.rows = Shown(alerts, filterSev)
    /\ page.details = page.rows \cap expanded

\* That one answer, the total and the pill are what the service would say now.
Current ==
    /\ PageIsOfOneAnswer
    /\ page.pill = health /\ page.total = stored /\ alerts = stored

\* Once the server stays up, the page comes to show what it says, under whatever
\* filter and details the user goes on choosing, and stays that way: no answer
\* that is late, no outage and no error is shown for good
\* (web/static/app.js:84-95, 256-314, 379-398).
EventuallyCurrent == <>[]up => <>[]Current
=============================================================================
