---------------------------- MODULE MonitorSession ---------------------------
(***************************************************************************)
(* A mounted ProcessMonitor (editor/monitor_view.rs, the models of         *)
(* editor/monitor.rs) and the server adapter that answers it               *)
(* (editor/admin.rs).  Every change of the request takes a new revision    *)
(* and makes the host load a snapshot; loads run concurrently, read a log  *)
(* that grows meanwhile, may fail as a whole or in one history, may never  *)
(* answer, and answer in any order.  The host shows another definition     *)
(* version by changing the document, which mounts a fresh session.         *)
(*                                                                         *)
(* An instance is its database UUID; its other fields, node counts and     *)
(* issues are data the session copies and are left out, and of the two     *)
(* histories, read by equal loops, only the execution log is kept.         *)
(***************************************************************************)
EXTENDS FiniteSets, Retention

CONSTANTS
    Scope,            \* the definition versions a host shows
    Instance,
    ScopeOf,          \* ScopeOf[i]: the version instance i runs
    Filter,           \* Filter[f]: the instances that match filter f
    NoInstance,
    PageSize, MaxTabs, LogLimit, LogStep, MaxLog, LogPage,
                      \* 25, 25, 50, 100, 10000 and 250 in the code
    FirstRows,        \* FirstRows[i]: log rows an instance has to begin with
    MaxRows,          \* bound: MaxRows[i], log rows an instance gets
    MaxLoads,         \* bound: requests being answered at a time
    MaxRevision       \* bound: requests made

(* The limits are positive; the first request of a version filters "all".  *)
ASSUME MonitorConstants ==
    /\ {LogLimit, MaxLog, LogPage, MaxTabs} \subseteq Nat \ {0}
    /\ PageSize \in Nat /\ LogStep \in Nat
    /\ "all" \in DOMAIN Filter /\ \A f \in DOMAIN Filter : Filter[f] \subseteq Instance
    /\ FirstRows \in [Instance -> Nat]

VARIABLES
    scope, mount,     \* the mounted version; how many mounts came before
    request, accepted, error, active, tabs, live, chosen,
    revision,         \* next_revision, shared by every mount
    loading,          \* the requests being answered
    rows              \* rows[i]: the visible log rows of i, newest first

session == <<scope, mount, request, accepted, error, active, tabs, live, chosen, revision>>
monitorVars == <<session, loading, rows>>

NoSnapshot == [request |-> NoInstance, mount |-> 0, items |-> {}, details |-> <<>>]

Uuids(r) == [k \in DOMAIN r.instances |-> r.instances[k].uuid]
Entries(s) == {s[k] : k \in DOMAIN s}
Contains(s, i) == ScopeOf[i] = s

(* The filtered instances of a version; a page of them.                    *)
Matching(s, query) == {i \in Filter[query.filter] : Contains(s, i)}
Pages(s, query) ==
    {P \in SUBSET Matching(s, query) :
        Cardinality(P) = LET left == Cardinality(Matching(s, query)) - query.offset
                         IN  IF Cardinality(Matching(s, query)) <= query.offset THEN 0
                             ELSE IF left < PageSize THEN left ELSE PageSize}

-----------------------------------------------------------------------------
(* MonitorSession::change: the error is cleared, the request gets the next *)
(* revision, and the effect on it asks the host to load.                   *)
Load(r, m) == [request |-> r, mount |-> m, details |-> <<>>, logs |-> <<>>, counted |-> FALSE,
               count |-> 0, total |-> 0,
               old |-> IF r.instances = <<>> THEN <<>> ELSE rows[r.instances[1].uuid]]

Change(new) ==
    /\ revision < MaxRevision /\ Cardinality(loading) < MaxLoads
    /\ revision' = revision + 1
    /\ request' = [new EXCEPT !.revision = revision]
    /\ error' = "none"
    /\ loading' = loading \cup {Load(request', mount')}

Requested(i) == [uuid |-> i, limit |-> LogLimit]

MutOpenTab(i) ==
    CASE i \in Entries(tabs) ->
            active' = i /\ UNCHANGED <<request, error, tabs, revision, loading>>
      [] i \notin Entries(tabs) /\ Len(tabs) >= MaxTabs ->
            error' = "tabs" /\ UNCHANGED <<request, active, tabs, revision, loading>>
      [] OTHER -> /\ tabs' = Append(tabs, i)
                  /\ Change([request EXCEPT !.instances = Append(@, Requested(i))])
                  /\ active' = i
(* MonitorSession::open                                                    *)
OpenTab(i) ==
    CASE ~ Contains(scope, i) -> UNCHANGED <<request, error, active, tabs, revision, loading>>
      [] Contains(scope, i) /\ i \in Entries(tabs) ->
            active' = i /\ UNCHANGED <<request, error, tabs, revision, loading>>
      [] Contains(scope, i) /\ i \notin Entries(tabs) /\ Len(tabs) >= MaxTabs ->
            error' = "tabs" /\ UNCHANGED <<request, active, tabs, revision, loading>>
      [] OTHER -> /\ tabs' = Append(tabs, i)
                  /\ Change([request EXCEPT !.instances = Append(@, Requested(i))])
                  /\ active' = i

OpenInstance(i) ==
    /\ accepted # NoSnapshot /\ i \in accepted.items /\ accepted.request.query = request.query
    /\ UNCHANGED <<scope, mount, accepted, live, chosen, rows>>
    /\ OpenTab(i)

(* The host selects an instance: one of another version is ignored.        *)
HostSelects(i) ==
    /\ chosen' = i
    /\ UNCHANGED <<scope, mount, accepted, live, rows>>
    /\ OpenTab(i)

Close(i) ==
    /\ i \in Entries(tabs)
    /\ UNCHANGED <<scope, mount, accepted, live, chosen, rows>>
    /\ tabs' = Retain(tabs, {k \in DOMAIN tabs : tabs[k] # i})
    /\ Change([request EXCEPT !.instances = Retain(@, {k \in DOMAIN @ : @[k].uuid # i})])
    /\ active' = IF active # i THEN active ELSE IF tabs' = <<>> THEN NoInstance ELSE tabs'[Len(tabs')]

ShowTab(i) ==
    /\ i \in Entries(tabs) \cup {NoInstance}
    /\ active' = i
    /\ UNCHANGED <<scope, mount, request, accepted, error, tabs, live, chosen, revision, loading, rows>>

-----------------------------------------------------------------------------
(* Requests from the list, the canvas, the toolbar and the poll timer.     *)
Ask(new) ==
    /\ UNCHANGED <<scope, mount, accepted, active, tabs, live, chosen, rows>>
    /\ Change(new)

Query(f) == Ask([request EXCEPT !.query = [filter |-> f, offset |-> 0]])

(* A click on a block goes back to the list, filtered by that block.       *)
ClickBlock(f) ==
    /\ active' = NoInstance
    /\ UNCHANGED <<scope, mount, accepted, tabs, live, chosen, rows>>
    /\ Change([request EXCEPT !.query = [filter |-> f, offset |-> 0]])

PageShown == accepted # NoSnapshot /\ accepted.request.query = request.query

NextPage ==
    /\ PageShown
    /\ request.query.offset + PageSize < Cardinality(Matching(scope, request.query))
    /\ Ask([request EXCEPT !.query.offset = @ + PageSize])

PreviousPage ==
    /\ PageShown
    /\ request.query.offset > 0
    /\ Ask([request EXCEPT !.query.offset = IF @ < PageSize THEN 0 ELSE @ - PageSize])

Smaller(a, b) == IF a < b THEN a ELSE b

Longer(asked) == [asked EXCEPT !.limit = Smaller(@ + LogStep, MaxLog)]

LoadMore(i) ==
    /\ accepted # NoSnapshot /\ i \in DOMAIN accepted.details /\ i \in Entries(tabs)
    /\ Len(accepted.details[i].logs) < Smaller(accepted.details[i].total, MaxLog)
    /\ Ask([request EXCEPT !.instances =
                [k \in DOMAIN @ |-> IF @[k].uuid = i THEN Longer(@[k]) ELSE @[k]]])

Refresh == Ask(request)

Pending == (accepted = NoSnapshot \/ accepted.request # request) /\ error = "none"

Poll == live /\ ~ Pending /\ Ask(request)

ToggleLive ==
    /\ live' = ~ live
    /\ UNCHANGED <<scope, mount, request, accepted, error, active, tabs, chosen, revision, loading, rows>>

(* Another version: a fresh body, whose first request already holds the    *)
(* instance the host has selected, if it runs that version.                *)
FirstRequest(s, first) ==
    [scope |-> s, revision |-> 0, query |-> [filter |-> "all", offset |-> 0],
     instances |-> [k \in DOMAIN first |-> Requested(first[k])]]

Mount(s) ==
    LET first == IF chosen # NoInstance /\ Contains(s, chosen) THEN <<chosen>> ELSE <<>> IN
    /\ s # scope
    /\ scope' = s /\ mount' = mount + 1
    /\ accepted' = NoSnapshot /\ live' = TRUE
    /\ tabs' = first
    /\ active' = IF first = <<>> THEN NoInstance ELSE chosen
    /\ Change(FirstRequest(s, first))
    /\ UNCHANGED <<chosen, rows>>

-----------------------------------------------------------------------------
(* The adapter reads the history of each requested instance page by page:  *)
(* a count, then the rows, newest first, from the offset it has reached.   *)
(* The total it reports is the count of the last page it got.  `old` is no *)
(* state of the adapter: it remembers the rows that were visible when the  *)
(* reading of the history began, and stays with the finished detail.       *)
Turn(l) == l.request.instances[Cardinality(DOMAIN l.details) + 1]
Ready(l) == Cardinality(DOMAIN l.details) = Len(l.request.instances)
Update(l, new) == loading' = (loading \ {l}) \cup {new} /\ UNCHANGED <<session, rows>>

CountRows(l) ==
    /\ l \in loading /\ ~ Ready(l) /\ ~ l.counted
    /\ Update(l, [l EXCEPT !.counted = TRUE, !.count = Len(rows[Turn(l).uuid])])

WithDetail(l, failed) ==
    LET done == [i \in DOMAIN l.details \cup {Turn(l).uuid} |->
                    IF i = Turn(l).uuid
                    THEN [logs |-> l.logs, total |-> l.total, error |-> failed, old |-> l.old]
                    ELSE l.details[i]]
        next == Cardinality(DOMAIN done) + 1
    IN  [l EXCEPT !.details = done, !.logs = <<>>, !.counted = FALSE, !.count = 0, !.total = 0,
                  !.old = IF next > Len(l.request.instances) THEN <<>>
                          ELSE rows[l.request.instances[next].uuid]]

MutReadRows(l) ==
    /\ l \in loading /\ ~ Ready(l) /\ l.counted
    /\ LET visible == rows[Turn(l).uuid]
           from    == Len(l.logs)
           amount  == Smaller(Turn(l).limit - from, LogPage)
           page    == SubSeq(visible, from + 2, Smaller(from + amount + 1, Len(visible)))
           more    == [l EXCEPT !.logs = @ \o page, !.counted = FALSE, !.count = 0, !.total = l.count]
       IN  Update(l, IF page = <<>> \/ Len(more.logs) >= more.total \/ Len(more.logs) >= Turn(l).limit
                     THEN WithDetail(more, FALSE) ELSE more)
ReadRows(l) ==
    /\ l \in loading /\ ~ Ready(l) /\ l.counted
    /\ LET visible == rows[Turn(l).uuid]
           from    == Len(l.logs)
           amount  == Smaller(Turn(l).limit - from, LogPage)
           page    == SubSeq(visible, from + 1, Smaller(from + amount, Len(visible)))
           more    == [l EXCEPT !.logs = @ \o page, !.counted = FALSE, !.count = 0, !.total = l.count]
       IN  Update(l, IF page = <<>> \/ Len(more.logs) >= more.total \/ Len(more.logs) >= Turn(l).limit
                     THEN WithDetail(more, FALSE) ELSE more)

(* A history that cannot be read keeps what was read and says so.          *)
HistoryFails(l) ==
    /\ l \in loading /\ ~ Ready(l)
    /\ Update(l, WithDetail(l, TRUE))

(* The execution log grows.  A row carries the time its transaction began, *)
(* so one that commits late appears below a newer row.                     *)
LogRow(i) ==
    /\ Len(rows[i]) < MaxRows[i]
    /\ \E below \in {0, 1} :
          /\ below <= Len(rows[i])
          /\ rows' = [rows EXCEPT ![i] = SubSeq(@, 1, below) \o <<Len(@) + 1>> \o SubSeq(@, below + 1, Len(@))]
    /\ UNCHANGED <<session, loading>>

-----------------------------------------------------------------------------
(* A snapshot reaches the session.  Only an answer to exactly the current  *)
(* request counts; one with instances of another version, and one that     *)
(* failed, leave the accepted data in place.                               *)
ValidSnapshot(s, r) ==
    /\ s.request = r
    /\ \A i \in s.items \cup DOMAIN s.details : Contains(r.scope, i)

MutKeepReadable(details) == details
KeepReadable(details) ==
    [i \in DOMAIN details |->
        IF details[i].error /\ i \in DOMAIN accepted.details
        THEN [accepted.details[i] EXCEPT !.error = TRUE] ELSE details[i]]

Receive(snapshot, failed) ==
    CASE snapshot.request # request -> UNCHANGED <<accepted, error>>
      [] snapshot.request = request /\ (failed \/ ~ ValidSnapshot(snapshot, request)) ->
            error' = "failed" /\ UNCHANGED accepted
      [] OTHER -> /\ accepted' = [snapshot EXCEPT !.details = KeepReadable(@)]
                  /\ error' = "none"

Answer(l, items, details, failed) ==
    /\ loading' = loading \ {l}
    /\ Receive([request |-> l.request, mount |-> l.mount, items |-> items, details |-> details], failed)
    /\ UNCHANGED <<scope, mount, request, active, tabs, live, chosen, revision, rows>>

AnswerPage(l) ==
    l \in loading /\ Ready(l) /\ \E P \in Pages(l.request.scope, l.request.query) : Answer(l, P, l.details, FALSE)

(* A host that does not use the adapter may mix up versions.               *)
AnswerForeign(l) ==
    l \in loading /\ \E i \in Instance : ~ Contains(l.request.scope, i) /\ Answer(l, {i}, l.details, FALSE)

AnswerError(l) == l \in loading /\ Answer(l, {}, <<>>, TRUE)

MonitorInit ==
    /\ scope \in Scope /\ mount = 1 /\ revision = 2
    /\ request = [FirstRequest(scope, <<>>) EXCEPT !.revision = 1]
    /\ accepted = NoSnapshot /\ error = "none"
    /\ active = NoInstance /\ tabs = <<>> /\ live = TRUE /\ chosen = NoInstance
    /\ rows = [i \in Instance |-> [k \in 1 .. FirstRows[i] |-> FirstRows[i] + 1 - k]]
    /\ loading = {Load(request, 1)}

MonitorNext ==
    \/ \E i \in Instance : OpenInstance(i) \/ HostSelects(i) \/ Close(i) \/ LoadMore(i) \/ LogRow(i)
    \/ \E i \in Instance \cup {NoInstance} : ShowTab(i)
    \/ \E f \in DOMAIN Filter : Query(f) \/ ClickBlock(f)
    \/ NextPage \/ PreviousPage \/ Refresh \/ Poll \/ ToggleLive
    \/ \E s \in Scope : Mount(s)
    \/ \E l \in loading : CountRows(l) \/ ReadRows(l) \/ HistoryFails(l)
                          \/ AnswerPage(l) \/ AnswerForeign(l) \/ AnswerError(l)

MonitorSpec == MonitorInit /\ [][MonitorNext]_monitorVars
-----------------------------------------------------------------------------
(* What is on screen was asked for by this mount, for this version: the    *)
(* accepted snapshot answers a request of this mount, it and the open tabs *)
(* hold instances of the mounted version only, and the tabs are exactly    *)
(* the details the request asks for, at most MaxTabs of them, with an      *)
(* active tab that is open.                                                *)
MonitorInv ==
    /\ accepted # NoSnapshot => /\ accepted.mount = mount
                                /\ accepted.request.scope = scope
                                /\ accepted.request.revision <= request.revision
                                /\ \A i \in accepted.items \cup DOMAIN accepted.details : Contains(scope, i)
    /\ tabs = Uuids(request)
    /\ Len(tabs) = Cardinality(Entries(tabs)) /\ Len(tabs) <= MaxTabs
    /\ \A i \in Entries(tabs) : Contains(scope, i)
    /\ active \in Entries(tabs) \cup {NoInstance}
    /\ request.revision < revision

(* While a version stays mounted the accepted data never goes back to an   *)
(* older request, and the log of a tab that stays open never disappears,   *)
(* whatever fails, arrives late or arrives out of order.                   *)
ViewNeverRegresses ==
    [][mount' = mount /\ accepted # NoSnapshot =>
          /\ accepted'.request.revision >= accepted.request.revision
          /\ \A i \in DOMAIN accepted.details \cap Entries(tabs) \cap Entries(tabs') :
                /\ i \in DOMAIN accepted'.details
                /\ accepted.details[i].logs # <<>> => accepted'.details[i].logs # <<>>]_monitorVars

(* A history read in pages while rows are added may repeat a row, but it   *)
(* never skips one that was visible when it began: of those rows it has    *)
(* the newest ones without a gap, while it is read, when it waits in a     *)
(* load for the others, and on screen, also where an error has kept it     *)
(* from an earlier answer.  One that ended without an error is never cut   *)
(* short: it has as many rows as were asked for, or all that its total     *)
(* counts (the offset loop of load_histories, "never silently truncate").  *)
NoGap(old, logs) ==
    \A j, k \in DOMAIN old : j < k /\ old[k] \in Entries(logs) => old[j] \in Entries(logs)

Untruncated(asked, d) == d.error \/ Len(d.logs) >= Smaller(asked.limit, d.total)

Faithful(r, details) ==
    \A i \in DOMAIN details :
        /\ NoGap(details[i].old, details[i].logs)
        /\ \A k \in DOMAIN r.instances :
              r.instances[k].uuid = i => Untruncated(r.instances[k], details[i])

HistoryHasNoGap ==
    /\ \A l \in loading : NoGap(l.old, l.logs) /\ Faithful(l.request, l.details)
    /\ Faithful(accepted.request, accepted.details)
=============================================================================
