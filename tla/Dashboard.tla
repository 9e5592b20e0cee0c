------------------------------ MODULE Dashboard ------------------------------
(***************************************************************************)
(* What the dashboard reads: app/ui/queries.py, and the state its pages    *)
(* keep (app/ui/pages).  A page asks for the demo summary when it is       *)
(* opened and never again; its body reads the ledger, statement by         *)
(* statement, when it is opened and whenever a filter is changed.          *)
(***************************************************************************)
EXTENDS Demo

VARIABLE view  \* the page: where it is in its reads, what they said

dashboardVars == <<showVars, view>>

NoFigure == -1
NoPage ==
  [at |-> "closed", page |-> "none", present |-> FALSE, exclude |-> FALSE, load |-> NoFigure,
   first |-> [g \in Groups |-> <<0, 0>>], second |-> [g \in Groups |-> <<0, 0>>],
   written |-> FALSE]

\* demo.summary: whether there is any demo row.
Present == \E g \in DemoGroups : ledger[g].tables # {}

Seen(exclude) == IF exclude THEN Groups \ DemoGroups ELSE Groups
Of(exclude, Figure(_)) ==
  [g \in Groups |-> IF g \in Seen(exclude) THEN Figure(ledger[g]) ELSE <<0, 0>>]

\* tool_rows: the catalogue with its counters, then the calls by tool.
Counters(rows) == <<rows.counterCalls, rows.counterCaptured>>
Aggregates(rows) == <<rows.billable, rows.captured>>
\* realised_fee_load(exclude_demo=True), the overview's headline.
RealisedLoad ==
  LET live == ledger["live"]
  IN  IF live.gross = 0 THEN NoFigure ELSE FeeLoad(live.fee, live.gross)

Open(page) ==
  /\ view.at = "closed"
  /\ view' = [NoPage EXCEPT !.at = "open", !.page = page, !.present = Present]
  /\ UNCHANGED showVars

\* The body, opened or refreshed by a filter; the demo switch is there only when
\* the page found demo rows as it was opened.  The overview's tiles, each a count of
\* its own, are left out.
ReadFirst(exclude) ==
  /\ view.at \in {"open", "shown"} /\ (exclude => view.present)
  /\ view' = [view EXCEPT !.at = "half", !.exclude = exclude, !.written = FALSE,
       !.load = NoFigure, !.second = NoPage.second,
       !.first = IF view.page = "tools" THEN Of(exclude, Counters) ELSE NoPage.first]
  /\ UNCHANGED showVars

ReadSecond ==
  /\ view.at = "half"
  /\ view' = [view EXCEPT !.at = "shown",
       !.second = IF view.page = "tools" THEN Of(view.exclude, Aggregates)
                  ELSE NoPage.second,
       !.load = IF view.page = "overview" THEN RealisedLoad ELSE NoFigure]
  /\ UNCHANGED showVars

ClosePage == view.at = "shown" /\ view' = NoPage /\ UNCHANGED showVars

Write ==
  /\ DemoNext
  /\ view' = [view EXCEPT !.written = @ \/ (view.at = "half" /\ ledger' # ledger)]

DashboardInit == DemoInit /\ view = NoPage
DashboardNext ==
  \/ Write
  \/ \E page \in {"overview", "tools"} : Open(page)
  \/ \E exclude \in BOOLEAN : ReadFirst(exclude)
  \/ ReadSecond \/ ClosePage

DashboardSpec == DashboardInit /\ [][DashboardNext]_dashboardVars

-----------------------------------------------------------------------------
\* "If they ever disagree, say so" (ui/pages/tools.py:156): the tools page shows
\* drift only if rows were committed between its reads; and no seeded row "becomes a
\* claim" (ui/pages/overview.py:139): the overview states a fee load only once a real
\* batch has settled.
FiguresAreHonest ==
  /\ view.page = "tools" /\ view.at = "shown" /\ ~view.written => view.first = view.second
  /\ view.load # NoFigure => ledger["live"].gross > 0
=============================================================================
