--------------------------------- MODULE Demo ---------------------------------
(***************************************************************************)
(* Demo rows beside real ones: app/demo.py, app/cli/seed_demo.py, and what *)
(* the simulator persists.                                                 *)
(*                                                                         *)
(* The rows of one writer, by table, are a group: the gateway's own are    *)
(* real, the seeder's and the simulator's are demo, and a row refers only  *)
(* to rows of its group.  A purge deletes table by table in one            *)
(* transaction; each of its statements sees what has been committed since. *)
(***************************************************************************)
EXTENDS Simulate

CONSTANTS
  Seeds,      \* what _seed may draw: its sessions
  LivePrice,  \* what a real call captures
  MaxLive,    \* bound on the real calls of a behaviour
  MaxPurges   \* bound on its purges

ASSUME DemoAssumption ==
  /\ LivePrice \in Nat /\ MaxLive \in Nat /\ MaxPurges \in Nat
  /\ \A seed \in Seeds : \A i \in DOMAIN seed :
       seed[i].open \in BOOLEAN /\ seed[i].captures \in Seq(Nat) /\ seed[i].declines \in Nat

VARIABLES
  ledger,   \* each group's tables with rows in them, and the sums of its rows
  purging,  \* statements the purge under way has run, 0 when there is none
  gone,     \* what it has deleted and not committed
  purges,   \* purges started
  refused,  \* whether the last purge was refused by a foreign key
  raced     \* whether something was committed while it ran

demoVars == <<ledger, purging, gone, purges, refused, raced>>
showVars == <<simVars, demoVars>>

Groups == {"live", "seed", "sim"}
DemoGroups == {"seed", "sim"}  \* is_demo
\* Foreign keys, child first.
References ==
  {<<"receipt", "call">>, <<"receipt", "pay_session">>, <<"receipt", "batch">>,
   <<"call", "pay_session">>, <<"call", "tool">>, <<"call", "batch">>,
   <<"batch", "pay_session">>, <<"tool", "author">>}
NoRows ==
  [tables |-> {}, billable |-> 0, declined |-> 0, others |-> 0, captured |-> 0,
   counterCalls |-> 0, counterCaptured |-> 0, batched |-> 0, gross |-> 0, fee |-> 0]

\* A transaction of another process, seen by the statements of a purge after it.
Committed(g, rows) ==
  /\ ledger' = [ledger EXCEPT ![g] = rows]
  /\ raced' = (raced \/ purging > 0)
  /\ UNCHANGED <<purging, gone, purges, refused>>

-----------------------------------------------------------------------------
(* Writers *)

\* Mutant of CaptureLive: the tool's counters miss the call.
CaptureLiveUncounted ==
  LET live == ledger["live"]
  IN  /\ live.billable < MaxLive
      /\ Committed("live", [live EXCEPT !.tables = @ \cup {"pay_session", "call", "receipt"},
           !.billable = @ + 1, !.captured = @ + LivePrice])
      /\ UNCHANGED simVars
\* A real call: its row, its session, its receipt and its tool's counters.
CaptureLive ==
  LET live == ledger["live"]
  IN  /\ live.billable < MaxLive
      /\ Committed("live", [live EXCEPT !.tables = @ \cup {"pay_session", "call", "receipt"},
           !.billable = @ + 1, !.captured = @ + LivePrice,
           !.counterCalls = @ + 1, !.counterCaptured = @ + LivePrice])
      /\ UNCHANGED simVars

\* Every real call not yet in a batch is settled in one.
SettleLive ==
  LET live == ledger["live"]
  IN  /\ live.batched < live.billable
      /\ Committed("live", [live EXCEPT !.tables = @ \cup {"batch"}, !.batched = live.billable,
           !.gross = live.captured, !.fee = @ + 2 * Fee])
      /\ UNCHANGED simVars

Drawn(s) == Total(DOMAIN s.captures, s.captures)
IsClosed(s) == ~s.open
SeedRows(seed) ==
  LET sessions == DOMAIN seed
      closed == {i \in sessions : IsClosed(seed[i])}
      Calls(some) == Total(some, [i \in sessions |-> Len(seed[i].captures)])
      Captures(some) == Total(some, [i \in sessions |-> Drawn(seed[i])])
  IN  [tables |-> {"author", "tool"} \cup (IF seed = <<>> THEN {} ELSE {"pay_session", "call"})
                  \cup (IF Calls(sessions) = 0 THEN {} ELSE {"receipt"})
                  \cup (IF closed = {} THEN {} ELSE {"batch"}),
       billable |-> Calls(sessions), others |-> 0,
       declined |-> Total(sessions, [i \in sessions |-> seed[i].declines]),
       captured |-> Captures(sessions),
       counterCalls |-> Calls(sessions), counterCaptured |-> Captures(sessions),
       batched |-> Calls(closed), gross |-> Captures(closed), fee |-> 2 * Fee * Cardinality(closed)]

\* _seed: a second one breaks on the authors' unique slugs, and is rolled back.
Seed(seed) ==
  /\ ledger["seed"].tables = {}
  /\ Committed("seed", SeedRows(seed))
  /\ UNCHANGED simVars

SimRows ==
  [tables |-> {"author", "tool", "pay_session"} \cup (IF records = <<>> THEN {} ELSE {"call"})
              \cup (IF Result.calls = 0 THEN {} ELSE {"batch", "receipt"}),
   billable |-> Result.calls, declined |-> totals.declined,
   others |-> Len(records) - Result.calls - totals.declined, captured |-> totals.captured,
   counterCalls |-> Result.calls, counterCaptured |-> totals.captured,
   batched |-> Result.calls, gross |-> Result.gross, fee |-> IF Result.calls = 0 THEN 0 ELSE Fee]

\* simulate --persist, once the run is closed; the index on nonces may refuse it.
Persist ==
  /\ phase = "closed" /\ NoncesDiffer /\ phase' = "persisted"
  /\ Committed("sim", SimRows)
  /\ UNCHANGED <<args, records, channel, seen, cache, totals>>

-----------------------------------------------------------------------------
(* purge *)

LedgerModels == <<"receipt", "call", "batch", "pay_session", "tool", "author">>

\* A deletion is refused while a row, committed and not deleted, refers to it.
Blocked(table) ==
  \E g \in DemoGroups, child \in ledger["seed"].tables \cup ledger["sim"].tables :
    /\ table \in ledger[g].tables /\ <<child, table>> \in References
    /\ child \in ledger[g].tables /\ <<child, g>> \notin gone

Without(rows, tables) ==
  LET calls == "call" \in tables  tool == "tool" \in tables  batch == "batch" \in tables
  IN  [tables |-> rows.tables \ tables,
       billable |-> IF calls THEN 0 ELSE rows.billable,
       declined |-> IF calls THEN 0 ELSE rows.declined,
       others |-> IF calls THEN 0 ELSE rows.others,
       captured |-> IF calls THEN 0 ELSE rows.captured,
       counterCalls |-> IF tool THEN 0 ELSE rows.counterCalls,
       counterCaptured |-> IF tool THEN 0 ELSE rows.counterCaptured,
       batched |-> IF batch THEN 0 ELSE rows.batched,
       gross |-> IF batch THEN 0 ELSE rows.gross,
       fee |-> IF batch THEN 0 ELSE rows.fee]

StartPurge ==
  /\ purging = 0 /\ purges < MaxPurges
  /\ purging' = 1 /\ purges' = purges + 1 /\ gone' = {} /\ refused' = FALSE /\ raced' = FALSE
  /\ UNCHANGED <<simVars, ledger>>

\* Mutant of DeleteTable: every statement is committed.
DeleteTableCommitted ==
  LET table == LedgerModels[purging]
  IN  /\ purging \in DOMAIN LedgerModels /\ ~Blocked(table)
      /\ ledger' = [g \in Groups |->
           IF g \in DemoGroups THEN Without(ledger[g], {table}) ELSE ledger[g]]
      /\ purging' = purging + 1
      /\ UNCHANGED <<simVars, gone, purges, refused, raced>>
\* One bulk DELETE.
DeleteTable ==
  LET table == LedgerModels[purging]
  IN  /\ purging \in DOMAIN LedgerModels /\ ~Blocked(table)
      /\ gone' = gone \cup {<<table, g>> : g \in {g \in DemoGroups : table \in ledger[g].tables}}
      /\ purging' = purging + 1
      /\ UNCHANGED <<simVars, ledger, purges, refused, raced>>

\* The foreign key objects, and the transaction is rolled back.
PurgeRefused ==
  /\ purging \in DOMAIN LedgerModels /\ Blocked(LedgerModels[purging])
  /\ purging' = 0 /\ gone' = {} /\ refused' = TRUE
  /\ UNCHANGED <<simVars, ledger, purges, raced>>

CommitPurge ==
  /\ purging = Len(LedgerModels) + 1
  /\ ledger' = [g \in Groups |->
       Without(ledger[g], {table \in ledger[g].tables : <<table, g>> \in gone})]
  /\ purging' = 0 /\ gone' = {}
  /\ UNCHANGED <<simVars, purges, refused, raced>>

DemoInit ==
  /\ SimInit
  /\ ledger = [g \in Groups |->
       IF g = "live" THEN [NoRows EXCEPT !.tables = {"author", "tool"}] ELSE NoRows]
  /\ purging = 0 /\ gone = {} /\ purges = 0 /\ refused = FALSE /\ raced = FALSE

DemoNext ==
  \/ SimNext /\ UNCHANGED demoVars
  \/ CaptureLive \/ SettleLive \/ Persist
  \/ \E seed \in Seeds : Seed(seed)
  \/ StartPurge \/ DeleteTable \/ PurgeRefused \/ CommitPurge

-----------------------------------------------------------------------------
\* What the writer of a group has written, when it has written.
Written(g) ==
  IF g = "seed" THEN {SeedRows(seed) : seed \in Seeds}
  ELSE IF phase = "persisted" THEN {SimRows} ELSE {}

\* "Delete every demo row and nothing else" (demo.py:162): a group's rows are
\* there just as they were written or not at all, whatever is written while a
\* purge runs, and a purge nothing was written during is never refused.  Only the
\* tables of a run without a call, which no row holds together, may go in part.
Whole(g) ==
  ledger[g] = NoRows \/ \E rows \in Written(g) :
    \/ ledger[g] = rows
    \/ "call" \notin rows.tables
       /\ \E left \in SUBSET rows.tables : ledger[g] = [NoRows EXCEPT !.tables = left]
PurgeIsWhole ==
  /\ refused => raced
  /\ \A g \in DemoGroups : Whole(g)
=============================================================================
