-------------------------- MODULE PrintRun_proofs --------------------------
(***************************************************************************)
(* PrintRun for any number of jobs, requests, rows, prints, commands and   *)
(* faults: what the route, the recorder and a restart may do to one row of *)
(* the ledger between them.                                                *)
(***************************************************************************)
EXTENDS PrintRun, TLAPS, SequenceTheorems, FiniteSetTheorems, NaturalsInduction,
        WellFoundedInduction

\* The type invariant, by who changes the variables.  A request knows its job, and
\* the recorder the row it is ending.
LedgerTyped == rows \in Seq(Row) /\ queue \in Seq(Jobs)

RequestsTyped ==
  /\ request \in [Clients ->
       [pc : {"idle", "opening", "sending", "verifying", "dequeuing", "closing"},
        job : MaybeJob, run : 0..Len(rows)]]
  /\ \A c \in Clients : request[c].pc # "idle" => request[c].job \in Jobs

RecorderTyped ==
  /\ rec \in [pc : {"idle", "reconcile", "begin", "open", "find", "close",
                    "pieces", "charge"},
              seen : Reports, ok : BOOLEAN, wasBusy : BOOLEAN,
              run : 0..Len(rows), closed : BOOLEAN]
  /\ rec.pc \in {"close", "pieces", "charge"} => rec.run # 0
  /\ pending \subseteq 1..Len(rows)
  /\ deadline \in {"none", "set", "passed"}

EnvironmentTyped ==
  /\ machine \in [gcode : GcodeStates, print : 0..MaxPrints]
  /\ commands \in Seq(Jobs)
  /\ reported \in Reports
  /\ faults \in 0..MaxFaults
  /\ downPrint \in 0..MaxPrints

Typed == LedgerTyped /\ RequestsTyped /\ RecorderTyped /\ EnvironmentTyped

\* An open row has been closed by nobody and has cost nothing yet.
OpenIsUntouched == \A r \in OpenRuns : rows[r].by = "nobody" /\ rows[r].charged = 0

\* Between the close_run() that told the recorder it was the one to close the row,
\* and the charge, nobody else may make the row look otherwise.
ClosedByRecorder ==
  rec.pc \in {"pieces", "charge"} /\ rec.closed =>
    /\ rows[rec.run].end # "open"
    /\ rows[rec.run].by \in {"recorder", "operator"}
    /\ rows[rec.run].charged = 0
    /\ rec.pc = "charge" => rows[rec.run].pieces

Charging == OpenIsUntouched /\ ClosedByRecorder /\ ChargedByCloser

\* While the print of the last restart goes on, whatever the recorder has been told
\* since then says so, or does not say what the printer is doing.
Survives == Busy /\ machine.print = downPrint

TellsOfSurvivor ==
  /\ Busy => machine.print > 0
  /\ downPrint <= machine.print
  /\ Survives =>
       /\ reported \in BUSY_STATES \cup {"SILENT", "NONE"}
       /\ rec.pc = "reconcile" /\ rec.ok => SeenBusy \/ rec.seen = "NONE"

IInv == Typed /\ Charging /\ NoRowForgotten /\ TellsOfSurvivor

---------------------------------------------------------------------------
(* The helpers.                                                            *)

RowVerdicts == Verdicts \cup {"open"}
Closers == {"nobody", "route", "recorder", "restart", "operator"}
Keepers == {"route", "recorder", "restart", "nobody"}

\* A row with some fields replaced is a row, the same in the others.
LEMMA RowClosed ==
  ASSUME NEW row \in Row, NEW v \in RowVerdicts, NEW b \in Closers
  PROVE  LET new == [row EXCEPT !.end = v, !.by = b]
         IN /\ new \in Row /\ new.end = v /\ new.by = b
            /\ new.charged = row.charged /\ new.pieces = row.pieces
            /\ new.keeper = row.keeper
  BY DEF Row, RowVerdicts, Closers

LEMMA RowKept ==
  ASSUME NEW row \in Row, NEW k \in Keepers
  PROVE  LET new == [row EXCEPT !.keeper = k]
         IN /\ new \in Row /\ new.keeper = k
            /\ new.end = row.end /\ new.by = row.by
            /\ new.charged = row.charged /\ new.pieces = row.pieces
  BY DEF Row, Keepers

LEMMA FunctionIsSeq ==
  ASSUME NEW S, NEW n \in Nat, NEW f \in [1..n -> S]
  PROVE  f \in Seq(S) /\ Len(f) = n
  OBVIOUS

\* close_run() leaves every row but those it closes alone, and those it closes are
\* open.
LEMMA ClosedRowsAre ==
  ASSUME rows \in Seq(Row), NEW runs, NEW v \in RowVerdicts, NEW b \in Closers
  PROVE  /\ ClosedRows(runs, v, b) \in Seq(Row)
         /\ Len(ClosedRows(runs, v, b)) = Len(rows)
         /\ \A r \in 1..Len(rows) :
              ClosedRows(runs, v, b)[r] =
                IF r \in runs /\ Open(r) THEN [rows[r] EXCEPT !.end = v, !.by = b]
                                         ELSE rows[r]
  <1> DEFINE e(r) == IF r \in runs /\ Open(r) THEN [rows[r] EXCEPT !.end = v, !.by = b]
                                              ELSE rows[r]
  <1>1. ASSUME NEW r \in 1..Len(rows) PROVE e(r) \in Row
    <2>1. rows[r] \in Row
      OBVIOUS
    <2> QED
      BY <2>1, RowClosed
  <1>2. ClosedRows(runs, v, b) = [r \in 1..Len(rows) |-> e(r)]
    BY DEF ClosedRows
  <1>3. Len(rows) \in Nat
    OBVIOUS
  <1> DEFINE f == [r \in 1..Len(rows) |-> e(r)]
  <1> HIDE DEF e
  <1>4. f \in [1..Len(rows) -> Row]
    BY <1>1
  <1>5. \A r \in 1..Len(rows) : f[r] = e(r)
    OBVIOUS
  <1> HIDE DEF f
  <1>6. f \in Seq(Row) /\ Len(f) = Len(rows)
    BY <1>3, <1>4, FunctionIsSeq
  <1> QED
    BY <1>2, <1>5, <1>6 DEF e, f

LEMMA KeptByAre ==
  ASSUME rows \in Seq(Row), NEW runs, NEW k \in Keepers
  PROVE  /\ KeptBy(runs, k) \in Seq(Row)
         /\ Len(KeptBy(runs, k)) = Len(rows)
         /\ \A r \in 1..Len(rows) :
              KeptBy(runs, k)[r] = IF r \in runs THEN [rows[r] EXCEPT !.keeper = k]
                                                 ELSE rows[r]
  <1> DEFINE e(r) == IF r \in runs THEN [rows[r] EXCEPT !.keeper = k] ELSE rows[r]
  <1>1. ASSUME NEW r \in 1..Len(rows) PROVE e(r) \in Row
    <2>1. rows[r] \in Row
      OBVIOUS
    <2> QED
      BY <2>1, RowKept
  <1>2. KeptBy(runs, k) = [r \in 1..Len(rows) |-> e(r)]
    BY DEF KeptBy
  <1>3. Len(rows) \in Nat
    OBVIOUS
  <1> DEFINE f == [r \in 1..Len(rows) |-> e(r)]
  <1> HIDE DEF e
  <1>4. f \in [1..Len(rows) -> Row]
    BY <1>1
  <1>5. \A r \in 1..Len(rows) : f[r] = e(r)
    OBVIOUS
  <1> HIDE DEF f
  <1>6. f \in Seq(Row) /\ Len(f) = Len(rows)
    BY <1>3, <1>4, FunctionIsSeq
  <1> QED
    BY <1>2, <1>5, <1>6 DEF e, f

LEMMA NewRowIs ==
  ASSUME rows \in Seq(Row), NEW job \in MaybeJob
  PROVE  LET new == WithNewRow(job)
             n == Len(rows) + 1
         IN /\ new \in Seq(Row) /\ Len(new) = n
            /\ \A r \in 1..Len(rows) : new[r] = rows[r]
            /\ new[n].end = "open" /\ new[n].by = "nobody" /\ new[n].charged = 0
            /\ new[n].keeper = IF job = NoJob THEN "recorder" ELSE "route"
  <1> DEFINE row == [job |-> job, end |-> "open", by |-> "nobody", pieces |-> FALSE,
                     charged |-> 0, keeper |-> IF job = NoJob THEN "recorder" ELSE "route"]
  <1>1. /\ row \in Row /\ row.end = "open" /\ row.by = "nobody" /\ row.charged = 0
        /\ row.keeper = IF job = NoJob THEN "recorder" ELSE "route"
    BY DEF Row
  <1>2. WithNewRow(job) = Append(rows, row)
    BY DEF WithNewRow
  <1> HIDE DEF row
  <1> QED
    BY <1>1, <1>2, AppendProperties

LEMMA WithoutIs ==
  ASSUME NEW s \in Seq(Jobs), NEW j
  PROVE  Without(s, j) \in Seq(Jobs)
  <1> DEFINE at == {i \in DOMAIN s : s[i] = j}
             i == CHOOSE k \in at : TRUE
  <1>1. CASE at = {}
    BY <1>1 DEF Without
  <1>2. CASE at # {}
    <2>1. i \in 1..Len(s)
      BY <1>2
    <2> HIDE DEF at, i
    <2>2. /\ SubSeq(s, 1, i - 1) \in Seq(Jobs)
          /\ SubSeq(s, i + 1, Len(s)) \in Seq(Jobs)
      BY <2>1, SubSeqProperties
    <2>3. Without(s, j) = SubSeq(s, 1, i - 1) \o SubSeq(s, i + 1, Len(s))
      BY <1>2 DEF Without, at, i
    <2> QED
      BY <2>2, <2>3, ConcatProperties
  <1> QED
    BY <1>1, <1>2

\* A nonempty set of natural numbers up to n has a greatest element.
LEMMA GreatestExists ==
  ASSUME NEW n \in Nat, NEW S \in SUBSET (1..n), S # {}
  PROVE  \E m \in S : \A s \in S : s <= m
  <1> DEFINE T == {n - s : s \in S}
             less == OpToRel(<, Nat)
  <1>1. IsWellFoundedOn(less, Nat)
    BY NatLessThanWellFounded
  <1>2. T \subseteq Nat /\ T # {}
    <2>1. \A s \in S : n - s \in Nat
      OBVIOUS
    <2>2. \E s : s \in S
      OBVIOUS
    <2> QED
      BY <2>1, <2>2
  <1>3. \A x, y \in Nat : y < x => <<y, x>> \in less
    BY DEF OpToRel
  <1> HIDE DEF less
  <1>4. PICK x \in T : \A y \in T : ~(<<y, x>> \in less)
    BY <1>1, <1>2, WFMin
  <1>5. PICK m \in S : x = n - m
    OBVIOUS
  <1>6. ASSUME NEW s \in S PROVE s <= m
    <2>1. n - s \in T /\ n - s \in Nat /\ x \in Nat
      OBVIOUS
    <2>2. ~(n - s < x)
      BY <1>3, <1>4, <2>1
    <2> QED
      BY <1>5, <2>2
  <1> QED
    BY <1>6

\* find_open_run() finds an open row if there is one.
LEMMA FindOpenRunIs ==
  ASSUME rows \in Seq(Row)
  PROVE  /\ FindOpenRun = 0 => OpenRuns = {}
         /\ FindOpenRun # 0 => FindOpenRun \in OpenRuns
         /\ FindOpenRun \in 0..Len(rows)
  <1>1. OpenRuns \in SUBSET (1..Len(rows)) /\ Len(rows) \in Nat
    BY DEF OpenRuns
  <1>2. CASE OpenRuns = {}
    BY <1>1, <1>2 DEF FindOpenRun
  <1>3. CASE OpenRuns # {}
    <2> DEFINE newest(m) == m \in OpenRuns /\ \A s \in OpenRuns : s <= m
    <2>1. \E m : newest(m)
      BY <1>1, <1>3, GreatestExists
    <2>2. FindOpenRun = CHOOSE m : newest(m)
      BY <1>3 DEF FindOpenRun
    <2>3. FindOpenRun \in OpenRuns
      BY <2>1, <2>2
    <2> QED
      BY <1>1, <2>3
  <1> QED
    BY <1>2, <1>3

---------------------------------------------------------------------------
(* What a step does to the rows.                                           *)

\* The recorder gives up the runs that a restart left open: the printer reports and
\* is not printing, or it has been silent for too long.
GivesUp ==
  /\ Reconcile
  /\ rec.ok => ~SeenBusy
  /\ rec.ok \/ deadline = "passed"

\* What every step but the charge may do to the rows: a row may be closed, and an
\* operator may change the verdict on one; it costs what it cost; it may lose the
\* request that was to close it; only a restart makes it one left by a restart, and a
\* row that is new is open and untouched.
Orderly ==
  /\ rows' \in Seq(Row) /\ Len(rows) <= Len(rows')
  /\ \A r \in 1..Len(rows) :
       /\ rows'[r].charged = rows[r].charged
       /\ rows[r].pieces => rows'[r].pieces
       /\ rows'[r].end = "open" => rows[r].end = "open" /\ rows'[r].by = rows[r].by
       /\ rows'[r].by = "restart" => rows[r].by = "restart" \/ GivesUp
       /\ rows'[r].keeper = "route" => rows[r].keeper = "route"
       /\ rows'[r].keeper = "restart" => rows[r].keeper = "restart" \/ Restart
       /\ rows[r].end # "open" =>
            \/ rows'[r].end = rows[r].end /\ rows'[r].by = rows[r].by
            \/ rows'[r].by = "operator"
  /\ \A r \in 1..Len(rows') :
       r > Len(rows) =>
         /\ rows'[r].end = "open" /\ rows'[r].by = "nobody" /\ rows'[r].charged = 0
         /\ rows'[r].keeper # "restart"

LEMMA SameRowsOrderly ==
  ASSUME LedgerTyped, UNCHANGED rows
  PROVE  Orderly
  BY DEF LedgerTyped, Orderly

LEMMA ClosingOrderly ==
  ASSUME LedgerTyped, NEW runs, NEW v \in Verdicts, NEW b \in Closers,
         rows' = ClosedRows(runs, v, b), b = "restart" => GivesUp
  PROVE  Orderly
  <1>1. /\ rows \in Seq(Row) /\ Len(rows) \in Nat /\ v \in RowVerdicts /\ v # "open"
        /\ \A r \in 1..Len(rows) : rows[r] \in Row
    BY DEF LedgerTyped, RowVerdicts, Verdicts
  <1> DEFINE new(r) == [rows[r] EXCEPT !.end = v, !.by = b]
  <1>2. /\ rows' \in Seq(Row) /\ Len(rows') = Len(rows)
        /\ \A r \in 1..Len(rows) :
             rows'[r] = IF r \in runs /\ Open(r) THEN new(r) ELSE rows[r]
    BY <1>1, ClosedRowsAre
  <1>3. ASSUME NEW r \in 1..Len(rows)
        PROVE  /\ new(r).end = v /\ new(r).by = b /\ new(r).charged = rows[r].charged
               /\ new(r).pieces = rows[r].pieces /\ new(r).keeper = rows[r].keeper
    <2>1. rows[r] \in Row
      BY <1>1
    <2> QED
      BY <1>1, <2>1 DEF Row, RowVerdicts, Closers
  <1> HIDE DEF new
  <1> QED
    BY <1>1, <1>2, <1>3 DEF Orderly, Open

LEMMA KeepingOrderly ==
  ASSUME LedgerTyped, NEW runs, NEW k \in {"recorder", "nobody", "restart"},
         rows' = KeptBy(runs, k), k = "restart" => Restart
  PROVE  Orderly
  <1>1. /\ rows \in Seq(Row) /\ Len(rows) \in Nat /\ k \in Keepers /\ k # "route"
        /\ \A r \in 1..Len(rows) : rows[r] \in Row
    BY DEF LedgerTyped, Keepers
  <1> DEFINE new(r) == [rows[r] EXCEPT !.keeper = k]
  <1>2. /\ rows' \in Seq(Row) /\ Len(rows') = Len(rows)
        /\ \A r \in 1..Len(rows) : rows'[r] = IF r \in runs THEN new(r) ELSE rows[r]
    BY <1>1, KeptByAre
  <1>3. ASSUME NEW r \in 1..Len(rows)
        PROVE  /\ new(r).end = rows[r].end /\ new(r).by = rows[r].by
               /\ new(r).keeper = k
               /\ new(r).charged = rows[r].charged /\ new(r).pieces = rows[r].pieces
    <2>1. rows[r] \in Row
      BY <1>1
    <2> QED
      BY <1>1, <2>1, RowKept
  <1> HIDE DEF new
  <1> QED
    BY <1>1, <1>2, <1>3 DEF Orderly

\* Rows that are closed are not open, and rows that are handed over are handed over.
LEMMA Shut ==
  ASSUME LedgerTyped, NEW runs, NEW v \in Verdicts, NEW b \in Closers,
         rows' = ClosedRows(runs, v, b)
  PROVE  /\ Len(rows') = Len(rows)
         /\ \A r \in 1..Len(rows) : r \in runs => rows'[r].end # "open"
  <1>1. /\ rows \in Seq(Row) /\ v \in RowVerdicts /\ v # "open"
        /\ \A r \in 1..Len(rows) : rows[r] \in Row
    BY DEF LedgerTyped, RowVerdicts, Verdicts
  <1> DEFINE new(r) == [rows[r] EXCEPT !.end = v, !.by = b]
  <1>2. /\ Len(rows') = Len(rows)
        /\ \A r \in 1..Len(rows) :
             rows'[r] = IF r \in runs /\ Open(r) THEN new(r) ELSE rows[r]
    BY <1>1, ClosedRowsAre
  <1>3. \A r \in 1..Len(rows) : new(r).end = v
    BY <1>1 DEF Row
  <1> HIDE DEF new
  <1> QED
    BY <1>1, <1>2, <1>3 DEF Open

LEMMA HandedOver ==
  ASSUME LedgerTyped, NEW runs, NEW k \in {"recorder", "nobody", "restart"},
         rows' = KeptBy(runs, k)
  PROVE  /\ Len(rows') = Len(rows)
         /\ \A r \in 1..Len(rows) : r \in runs => rows'[r].keeper = k
         /\ \A r \in 1..Len(rows) : rows'[r].end = rows[r].end
  <1>1. /\ rows \in Seq(Row) /\ k \in Keepers
        /\ \A r \in 1..Len(rows) : rows[r] \in Row
    BY DEF LedgerTyped, Keepers
  <1> DEFINE new(r) == [rows[r] EXCEPT !.keeper = k]
  <1>2. /\ Len(rows') = Len(rows)
        /\ \A r \in 1..Len(rows) : rows'[r] = IF r \in runs THEN new(r) ELSE rows[r]
    BY <1>1, KeptByAre
  <1>3. \A r \in 1..Len(rows) : new(r).keeper = k /\ new(r).end = rows[r].end
    BY <1>1 DEF Row
  <1> HIDE DEF new
  <1> QED
    BY <1>2, <1>3

LEMMA OpeningOrderly ==
  ASSUME LedgerTyped, NEW job \in MaybeJob, rows' = WithNewRow(job)
  PROVE  /\ Orderly /\ Len(rows') = Len(rows) + 1
         /\ rows'[Len(rows')].keeper = IF job = NoJob THEN "recorder" ELSE "route"
  <1>1. rows \in Seq(Row) /\ Len(rows) \in Nat
    BY DEF LedgerTyped
  <1>2. /\ rows' \in Seq(Row) /\ Len(rows') = Len(rows) + 1
        /\ \A r \in 1..Len(rows) : rows'[r] = rows[r]
        /\ rows'[Len(rows) + 1].end = "open" /\ rows'[Len(rows) + 1].by = "nobody"
        /\ rows'[Len(rows) + 1].charged = 0
        /\ rows'[Len(rows) + 1].keeper = IF job = NoJob THEN "recorder" ELSE "route"
    BY <1>1, NewRowIs
  <1> QED
    BY <1>1, <1>2 DEF Orderly

\* One row changed in place.
LEMMA RowReplaced ==
  ASSUME LedgerTyped, NEW r \in 1..Len(rows), NEW new \in Row,
         rows' = [rows EXCEPT ![r] = new]
  PROVE  /\ rows' \in Seq(Row) /\ Len(rows') = Len(rows)
         /\ \A s \in 1..Len(rows) : rows'[s] = IF s = r THEN new ELSE rows[s]
  BY ExceptSeq DEF LedgerTyped

LEMMA PatchOrderly ==
  ASSUME LedgerTyped, NEW r \in RunIds, PatchRun(r)
  PROVE  Orderly /\ Len(rows') = Len(rows)
  <1> DEFINE new == [rows[r] EXCEPT !.end = "FINISH", !.by = "operator"]
  <1>1. r \in 1..Len(rows) /\ rows[r] \in Row /\ Len(rows) \in Nat
    BY DEF PatchRun, RunIds, LedgerTyped
  <1>2. /\ new \in Row /\ new.end = "FINISH" /\ new.by = "operator"
        /\ new.charged = rows[r].charged /\ new.pieces = rows[r].pieces
        /\ new.keeper = rows[r].keeper
    BY <1>1 DEF Row, Verdicts
  <1>3. rows' = [rows EXCEPT ![r] = new]
    BY <1>1 DEF PatchRun, LedgerTyped
  <1> HIDE DEF new
  <1>4. /\ rows' \in Seq(Row) /\ Len(rows') = Len(rows)
        /\ \A s \in 1..Len(rows) : rows'[s] = IF s = r THEN new ELSE rows[s]
    BY <1>1, <1>2, <1>3, RowReplaced
  <1> QED
    BY <1>1, <1>2, <1>4 DEF Orderly

LEMMA PiecesOrderly ==
  ASSUME LedgerTyped, RecorderTyped, CreatePieces
  PROVE  Orderly /\ Len(rows') = Len(rows) /\ rows'[rec.run].pieces = TRUE
  <1> DEFINE r == rec.run
             new == [rows[r] EXCEPT !.pieces = TRUE]
  <1>1. r \in 1..Len(rows) /\ rows[r] \in Row /\ Len(rows) \in Nat
    BY DEF CreatePieces, RecAt, LedgerTyped, RecorderTyped
  <1>2. /\ new \in Row /\ new.end = rows[r].end /\ new.by = rows[r].by
        /\ new.charged = rows[r].charged /\ new.pieces = TRUE
        /\ new.keeper = rows[r].keeper
    BY <1>1 DEF Row
  <1>3. rows' = [rows EXCEPT ![r] = new]
    BY <1>1 DEF CreatePieces, LedgerTyped
  <1> HIDE DEF new, r
  <1>4. /\ rows' \in Seq(Row) /\ Len(rows') = Len(rows)
        /\ \A s \in 1..Len(rows) : rows'[s] = IF s = r THEN new ELSE rows[s]
    BY <1>1, <1>2, <1>3, RowReplaced
  <1>5. Orderly /\ Len(rows') = Len(rows) /\ rows'[r].pieces = TRUE
    BY <1>1, <1>2, <1>4 DEF Orderly
  <1> QED
    BY <1>5 DEF r

\* The charge changes what one row has cost, and nothing else.
LEMMA ChargeIs ==
  ASSUME LedgerTyped, RecorderTyped, AddConsumption
  PROVE  /\ rows' \in Seq(Row) /\ Len(rows') = Len(rows)
         /\ \A s \in 1..Len(rows) :
              /\ rows'[s].end = rows[s].end /\ rows'[s].by = rows[s].by
              /\ rows'[s].pieces = rows[s].pieces /\ rows'[s].keeper = rows[s].keeper
              /\ rows'[s].charged =
                   IF s = rec.run /\ rec.closed /\ rows[s].job # NoJob
                     THEN rows[s].charged + 1 ELSE rows[s].charged
  <1> DEFINE r == rec.run
             new == [rows[r] EXCEPT !.charged = @ + 1]
  <1>1. r \in 1..Len(rows) /\ rows[r] \in Row /\ Len(rows) \in Nat
    BY DEF AddConsumption, RecAt, LedgerTyped, RecorderTyped
  <1>2. /\ new \in Row /\ new.end = rows[r].end /\ new.by = rows[r].by
        /\ new.charged = rows[r].charged + 1 /\ new.pieces = rows[r].pieces
        /\ new.keeper = rows[r].keeper
    BY <1>1 DEF Row
  <1>3. rows' = IF rec.closed /\ rows[r].job # NoJob
                  THEN [rows EXCEPT ![r] = new] ELSE rows
    BY <1>1 DEF AddConsumption, LedgerTyped
  <1>4. CASE rec.closed /\ rows[r].job # NoJob
    <2> HIDE DEF new, r
    <2>1. rows' = [rows EXCEPT ![r] = new]
      BY <1>3, <1>4
    <2>2. /\ rows' \in Seq(Row) /\ Len(rows') = Len(rows)
          /\ \A s \in 1..Len(rows) : rows'[s] = IF s = r THEN new ELSE rows[s]
      BY <1>1, <1>2, <2>1, RowReplaced
    <2> QED
      BY <1>2, <1>4, <2>2 DEF r
  <1>5. CASE ~(rec.closed /\ rows[r].job # NoJob)
    <2> HIDE DEF new
    <2> QED
      BY <1>3, <1>5 DEF LedgerTyped
  <1> QED
    BY <1>4, <1>5

---------------------------------------------------------------------------
(* Types.                                                                  *)

USE RunAssumption

LEMMA InitTyped == Init => Typed
  <1> SUFFICES ASSUME Init PROVE Typed
    OBVIOUS
  <1>1. queue \in Seq(Jobs)
    <2>1. Cardinality(Jobs) \in Nat
      BY FS_CardinalityType
    <2>2. queue \in [1..Cardinality(Jobs) -> Jobs]
      BY DEF Init
    <2> QED
      BY <2>1, <2>2, FunctionIsSeq
  <1>2. LedgerTyped
    BY <1>1 DEF Init, LedgerTyped
  <1>3. Len(rows) = 0
    BY DEF Init
  <1>4. RequestsTyped
    BY <1>3 DEF Init, RequestsTyped, NoRequest, MaybeJob
  <1>5. RecorderTyped
    <2>1. /\ rec = FreshRecorder /\ "NONE" \in Reports /\ 0 \in 0..Len(rows)
          /\ pending = {} /\ deadline = "set"
      BY <1>3 DEF Init, Reports
    <2> QED
      BY <2>1 DEF RecorderTyped, FreshRecorder
  <1>6. EnvironmentTyped
    BY DEF Init, EnvironmentTyped, GcodeStates, TERMINAL_STATES, Reports
  <1> QED
    BY <1>2, <1>4, <1>5, <1>6 DEF Typed

\* The ledger only grows, so numbers of rows stay numbers of rows.
LEMMA GrowthTyped ==
  ASSUME LedgerTyped, LedgerTyped', Len(rows) <= Len(rows')
  PROVE  /\ RequestsTyped /\ UNCHANGED request => RequestsTyped'
         /\ RecorderTyped /\ UNCHANGED recorder => RecorderTyped'
  <1>1. 0..Len(rows) \subseteq 0..Len(rows') /\ 1..Len(rows) \subseteq 1..Len(rows')
    BY DEF LedgerTyped
  <1>2. RequestsTyped /\ UNCHANGED request => RequestsTyped'
    BY <1>1 DEF RequestsTyped
  <1>3. RecorderTyped /\ UNCHANGED recorder => RecorderTyped'
    BY <1>1 DEF RecorderTyped, recorder
  <1> QED
    BY <1>2, <1>3

LEMMA EnvironmentStepTyped ==
  ASSUME Typed, Environment
  PROVE  Typed'
  <1> USE DEF Typed, GcodeStates, BUSY_STATES, TERMINAL_STATES, Reports
  <1>1. UNCHANGED <<queue, rows, request, recorder, faults, downPrint>>
    BY DEF Environment, TakeCommand, StartAtScreen, MachineMoves, Report, Reconnect
  <1>2. LedgerTyped' /\ RequestsTyped' /\ RecorderTyped'
    BY <1>1 DEF LedgerTyped, RequestsTyped, RecorderTyped, recorder
  <1>3. machine' \in [gcode : GcodeStates, print : 0..MaxPrints]
    BY DEF EnvironmentTyped, Environment, TakeCommand, StartAtScreen, MachineMoves,
           Report, Reconnect, Begin, Becomes
  <1>4. commands' \in Seq(Jobs)
    <2>1. commands # <<>> => Tail(commands) \in Seq(Jobs)
      BY DEF EnvironmentTyped
    <2>2. commands' = commands \/ (commands # <<>> /\ commands' = Tail(commands))
      BY DEF Environment, TakeCommand, StartAtScreen, MachineMoves, Report, Reconnect
    <2> QED
      BY <2>1, <2>2 DEF EnvironmentTyped
  <1>5. reported' \in Reports
    BY DEF EnvironmentTyped, Environment, TakeCommand, StartAtScreen, MachineMoves,
           Report, Reconnect
  <1> QED
    BY <1>1, <1>2, <1>3, <1>4, <1>5 DEF EnvironmentTyped

LEMMA UsersStepTyped ==
  ASSUME Typed, Users
  PROVE  Typed'
  <1> USE DEF Typed
  <1>1. UNCHANGED <<environment, recorder, downPrint>>
    BY DEF Users, RemoveQueueJob, ReorderQueue, PatchRun, RequestStart
  <1>2. CASE \E j \in Jobs : RemoveQueueJob(j) \/ ReorderQueue(j)
    <2> PICK j \in Jobs : RemoveQueueJob(j) \/ ReorderQueue(j)
      BY <1>2
    <2>1. Without(queue, j) \in Seq(Jobs) /\ <<j>> \in Seq(Jobs)
      BY WithoutIs DEF LedgerTyped
    <2>2. queue' \in Seq(Jobs) /\ UNCHANGED <<rows, request, faults>>
      BY <2>1, ConcatProperties DEF RemoveQueueJob, ReorderQueue
    <2> QED
      BY <1>1, <2>2 DEF LedgerTyped, RequestsTyped, RecorderTyped, EnvironmentTyped,
                        environment, recorder
  <1>3. CASE \E r \in RunIds : PatchRun(r)
    <2> PICK r \in RunIds : PatchRun(r)
      BY <1>3
    <2>1. r \in 1..Len(rows) /\ faults' \in 0..MaxFaults /\ UNCHANGED <<queue, request>>
      BY DEF PatchRun, RunIds, EnvironmentTyped, LedgerTyped
    <2>2. rows[r] \in Row
      BY <2>1 DEF LedgerTyped
    <2>3. [rows[r] EXCEPT !.end = "FINISH", !.by = "operator"] \in Row
      <3>1. "FINISH" \in RowVerdicts /\ "operator" \in Closers
        BY DEF RowVerdicts, Verdicts, Closers
      <3> QED
        BY <2>2, <3>1, RowClosed
    <2>4. rows' = [rows EXCEPT ![r] = [rows[r] EXCEPT !.end = "FINISH", !.by = "operator"]]
      BY <2>1 DEF PatchRun, LedgerTyped
    <2>5. rows' \in Seq(Row) /\ Len(rows') = Len(rows)
      BY <2>1, <2>3, <2>4, ExceptSeq DEF LedgerTyped
    <2> QED
      BY <1>1, <2>1, <2>5 DEF LedgerTyped, RequestsTyped, RecorderTyped, EnvironmentTyped,
                              environment, recorder
  <1>4. CASE \E c \in Clients : RequestStart(c)
    <2> PICK c \in Clients : RequestStart(c)
      BY <1>4
    <2>1. Head(queue) \in Jobs
      BY DEF RequestStart, LedgerTyped
    <2>2. /\ request' = [request EXCEPT ![c] = [pc |-> "opening", job |-> Head(queue), run |-> 0]]
          /\ UNCHANGED <<rows, queue, faults>>
      BY DEF RequestStart
    <2>3. RequestsTyped'
      BY <2>1, <2>2 DEF RequestsTyped, MaybeJob, LedgerTyped
    <2> QED
      BY <1>1, <2>2, <2>3 DEF LedgerTyped, RecorderTyped, EnvironmentTyped, environment,
                              recorder
  <1> QED
    BY <1>2, <1>3, <1>4 DEF Users

\* A request that goes on, with the row it had.
LEMMA GotoTyped ==
  ASSUME RequestsTyped, NEW c \in Clients, UNCHANGED rows,
         \/ /\ request[c].pc # "idle"
            /\ \E p \in {"sending", "verifying", "dequeuing", "closing"} : Goto(c, p)
         \/ request' = [request EXCEPT ![c] = NoRequest]
  PROVE  RequestsTyped'
  <1>1. NoRequest \in [pc : {"idle"}, job : MaybeJob, run : {0}]
    BY DEF NoRequest, MaybeJob
  <1>2. CASE request' = [request EXCEPT ![c] = NoRequest]
    BY <1>1, <1>2 DEF RequestsTyped, NoRequest
  <1>3. CASE /\ request[c].pc # "idle"
             /\ \E p \in {"sending", "verifying", "dequeuing", "closing"} : Goto(c, p)
    BY <1>3, SMTT(40) DEF RequestsTyped, Goto
  <1> QED
    BY <1>2, <1>3

LEMMA RouteStepTyped ==
  ASSUME Typed, NEW c \in Clients, Route(c)
  PROVE  Typed' /\ Len(rows) <= Len(rows')
  <1> USE DEF Typed
  <1>0. /\ UNCHANGED <<machine, reported, recorder, downPrint>>
        /\ request[c].job \in Jobs /\ request[c].pc # "idle"
        /\ faults' \in 0..MaxFaults /\ Len(rows) \in Nat
    BY DEF Route, OpenRun, SendStart, Verify, Dequeue, CloseUnconfirmed, RequestsTyped,
           EnvironmentTyped, environment, At, LedgerTyped
  <1>1. CASE UNCHANGED <<rows, queue>> /\ commands' \in Seq(Jobs) /\ RequestsTyped'
    BY <1>0, <1>1 DEF LedgerTyped, RecorderTyped, EnvironmentTyped, recorder
  <1>2. CASE OpenRun(c)
    <2>1. CASE UNCHANGED rows
      <3>1. UNCHANGED <<queue, commands>> /\ RequestsTyped'
        <4>1. rows' # WithNewRow(request[c].job)
          BY <1>0, <2>1, NewRowIs DEF LedgerTyped, MaybeJob
        <4> QED
          BY <1>0, <1>2, <2>1, <4>1, GotoTyped DEF OpenRun, environment
      <3> QED
        BY <1>1, <2>1, <3>1 DEF EnvironmentTyped
    <2>2. CASE /\ rows' = WithNewRow(request[c].job)
               /\ request' = [request EXCEPT ![c].pc = "sending", ![c].run = Len(rows) + 1]
      <3>1. rows' \in Seq(Row) /\ Len(rows') = Len(rows) + 1
        BY <1>0, <2>2, NewRowIs DEF LedgerTyped, MaybeJob
      <3>2. RequestsTyped'
        BY <1>0, <2>2, <3>1 DEF RequestsTyped, LedgerTyped
      <3>3. LedgerTyped' /\ UNCHANGED <<commands, queue>>
        BY <1>2, <3>1 DEF LedgerTyped, OpenRun, environment
      <3>4. RecorderTyped'
        BY <1>0, <3>1, <3>3, GrowthTyped
      <3> QED
        BY <1>0, <3>1, <3>2, <3>3, <3>4 DEF EnvironmentTyped
    <2> QED
      BY <1>2, <2>1, <2>2 DEF OpenRun
  <1>3. CASE SendStart(c)
    <2>1. commands' \in Seq(Jobs)
      <3>1. Append(commands, request[c].job) \in Seq(Jobs)
        BY <1>0, AppendProperties DEF EnvironmentTyped
      <3>2. commands' \in {commands, Append(commands, request[c].job)}
        BY <1>3 DEF SendStart, Publish
      <3> QED
        BY <3>1, <3>2 DEF EnvironmentTyped
    <2>2. UNCHANGED <<rows, queue>> /\ (Goto(c, "closing") \/ Goto(c, "verifying"))
      BY <1>3 DEF SendStart
    <2> QED
      BY <1>0, <1>1, <2>1, <2>2, GotoTyped
  <1>4. CASE Verify(c)
    <2>1. LedgerTyped' /\ Len(rows') = Len(rows)
      BY <1>4, KeptByAre DEF Verify, LedgerTyped, Keepers
    <2>2. UNCHANGED <<commands, queue>> /\ (Goto(c, "closing") \/ Goto(c, "dequeuing"))
      BY <1>4 DEF Verify, environment
    <2>3. RequestsTyped'
      BY <1>0, <2>1, <2>2 DEF RequestsTyped, Goto
    <2> QED
      BY <1>0, <2>1, <2>2, <2>3, GrowthTyped DEF EnvironmentTyped
  <1>5. CASE Dequeue(c)
    <2>1. queue' \in Seq(Jobs)
      BY <1>5, WithoutIs DEF Dequeue, LedgerTyped
    <2>2. UNCHANGED <<rows, commands>> /\ request' = [request EXCEPT ![c] = NoRequest]
      BY <1>5 DEF Dequeue, environment
    <2>3. RequestsTyped'
      BY <2>2, GotoTyped
    <2> QED
      BY <1>0, <2>1, <2>2, <2>3 DEF LedgerTyped, RecorderTyped, EnvironmentTyped, recorder
  <1>6. CASE CloseUnconfirmed(c)
    <2>1. LedgerTyped' /\ Len(rows') = Len(rows)
      <3>1. /\ "START_UNCONFIRMED" \in RowVerdicts /\ "route" \in Closers
            /\ "nobody" \in Keepers /\ rows \in Seq(Row) /\ UNCHANGED queue
        BY <1>6 DEF CloseUnconfirmed, LedgerTyped, RowVerdicts, Verdicts, Closers, Keepers
      <3>2. \/ rows' = ClosedRows({request[c].run}, "START_UNCONFIRMED", "route")
            \/ rows' = KeptBy({request[c].run}, "nobody")
        BY <1>6 DEF CloseUnconfirmed
      <3>3. LET closed == ClosedRows({request[c].run}, "START_UNCONFIRMED", "route")
            IN closed \in Seq(Row) /\ Len(closed) = Len(rows)
        BY <3>1, ClosedRowsAre
      <3>4. LET kept == KeptBy({request[c].run}, "nobody")
            IN kept \in Seq(Row) /\ Len(kept) = Len(rows)
        BY <3>1, KeptByAre
      <3>5. rows' \in Seq(Row) /\ Len(rows') = Len(rows)
        BY <3>2, <3>3, <3>4
      <3> QED
        BY <3>1, <3>5 DEF LedgerTyped
    <2>2. UNCHANGED <<commands, queue>> /\ request' = [request EXCEPT ![c] = NoRequest]
      BY <1>6 DEF CloseUnconfirmed, environment
    <2>3. RequestsTyped'
      BY <1>0, <2>1, <2>2 DEF RequestsTyped, NoRequest, MaybeJob
    <2> QED
      BY <1>0, <2>1, <2>2, <2>3, GrowthTyped DEF EnvironmentTyped
  <1> QED
    BY <1>2, <1>3, <1>4, <1>5, <1>6 DEF Route

\* A tick that goes on, or is done, with a recorder that has no row in hand.
LEMMA TickEnds ==
  ASSUME RecorderTyped, NEW seen \in Reports
  PROVE  /\ Compared(seen) \in [pc : {"idle", "begin", "find"}, seen : Reports,
                                ok : BOOLEAN, wasBusy : BOOLEAN, run : {0},
                                closed : BOOLEAN]
         /\ Done \in [pc : {"idle"}, seen : Reports, ok : BOOLEAN,
                      wasBusy : BOOLEAN, run : {0}, closed : BOOLEAN]
  <1>1. "NONE" \in Reports
    BY DEF Reports
  <1>2. Done \in [pc : {"idle"}, seen : Reports, ok : BOOLEAN,
                  wasBusy : BOOLEAN, run : {0}, closed : BOOLEAN]
    BY <1>1 DEF Done, FreshRecorder, RecorderTyped
  <1> DEFINE p == CASE seen \in BUSY_STATES /\ ~rec.wasBusy -> "begin"
                    [] seen \notin BUSY_STATES /\ rec.wasBusy
                       /\ seen \in TERMINAL_STATES -> "find"
                    [] OTHER -> "idle"
             v == IF rec.wasBusy /\ seen \in TERMINAL_STATES THEN seen ELSE "NONE"
             b == seen \in BUSY_STATES
  <1>3. p \in {"idle", "begin", "find"} /\ v \in Reports /\ b \in BOOLEAN
    BY <1>1
  <1>4. Compared(seen) = [FreshRecorder EXCEPT !.wasBusy = b, !.pc = p, !.seen = v]
    BY DEF Compared
  <1> HIDE DEF p, v, b
  <1>5. Compared(seen) \in [pc : {"idle", "begin", "find"}, seen : Reports,
                            ok : BOOLEAN, wasBusy : BOOLEAN, run : {0}, closed : BOOLEAN]
    BY <1>3, <1>4 DEF FreshRecorder
  <1> QED
    BY <1>2, <1>5

LEMMA RouteOrderly ==
  ASSUME Typed, NEW c \in Clients, Route(c)
  PROVE  Orderly
  <1>0. LedgerTyped /\ request[c].pc # "idle" /\ request[c].job \in MaybeJob
    BY DEF Route, OpenRun, SendStart, Verify, Dequeue, CloseUnconfirmed, At, Typed,
           RequestsTyped, MaybeJob
  <1>1. CASE UNCHANGED rows
    BY <1>0, <1>1, SameRowsOrderly
  <1>2. CASE OpenRun(c)
    BY <1>0, <1>1, <1>2, OpeningOrderly DEF OpenRun
  <1>3. CASE Verify(c)
    <2>1. UNCHANGED rows \/ rows' = KeptBy({request[c].run}, "recorder")
      BY <1>3 DEF Verify
    <2> QED
      BY <1>0, <1>1, <2>1, KeepingOrderly
  <1>4. CASE CloseUnconfirmed(c)
    <2>1. CASE rows' = ClosedRows({request[c].run}, "START_UNCONFIRMED", "route")
      <3>1. "START_UNCONFIRMED" \in Verdicts /\ "route" \in Closers
        BY DEF Verdicts, Closers
      <3> QED
        BY <1>0, <2>1, <3>1, ClosingOrderly
    <2>2. CASE rows' = KeptBy({request[c].run}, "nobody")
      BY <1>0, <2>2, KeepingOrderly
    <2> QED
      BY <1>4, <2>1, <2>2 DEF CloseUnconfirmed
  <1> QED
    BY <1>1, <1>2, <1>3, <1>4 DEF Route, SendStart, Dequeue

LEMMA TickOrderly ==
  ASSUME Typed, Tick, ~AddConsumption
  PROVE  Orderly
  <1>0. LedgerTyped /\ RecorderTyped
    BY DEF Typed
  <1>1. CASE UNCHANGED rows
    BY <1>0, <1>1, SameRowsOrderly
  <1>2. CASE Reconcile
    <2>1. UNCHANGED rows \/ GivesUp \/ rows' = KeptBy(pending, "recorder")
      BY <1>2 DEF Reconcile, GivesUp
    <2>2. "UNKNOWN" \in Verdicts /\ "restart" \in Closers
      BY DEF Verdicts, Closers
    <2>3. CASE GivesUp
      <3>1. rows' = ClosedRows(pending, "UNKNOWN", "restart")
        BY <2>3 DEF GivesUp, Reconcile
      <3> QED
        BY <1>0, <2>2, <2>3, <3>1, ClosingOrderly
    <2>4. CASE rows' = KeptBy(pending, "recorder")
      BY <1>0, <2>4, KeepingOrderly
    <2> QED
      BY <1>1, <2>1, <2>3, <2>4
  <1>3. CASE OpenUnattributed
    <2>1. UNCHANGED rows \/ rows' = WithNewRow(NoJob)
      BY <1>3 DEF OpenUnattributed
    <2> QED
      BY <1>0, <1>1, <2>1, OpeningOrderly DEF MaybeJob
  <1>4. CASE CloseRun
    <2>1. EndState \in Verdicts /\ "recorder" \in Closers
      BY DEF EndState, Verdicts, Closers
    <2>2. rows' = ClosedRows({rec.run}, EndState, "recorder")
      BY <1>4 DEF CloseRun
    <2> HIDE DEF EndState
    <2> QED
      BY <1>0, <2>1, <2>2, ClosingOrderly
  <1>5. CASE CreatePieces
    BY <1>0, <1>5, PiecesOrderly
  <1> QED
    BY <1>1, <1>2, <1>3, <1>4, <1>5 DEF Tick, Poll, AdoptRun, FindRun

LEMMA NextOrderly ==
  ASSUME Typed, [Next]_vars, ~AddConsumption
  PROVE  Orderly
  <1>0. LedgerTyped
    BY DEF Typed
  <1>1. CASE UNCHANGED rows
    BY <1>0, <1>1, SameRowsOrderly
  <1>2. CASE Environment
    BY <1>1, <1>2 DEF Environment, TakeCommand, StartAtScreen, MachineMoves, Report, Reconnect
  <1>3. CASE Users
    <2>1. UNCHANGED rows \/ \E r \in RunIds : PatchRun(r)
      BY <1>3 DEF Users, RemoveQueueJob, ReorderQueue, RequestStart
    <2> QED
      BY <1>0, <1>1, <2>1, PatchOrderly
  <1>4. CASE \E c \in Clients : Route(c)
    BY <1>4, RouteOrderly
  <1>5. CASE Tick
    BY <1>5, TickOrderly
  <1>6. CASE RecorderFails \/ DeadlinePasses \/ UNCHANGED vars
    BY <1>1, <1>6 DEF RecorderFails, DeadlinePasses, vars
  <1>7. CASE Restart
    <2>1. rows' = KeptBy(OpenRuns, "restart")
      BY <1>7 DEF Restart
    <2> QED
      BY <1>0, <1>7, <2>1, KeepingOrderly
  <1> QED
    BY <1>2, <1>3, <1>4, <1>5, <1>6, <1>7 DEF Next

LEMMA TickStepTyped ==
  ASSUME Typed, Tick
  PROVE  Typed'
  <1>0. /\ UNCHANGED <<environment, queue, request, deadline, faults, downPrint>>
        /\ LedgerTyped /\ RequestsTyped /\ RecorderTyped /\ EnvironmentTyped
    BY DEF Typed, Tick, Poll, Reconcile, AdoptRun, OpenUnattributed, FindRun, CloseRun,
           CreatePieces, AddConsumption
  <1>1. rows' \in Seq(Row) /\ Len(rows) <= Len(rows')
    <2>1. CASE AddConsumption
      BY <1>0, <2>1, ChargeIs DEF LedgerTyped
    <2>2. CASE ~AddConsumption
      BY <2>2, TickOrderly DEF Orderly
    <2> QED
      BY <2>1, <2>2
  <1>2. LedgerTyped'
    BY <1>0, <1>1 DEF LedgerTyped
  <1>3. RequestsTyped' /\ EnvironmentTyped'
    BY <1>0, <1>1, <1>2, GrowthTyped DEF EnvironmentTyped, environment
  <1>4. RecorderTyped'
    <2> DEFINE N == 0..Len(rows')
               Recs == [pc : {"idle", "reconcile", "begin", "open", "find", "close",
                              "pieces", "charge"},
                        seen : Reports, ok : BOOLEAN, wasBusy : BOOLEAN,
                        run : N, closed : BOOLEAN]
               Ends == [pc : {"idle", "begin", "find"}, seen : Reports, ok : BOOLEAN,
                        wasBusy : BOOLEAN, run : {0}, closed : BOOLEAN]
    <2>1. /\ 0..Len(rows) \subseteq N /\ 1..Len(rows) \subseteq 1..Len(rows')
          /\ 0 \in N /\ reported \in Reports /\ rec.seen \in Reports /\ "NONE" \in Reports
      BY <1>0, <1>1 DEF LedgerTyped, EnvironmentTyped, RecorderTyped, Reports
    <2>2. rec \in Recs
      BY <1>0, <2>1 DEF RecorderTyped
    <2>3. Compared(reported) \in Ends /\ Compared(rec.seen) \in Ends /\ Done \in Ends
      BY <1>0, <2>1, TickEnds
    <2>4. pending' \subseteq 1..Len(rows') /\ deadline' \in {"none", "set", "passed"}
      <3>1. pending' \in {pending, {}}
        BY DEF Tick, Poll, Reconcile, AdoptRun, OpenUnattributed, FindRun, CloseRun,
               CreatePieces, AddConsumption
      <3> QED
        BY <1>0, <2>1, <3>1 DEF RecorderTyped
    <2> HIDE DEF N
    <2>5. CASE rec' \in Ends
      BY <2>1, <2>4, <2>5 DEF RecorderTyped, N
    <2>6. CASE /\ rec' \in Recs
               /\ rec'.pc \in {"close", "pieces", "charge"} => rec'.run # 0
      BY <2>4, <2>6 DEF RecorderTyped, N
    <2>7. CASE Poll
      <3>1. CASE rec' \in Ends
        BY <2>5, <3>1
      <3>2. CASE \E ok \in BOOLEAN :
                   rec' = [rec EXCEPT !.pc = "reconcile", !.seen = reported, !.ok = ok]
        <4>1. /\ rec' \in Recs /\ rec'.pc = "reconcile"
          BY <2>1, <2>2, <3>2
        <4> QED
          BY <2>6, <4>1
      <3> QED
        BY <2>3, <2>7, <3>1, <3>2 DEF Poll
    <2>8. CASE AdoptRun
      <3>1. rec' \in Recs /\ rec'.pc \in {"open", "idle"}
        BY <2>2, <2>8 DEF AdoptRun
      <3> QED
        BY <2>6, <3>1
    <2>9. CASE FindRun
      <3>1. CASE FindOpenRun = 0
        BY <2>3, <2>5, <2>9, <3>1 DEF FindRun
      <3>2. CASE FindOpenRun # 0
        <4>1. FindOpenRun \in N
          BY <1>0, <2>1, FindOpenRunIs DEF LedgerTyped
        <4>2. rec' = [rec EXCEPT !.pc = "close", !.run = FindOpenRun]
          BY <2>9, <3>2 DEF FindRun
        <4>3. rec' \in Recs /\ rec'.run = FindOpenRun
          BY <2>2, <4>1, <4>2
        <4> QED
          BY <2>6, <3>2, <4>3
      <3> QED
        BY <3>1, <3>2
    <2>10. CASE CloseRun
      <3>1. /\ Open(rec.run) \in BOOLEAN /\ rec.run # 0
            /\ rec' = [rec EXCEPT !.pc = "pieces", !.closed = Open(rec.run), !.seen = "NONE"]
        BY <1>0, <2>10 DEF CloseRun, Open, RecAt, RecorderTyped
      <3>2. rec' \in Recs /\ rec'.run = rec.run
        BY <2>1, <2>2, <3>1
      <3> QED
        BY <2>6, <3>1, <3>2
    <2>11. CASE CreatePieces
      <3>1. rec.run # 0 /\ rec' = [rec EXCEPT !.pc = "charge"]
        BY <1>0, <2>11 DEF CreatePieces, RecAt, RecorderTyped
      <3>2. rec' \in Recs /\ rec'.run = rec.run
        BY <2>2, <3>1
      <3> QED
        BY <2>6, <3>1, <3>2
    <2>12. CASE Reconcile \/ OpenUnattributed \/ AddConsumption
      BY <2>3, <2>5, <2>12 DEF Reconcile, OpenUnattributed, AddConsumption
    <2> QED
      BY <2>7, <2>8, <2>9, <2>10, <2>11, <2>12 DEF Tick
  <1> QED
    BY <1>2, <1>3, <1>4 DEF Typed

LEMMA FaultStepTyped ==
  ASSUME Typed, RecorderFails \/ DeadlinePasses \/ Restart
  PROVE  Typed'
  <1>0. LedgerTyped /\ RequestsTyped /\ RecorderTyped /\ EnvironmentTyped
    BY DEF Typed
  <1>1. CASE RecorderFails
    <2>1. /\ UNCHANGED <<environment, queue, rows, request, pending, deadline, downPrint>>
          /\ faults' \in 0..MaxFaults /\ rec' = Done
      BY <1>0, <1>1 DEF RecorderFails, EnvironmentTyped
    <2>2. "NONE" \in Reports
      BY DEF Reports
    <2>3. Done \in [pc : {"idle"}, seen : Reports, ok : BOOLEAN, wasBusy : BOOLEAN,
                    run : {0}, closed : BOOLEAN]
      BY <1>0, <2>2, TickEnds
    <2>4. Len(rows) \in Nat
      BY <1>0 DEF LedgerTyped
    <2>5. RecorderTyped'
      BY <1>0, <2>1, <2>3, <2>4 DEF RecorderTyped
    <2> QED
      BY <1>0, <2>1, <2>5 DEF Typed, LedgerTyped, RequestsTyped, EnvironmentTyped, environment
  <1>2. CASE DeadlinePasses
    BY <1>0, <1>2 DEF DeadlinePasses, Typed, LedgerTyped, RequestsTyped, RecorderTyped,
                      EnvironmentTyped, environment
  <1>3. CASE Restart
    <2>1. LedgerTyped' /\ Len(rows') = Len(rows) /\ Len(rows) \in Nat
      BY <1>0, <1>3, KeptByAre DEF Restart, LedgerTyped, Keepers
    <2>2. RequestsTyped'
      BY <1>3, <2>1 DEF Restart, RequestsTyped, NoRequest, MaybeJob
    <2>3. EnvironmentTyped'
      BY <1>0, <1>3 DEF Restart, EnvironmentTyped, Reports
    <2>4. RecorderTyped'
      <3>1. pending' \in {OpenRuns, {}} /\ deadline' \in {"none", "set"}
        BY <1>3 DEF Restart
      <3>2. /\ rec' = FreshRecorder /\ "NONE" \in Reports /\ 0 \in 0..Len(rows')
        BY <1>3, <2>1 DEF Restart, Reports
      <3>3. OpenRuns \subseteq 1..Len(rows')
        BY <2>1 DEF OpenRuns
      <3>4. pending' \subseteq 1..Len(rows')
        BY <3>1, <3>3
      <3> QED
        BY <3>1, <3>2, <3>4 DEF RecorderTyped, FreshRecorder
    <2> QED
      BY <2>1, <2>2, <2>3, <2>4 DEF Typed
  <1> QED
    BY <1>1, <1>2, <1>3

LEMMA NextTyped == Typed /\ [Next]_vars => Typed'
  <1> SUFFICES ASSUME Typed, [Next]_vars PROVE Typed'
    OBVIOUS
  <1>1. CASE UNCHANGED vars
    BY <1>1 DEF vars, environment, recorder, Typed, LedgerTyped, RequestsTyped, RecorderTyped,
                EnvironmentTyped
  <1> QED
    BY <1>1, EnvironmentStepTyped, UsersStepTyped, RouteStepTyped, TickStepTyped,
       FaultStepTyped DEF Next

\* The types of the rows, the requests, the recorder and the queue.
THEOREM Typing == Spec => []TypeOK
  <1>1. Typed => TypeOK
    BY DEF Typed, LedgerTyped, RequestsTyped, RecorderTyped, EnvironmentTyped, TypeOK
  <1> QED
    BY <1>1, InitTyped, NextTyped, PTL DEF Spec

---------------------------------------------------------------------------
(* What a run costs.                                                       *)

\* A step that is not the charge costs nothing.
LEMMA OrderlyCosts ==
  ASSUME Typed, Charging, Orderly
  PROVE  OpenIsUntouched' /\ ChargedByCloser'
  <1>1. Len(rows) \in Nat /\ Len(rows') \in Nat /\ Len(rows) <= Len(rows')
    BY DEF Typed, LedgerTyped, Orderly
  <1>2. OpenIsUntouched'
    BY <1>1 DEF Charging, OpenIsUntouched, OpenRuns, Open, Orderly
  <1>3. ASSUME NEW r \in 1..Len(rows')
        PROVE  /\ rows'[r].charged <= 1
               /\ rows'[r].charged = 1 =>
                    rows'[r].pieces /\ rows'[r].by \in {"recorder", "operator"}
    <2>1. CASE r > Len(rows)
      BY <2>1 DEF Orderly
    <2>2. CASE r \in 1..Len(rows)
      <3>1. rows[r].charged = 1 => rows[r].end # "open"
        BY <2>2 DEF Charging, OpenIsUntouched, OpenRuns, Open
      <3> QED
        BY <2>2, <3>1 DEF Orderly, Charging, ChargedByCloser
    <2> QED
      BY <1>1, <2>1, <2>2
  <1> QED
    BY <1>2, <1>3 DEF ChargedByCloser

\* Nor may it put a row in the recorder's hand as one the recorder has closed.
LEMMA OrderlyCharging ==
  ASSUME Typed, Charging, Orderly,
         rec'.pc \in {"pieces", "charge"} /\ rec'.closed => UNCHANGED rec
  PROVE  Charging'
  <1>1. SUFFICES ASSUME rec'.pc \in {"pieces", "charge"}, rec'.closed
                 PROVE  /\ rows'[rec.run].end # "open"
                        /\ rows'[rec.run].by \in {"recorder", "operator"}
                        /\ rows'[rec.run].charged = 0
                        /\ rec.pc = "charge" => rows'[rec.run].pieces
    BY OrderlyCosts DEF Charging, ClosedByRecorder
  <1>2. rec' = rec /\ rec.run \in 1..Len(rows)
    BY <1>1 DEF Typed, RecorderTyped, LedgerTyped
  <1>3. ClosedByRecorder /\ rec.pc \in {"pieces", "charge"} /\ rec.closed
    BY <1>1, <1>2 DEF Charging
  <1> QED
    BY <1>2, <1>3 DEF ClosedByRecorder, Orderly

\* close_run() tells the recorder whether the row is its own to charge.
LEMMA CloseRunCharging ==
  ASSUME Typed, Charging, CloseRun
  PROVE  Charging'
  <1> DEFINE r == rec.run
  <1>1. /\ LedgerTyped /\ r \in 1..Len(rows) /\ rows[r] \in Row
        /\ EndState \in Verdicts \ {"open"} /\ "recorder" \in Closers
    BY DEF Typed, CloseRun, RecAt, LedgerTyped, RecorderTyped, EndState, Verdicts, Closers
  <1>2. Orderly
    BY TickOrderly DEF Tick, CloseRun, AddConsumption, RecAt
  <1>3. rec'.pc = "pieces" /\ rec'.run = r /\ rec'.closed = Open(r)
    BY DEF CloseRun, Typed, RecorderTyped
  <1>4. CASE ~Open(r)
    BY <1>2, <1>3, <1>4, OrderlyCharging
  <1>5. CASE Open(r)
    <2> DEFINE new == [rows[r] EXCEPT !.end = EndState, !.by = "recorder"]
    <2>1. rows'[r] = new
      <3>1. rows' = ClosedRows({r}, EndState, "recorder")
        BY DEF CloseRun
      <3> HIDE DEF r
      <3> QED
        BY <1>1, <1>5, <3>1 DEF ClosedRows
    <2>2. new.end # "open" /\ new.by = "recorder" /\ new.charged = rows[r].charged
      BY <1>1 DEF Row
    <2>3. rows[r].charged = 0
      BY <1>1, <1>5 DEF Charging, OpenIsUntouched, OpenRuns
    <2> HIDE DEF new
    <2>4. ClosedByRecorder'
      BY <1>3, <2>1, <2>2, <2>3 DEF ClosedByRecorder
    <2> QED
      BY <1>2, <2>4, OrderlyCosts DEF Charging
  <1> QED
    BY <1>4, <1>5

LEMMA CreatePiecesCharging ==
  ASSUME Typed, Charging, CreatePieces
  PROVE  Charging'
  <1>1. LedgerTyped /\ RecorderTyped /\ rec.run \in 1..Len(rows)
    BY DEF Typed, CreatePieces, RecAt, RecorderTyped, LedgerTyped
  <1>2. Orderly /\ rows'[rec.run].pieces = TRUE
    BY <1>1, PiecesOrderly
  <1>3. rec.pc = "pieces" /\ rec'.run = rec.run /\ rec'.closed = rec.closed
    BY <1>1 DEF CreatePieces, RecAt, RecorderTyped
  <1>4. ClosedByRecorder'
    BY <1>1, <1>2, <1>3 DEF ClosedByRecorder, Charging, Orderly
  <1> QED
    BY <1>2, <1>4, OrderlyCosts DEF Charging

\* The charge is for a row that the recorder closed itself and that has its pieces,
\* and the recorder is done with the row after it.
LEMMA AddConsumptionCharging ==
  ASSUME Typed, Charging, AddConsumption
  PROVE  Charging'
  <1> DEFINE r == rec.run
  <1>1. LedgerTyped /\ RecorderTyped /\ rec.pc = "charge" /\ Len(rows) \in Nat
    BY DEF Typed, AddConsumption, RecAt, LedgerTyped
  <1>2. /\ Len(rows') = Len(rows)
        /\ \A s \in 1..Len(rows) :
             /\ rows'[s].end = rows[s].end /\ rows'[s].by = rows[s].by
             /\ rows'[s].pieces = rows[s].pieces
             /\ rows'[s].charged = IF s = r /\ rec.closed /\ rows[s].job # NoJob
                                     THEN rows[s].charged + 1 ELSE rows[s].charged
    BY <1>1, ChargeIs
  <1>3. rec.closed => /\ rows[r].end # "open" /\ rows[r].by \in {"recorder", "operator"}
                      /\ rows[r].charged = 0 /\ rows[r].pieces
    BY <1>1 DEF Charging, ClosedByRecorder
  <1>4. ClosedByRecorder'
    BY DEF ClosedByRecorder, AddConsumption, Done, FreshRecorder
  <1>5. OpenIsUntouched'
    BY <1>2, <1>3 DEF Charging, OpenIsUntouched, OpenRuns, Open
  <1>6. ChargedByCloser'
    BY <1>2, <1>3 DEF Charging, ChargedByCloser
  <1> QED
    BY <1>4, <1>5, <1>6 DEF Charging

LEMMA NextCharging == Typed /\ Charging /\ [Next]_vars => Charging'
  <1> SUFFICES ASSUME Typed, Charging, [Next]_vars PROVE Charging'
    OBVIOUS
  <1>1. CASE CloseRun \/ CreatePieces \/ AddConsumption
    BY <1>1, CloseRunCharging, CreatePiecesCharging, AddConsumptionCharging
  <1>2. CASE ~(CloseRun \/ CreatePieces \/ AddConsumption)
    <2>1. rec \in [pc : {"idle", "reconcile", "begin", "open", "find", "close",
                         "pieces", "charge"},
                   seen : Reports, ok : BOOLEAN, wasBusy : BOOLEAN,
                   run : 0..Len(rows), closed : BOOLEAN]
      BY DEF Typed, RecorderTyped
    <2>2. /\ Compared(reported).pc \in {"idle", "begin", "find"}
          /\ Compared(rec.seen).pc \in {"idle", "begin", "find"}
          /\ Done.pc = "idle" /\ FreshRecorder.pc = "idle"
      BY <2>1, TickEnds DEF Typed, EnvironmentTyped, FreshRecorder
    <2>3. rec' = rec \/ rec'.pc \notin {"pieces", "charge"}
      <3>1. CASE Tick
        <4>1. CASE Poll
          BY <2>1, <2>2, <4>1 DEF Poll
        <4>2. CASE Reconcile \/ OpenUnattributed
          BY <2>2, <4>2 DEF Reconcile, OpenUnattributed
        <4>3. CASE AdoptRun \/ FindRun
          BY <2>1, <2>2, <4>3 DEF AdoptRun, FindRun
        <4> QED
          BY <1>2, <3>1, <4>1, <4>2, <4>3 DEF Tick
      <3>2. CASE RecorderFails \/ Restart
        BY <2>2, <3>2 DEF RecorderFails, Restart
      <3>3. CASE Environment \/ Users \/ DeadlinePasses \/ UNCHANGED vars
        BY <3>3 DEF Environment, TakeCommand, StartAtScreen, MachineMoves, Report, Reconnect,
                    Users, RemoveQueueJob, ReorderQueue, PatchRun, RequestStart,
                    DeadlinePasses, vars, recorder
      <3>4. CASE \E c \in Clients : Route(c)
        BY <3>4 DEF Route, OpenRun, SendStart, Verify, Dequeue, CloseUnconfirmed, recorder
      <3> QED
        BY <3>1, <3>2, <3>3, <3>4 DEF Next
    <2>4. Orderly
      BY <1>2, NextOrderly
    <2> QED
      BY <2>3, <2>4, OrderlyCharging
  <1> QED
    BY <1>1, <1>2

---------------------------------------------------------------------------
(* Who closes a row.                                                       *)

\* A step of the server that runs keeps the promise for every row if new rows of the
\* route belong to a request, and no row loses the request or the reconciliation it
\* belongs to without being closed or handed over.
LEMMA OrderlyKept ==
  ASSUME Typed, NoRowForgotten, Orderly, ~Restart,
         deadline = "none" => deadline' = "none",
         \A r \in 1..Len(rows') :
           r > Len(rows) /\ rows'[r].keeper = "route" => OwnedByRequest(r)',
         \A r \in 1..Len(rows) :
           rows'[r].end = "open" =>
             /\ rows[r].keeper = "route" /\ rows'[r].keeper = "route"
                  => (OwnedByRequest(r) => OwnedByRequest(r)')
             /\ rows[r].keeper = "restart" /\ rows'[r].keeper = "restart"
                  => (r \in pending => r \in pending')
  PROVE  NoRowForgotten'
  <1>1. Len(rows) \in Nat /\ Len(rows') \in Nat
    BY DEF Typed, LedgerTyped, Orderly
  <1> SUFFICES ASSUME NEW r \in 1..Len(rows'), rows'[r].end = "open"
               PROVE  /\ rows'[r].keeper = "route" => OwnedByRequest(r)'
                      /\ rows'[r].keeper = "restart" /\ deadline' # "none" => r \in pending'
    BY DEF NoRowForgotten, OpenRuns, Open
  <1>2. CASE r > Len(rows)
    BY <1>2 DEF Orderly
  <1>3. CASE r \in 1..Len(rows)
    <2>1. /\ rows[r].end = "open"
          /\ rows'[r].keeper = "route" => rows[r].keeper = "route"
          /\ rows'[r].keeper = "restart" => rows[r].keeper = "restart"
      BY <1>3 DEF Orderly
    <2>2. /\ rows[r].keeper = "route" => OwnedByRequest(r)
          /\ rows[r].keeper = "restart" /\ deadline # "none" => r \in pending
      BY <1>3, <2>1 DEF NoRowForgotten, OpenRuns, Open
    <2>3. ASSUME rows'[r].keeper = "route" PROVE OwnedByRequest(r)'
      <3>1. OwnedByRequest(r) /\ rows[r].keeper = "route"
        BY <2>1, <2>2, <2>3
      <3> QED
        BY <1>3, <2>3, <3>1
    <2>4. ASSUME rows'[r].keeper = "restart", deadline' # "none" PROVE r \in pending'
      <3>1. r \in pending /\ rows[r].keeper = "restart"
        BY <2>1, <2>2, <2>4
      <3> QED
        BY <1>3, <2>4, <3>1
    <2> QED
      BY <2>3, <2>4
  <1> QED
    BY <1>1, <1>2, <1>3

\* A step of nobody's request.
LEMMA OthersKept ==
  ASSUME Typed, NoRowForgotten, Orderly, ~Restart, UNCHANGED <<request, pending>>,
         deadline = "none" => deadline' = "none",
         \A r \in 1..Len(rows') : r > Len(rows) => rows'[r].keeper # "route"
  PROVE  NoRowForgotten'
  <1>1. \A r : OwnedByRequest(r) => OwnedByRequest(r)'
    BY DEF OwnedByRequest
  <1> QED
    BY <1>1, OrderlyKept

LEMMA RouteKept ==
  ASSUME Typed, NoRowForgotten, NEW c \in Clients, Route(c), ~Restart
  PROVE  NoRowForgotten'
  <1>0. /\ Orderly /\ UNCHANGED <<pending, deadline>> /\ RequestsTyped /\ LedgerTyped
        /\ Len(rows) \in Nat
    <2>1. Orderly
      BY RouteOrderly
    <2>2. UNCHANGED <<pending, deadline>>
      BY DEF Route, OpenRun, SendStart, Verify, Dequeue, CloseUnconfirmed, recorder
    <2> QED
      BY <2>1, <2>2 DEF Typed, LedgerTyped
  <1>1. \A d \in Clients : d # c => request'[d] = request[d]
    BY <1>0 DEF Route, OpenRun, SendStart, Verify, Dequeue, CloseUnconfirmed, Goto,
                RequestsTyped
  <1>2. ASSUME NEW r, OwnedByRequest(r),
               ~ (/\ request[c].run = r
                  /\ request[c].pc \in {"sending", "verifying", "closing"})
        PROVE  OwnedByRequest(r)'
    BY <1>1, <1>2 DEF OwnedByRequest
  <1>3. CASE OpenRun(c)
    <2>1. \A r : OwnedByRequest(r) => OwnedByRequest(r)'
      BY <1>2, <1>3 DEF OpenRun, At
    <2>2. CASE UNCHANGED rows
      BY <1>0, <2>1, <2>2, OrderlyKept
    <2>3. CASE /\ rows' = WithNewRow(request[c].job)
               /\ request' = [request EXCEPT ![c].pc = "sending", ![c].run = Len(rows) + 1]
      <3>1. request[c].job \in MaybeJob
        BY <1>0 DEF RequestsTyped
      <3>2. Len(rows') = Len(rows) + 1
        BY <1>0, <2>3, <3>1, OpeningOrderly
      <3>3. request'[c].pc = "sending" /\ request'[c].run = Len(rows) + 1
        BY <1>0, <2>3 DEF RequestsTyped
      <3>4. ASSUME NEW r, r = Len(rows) + 1 PROVE OwnedByRequest(r)'
        BY <3>3, <3>4 DEF OwnedByRequest
      <3>5. \A r \in 1..Len(rows') : r > Len(rows) => OwnedByRequest(r)'
        BY <1>0, <3>2, <3>4
      <3> QED
        BY <1>0, <2>1, <3>5, OrderlyKept
    <2> QED
      BY <1>3, <2>2, <2>3 DEF OpenRun
  <1>4. CASE SendStart(c)
    <2>1. /\ request'[c].run = request[c].run
          /\ request'[c].pc \in {"verifying", "closing"} /\ UNCHANGED rows
      BY <1>0, <1>4 DEF SendStart, Goto, RequestsTyped
    <2>2. \A r : OwnedByRequest(r) => OwnedByRequest(r)'
      BY <1>2, <2>1 DEF OwnedByRequest
    <2> QED
      BY <1>0, <2>1, <2>2, OrderlyKept
  <1>5. CASE Verify(c)
    <2>1. CASE Goto(c, "closing") /\ UNCHANGED rows
      <3>1. request'[c].run = request[c].run /\ request'[c].pc = "closing"
        BY <1>0, <2>1 DEF Goto, RequestsTyped
      <3>2. \A r : OwnedByRequest(r) => OwnedByRequest(r)'
        BY <1>2, <3>1 DEF OwnedByRequest
      <3> QED
        BY <1>0, <2>1, <3>2, OrderlyKept
    <2>2. CASE rows' = KeptBy({request[c].run}, "recorder")
      <3>1. /\ Len(rows') = Len(rows)
            /\ \A r \in 1..Len(rows) : r = request[c].run => rows'[r].keeper = "recorder"
        BY <1>0, <2>2, HandedOver
      <3> QED
        BY <1>0, <1>2, <3>1, OrderlyKept
    <2> QED
      BY <1>5, <2>1, <2>2 DEF Verify
  <1>6. CASE Dequeue(c)
    <2>1. \A r : OwnedByRequest(r) => OwnedByRequest(r)'
      BY <1>2, <1>6 DEF Dequeue, At
    <2> QED
      BY <1>0, <1>6, <2>1, OrderlyKept DEF Dequeue
  <1>7. CASE CloseUnconfirmed(c)
    <2>1. CASE rows' = ClosedRows({request[c].run}, "START_UNCONFIRMED", "route")
      <3>1. "START_UNCONFIRMED" \in Verdicts /\ "route" \in Closers
        BY DEF Verdicts, Closers
      <3>2. /\ Len(rows') = Len(rows)
            /\ \A r \in 1..Len(rows) : r = request[c].run => rows'[r].end # "open"
        BY <1>0, <2>1, <3>1, Shut
      <3> QED
        BY <1>0, <1>2, <3>2, OrderlyKept
    <2>2. CASE rows' = KeptBy({request[c].run}, "nobody")
      <3>1. /\ Len(rows') = Len(rows)
            /\ \A r \in 1..Len(rows) : r = request[c].run => rows'[r].keeper = "nobody"
        BY <1>0, <2>2, HandedOver
      <3> QED
        BY <1>0, <1>2, <3>1, OrderlyKept
    <2> QED
      BY <1>7, <2>1, <2>2 DEF CloseUnconfirmed
  <1> QED
    BY <1>3, <1>4, <1>5, <1>6, <1>7 DEF Route

LEMMA NextKept == Typed /\ NoRowForgotten /\ [Next]_vars => NoRowForgotten'
  <1> SUFFICES ASSUME Typed, NoRowForgotten, [Next]_vars PROVE NoRowForgotten'
    OBVIOUS
  <1>0. LedgerTyped /\ RecorderTyped /\ Len(rows) \in Nat
    BY DEF Typed, LedgerTyped
  <1>7. CASE Restart
    <2>1. /\ rows' = KeptBy(OpenRuns, "restart")
          /\ pending' = OpenRuns \/ deadline' = "none"
      BY <1>7 DEF Restart
    <2>2. /\ Len(rows') = Len(rows)
          /\ \A r \in 1..Len(rows) : r \in OpenRuns => rows'[r].keeper = "restart"
          /\ \A r \in 1..Len(rows) : rows'[r].end = rows[r].end
      BY <1>0, <2>1, HandedOver
    <2>3. ASSUME NEW r \in 1..Len(rows'), rows'[r].end = "open"
          PROVE  rows'[r].keeper = "restart" /\ r \in OpenRuns
      BY <2>2, <2>3 DEF OpenRuns, Open
    <2> QED
      BY <2>1, <2>3 DEF NoRowForgotten, OpenRuns, Open
  <1> SUFFICES ASSUME ~Restart PROVE NoRowForgotten'
    BY <1>7
  <1>1. CASE Orderly /\ UNCHANGED <<rows, request, pending, deadline>>
    BY <1>0, <1>1, OthersKept
  <1>2. CASE Environment \/ UNCHANGED vars
    <2>1. UNCHANGED <<rows, request, pending, deadline>>
      BY <1>2 DEF Environment, TakeCommand, StartAtScreen, MachineMoves, Report, Reconnect,
                  vars, recorder
    <2> QED
      BY <1>0, <1>1, <2>1, SameRowsOrderly
  <1>3. CASE Users
    <2>1. CASE \E j \in Jobs : RemoveQueueJob(j) \/ ReorderQueue(j)
      BY <1>0, <1>1, <2>1, SameRowsOrderly DEF RemoveQueueJob, ReorderQueue, recorder
    <2>2. CASE \E r \in RunIds : PatchRun(r)
      <3>1. Orderly /\ Len(rows') = Len(rows) /\ UNCHANGED <<request, pending, deadline>>
        BY <1>0, <2>2, PatchOrderly DEF PatchRun, recorder
      <3> QED
        BY <1>0, <3>1, OthersKept
    <2>3. CASE \E c \in Clients : RequestStart(c)
      <3> PICK c \in Clients : RequestStart(c)
        BY <2>3
      <3>1. request[c].pc = "idle" /\ UNCHANGED <<rows, pending, deadline>>
        BY DEF RequestStart, At, recorder
      <3>2. \A d \in Clients : d # c => request'[d] = request[d]
        BY DEF RequestStart, Typed, RequestsTyped
      <3>3. \A r : OwnedByRequest(r) => OwnedByRequest(r)'
        BY <3>1, <3>2 DEF OwnedByRequest
      <3> QED
        BY <1>0, <3>1, <3>3, OrderlyKept, SameRowsOrderly
    <2> QED
      BY <1>3, <2>1, <2>2, <2>3 DEF Users
  <1>4. CASE \E c \in Clients : Route(c)
    BY <1>4, RouteKept
  <1>5. CASE Tick
    <2>1. CASE Poll \/ AdoptRun \/ FindRun
      BY <1>0, <1>1, <2>1, SameRowsOrderly DEF Poll, AdoptRun, FindRun
    <2>2. CASE OpenUnattributed
      <3>1. Orderly /\ UNCHANGED <<request, pending, deadline>>
        BY <1>5, <2>2, TickOrderly DEF OpenUnattributed, AddConsumption, RecAt
      <3>2. CASE UNCHANGED rows
        BY <1>1, <3>1, <3>2
      <3>3. CASE rows' = WithNewRow(NoJob)
        <4>1. Len(rows') = Len(rows) + 1 /\ rows'[Len(rows')].keeper = "recorder"
          BY <1>0, <3>3, OpeningOrderly DEF MaybeJob
        <4>2. \A r \in 1..Len(rows') : r > Len(rows) => rows'[r].keeper # "route"
          BY <1>0, <4>1
        <4> QED
          BY <3>1, <4>2, OthersKept
      <3> QED
        BY <2>2, <3>2, <3>3 DEF OpenUnattributed
    <2>3. CASE CloseRun
      <3>1. Orderly /\ UNCHANGED <<request, pending, deadline>>
        BY <1>5, <2>3, TickOrderly DEF CloseRun, AddConsumption, RecAt
      <3>2. Len(rows') = Len(rows)
        <4>1. EndState \in Verdicts /\ "recorder" \in Closers
          BY DEF EndState, Verdicts, Closers
        <4>2. rows' = ClosedRows({rec.run}, EndState, "recorder")
          BY <2>3 DEF CloseRun
        <4> HIDE DEF EndState
        <4> QED
          BY <1>0, <4>1, <4>2, Shut
      <3> QED
        BY <1>0, <3>1, <3>2, OthersKept
    <2>4. CASE CreatePieces
      <3>1. Orderly /\ Len(rows') = Len(rows) /\ UNCHANGED <<request, pending, deadline>>
        BY <1>0, <2>4, PiecesOrderly DEF CreatePieces
      <3> QED
        BY <1>0, <3>1, OthersKept
    <2>5. CASE AddConsumption
      <3>1. /\ Len(rows') = Len(rows) /\ UNCHANGED <<request, pending, deadline>>
            /\ \A r \in 1..Len(rows) :
                 rows'[r].end = rows[r].end /\ rows'[r].keeper = rows[r].keeper
        BY <1>0, <2>5, ChargeIs DEF AddConsumption
      <3> QED
        BY <3>1 DEF NoRowForgotten, OpenRuns, Open, OwnedByRequest
    <2>6. CASE Reconcile
      <3>1. /\ Orderly /\ UNCHANGED <<request, deadline>>
            /\ \A r : OwnedByRequest(r) => OwnedByRequest(r)'
        BY <1>5, <2>6, TickOrderly DEF Reconcile, AddConsumption, RecAt, OwnedByRequest
      <3>2. CASE UNCHANGED <<rows, pending>>
        BY <1>1, <3>1, <3>2
      <3>3. CASE rows' = ClosedRows(pending, "UNKNOWN", "restart")
        <4>1. "UNKNOWN" \in Verdicts /\ "restart" \in Closers
          BY DEF Verdicts, Closers
        <4>2. /\ Len(rows') = Len(rows)
              /\ \A r \in 1..Len(rows) : r \in pending => rows'[r].end # "open"
          BY <1>0, <3>3, <4>1, Shut
        <4> QED
          BY <1>0, <3>1, <4>2, OrderlyKept
      <3>4. CASE rows' = KeptBy(pending, "recorder")
        <4>1. /\ Len(rows') = Len(rows)
              /\ \A r \in 1..Len(rows) : r \in pending => rows'[r].keeper = "recorder"
          BY <1>0, <3>4, HandedOver
        <4> QED
          BY <1>0, <3>1, <4>1, OrderlyKept
      <3> QED
        BY <2>6, <3>2, <3>3, <3>4 DEF Reconcile
    <2> QED
      BY <1>5, <2>1, <2>2, <2>3, <2>4, <2>5, <2>6 DEF Tick
  <1>6. CASE RecorderFails \/ DeadlinePasses
    <2>1. /\ UNCHANGED <<rows, request, pending>> /\ Orderly
          /\ deadline = "none" => deadline' = "none"
      BY <1>0, <1>6, SameRowsOrderly DEF RecorderFails, DeadlinePasses
    <2> QED
      BY <1>0, <2>1, OthersKept
  <1> QED
    BY <1>2, <1>3, <1>4, <1>5, <1>6 DEF Next

---------------------------------------------------------------------------
(* What the recorder is told of a print that survived a restart.           *)

LEMMA NextTells == Typed /\ TellsOfSurvivor /\ [Next]_vars => TellsOfSurvivor'
  <1> SUFFICES ASSUME Typed, TellsOfSurvivor, [Next]_vars PROVE TellsOfSurvivor'
    OBVIOUS
  <1>1. /\ machine \in [gcode : GcodeStates, print : 0..MaxPrints]
        /\ downPrint \in 0..MaxPrints
        /\ rec \in [pc : {"idle", "reconcile", "begin", "open", "find", "close",
                          "pieces", "charge"},
                    seen : Reports, ok : BOOLEAN, wasBusy : BOOLEAN,
                    run : 0..Len(rows), closed : BOOLEAN]
    BY DEF Typed, EnvironmentTyped, RecorderTyped
  <1>2. CASE UNCHANGED <<machine, reported, rec, downPrint>>
    BY <1>2 DEF TellsOfSurvivor, Survives, Busy, SeenBusy
  <1>3. CASE UNCHANGED <<machine, reported, downPrint>> /\ rec'.pc # "reconcile"
    BY <1>3 DEF TellsOfSurvivor, Survives, Busy
  <1>4. CASE Environment
    <2>1. UNCHANGED <<rec, downPrint>>
      BY <1>4 DEF Environment, TakeCommand, StartAtScreen, MachineMoves, Report, Reconnect,
                  recorder
    <2>2. CASE Begin /\ UNCHANGED reported
      <3>1. machine'.print = machine.print + 1 /\ downPrint < machine'.print
        BY <1>1, <2>2 DEF Begin, TellsOfSurvivor
      <3> QED
        BY <1>1, <2>1, <3>1 DEF TellsOfSurvivor, Survives
    <2>3. CASE MachineMoves
      <3>1. /\ machine'.print = machine.print /\ UNCHANGED reported
            /\ machine'.gcode \in BUSY_STATES => machine.gcode \in BUSY_STATES
        BY <1>1, <2>3 DEF MachineMoves, Becomes, Busy, BUSY_STATES
      <3> QED
        BY <2>1, <3>1 DEF TellsOfSurvivor, Survives, Busy, SeenBusy
    <2>4. CASE Report \/ Reconnect
      <3>1. UNCHANGED machine /\ reported' \in {machine.gcode, "SILENT", "NONE"}
        BY <2>4 DEF Report, Reconnect
      <3> QED
        BY <2>1, <3>1 DEF TellsOfSurvivor, Survives, Busy, SeenBusy
    <2> QED
      BY <1>2, <1>4, <2>1, <2>2, <2>3, <2>4 DEF Environment, TakeCommand, StartAtScreen
  <1>5. CASE Users \/ DeadlinePasses \/ UNCHANGED vars
    BY <1>2, <1>5 DEF Users, RemoveQueueJob, ReorderQueue, PatchRun, RequestStart,
                      DeadlinePasses, vars, environment, recorder
  <1>6. CASE \E c \in Clients : Route(c)
    BY <1>2, <1>6 DEF Route, OpenRun, SendStart, Verify, Dequeue, CloseUnconfirmed,
                      environment, recorder
  <1>7. /\ Compared(reported).pc # "reconcile" /\ Compared(rec.seen).pc # "reconcile"
        /\ Done.pc # "reconcile" /\ FreshRecorder.pc # "reconcile"
    BY TickEnds DEF Typed, RecorderTyped, EnvironmentTyped, FreshRecorder
  <1>8. CASE Tick
    <2>1. UNCHANGED <<machine, reported, downPrint>>
      BY <1>8 DEF Tick, Poll, Reconcile, AdoptRun, OpenUnattributed, FindRun, CloseRun,
                  CreatePieces, AddConsumption, environment
    <2>2. CASE Poll /\ rec'.pc = "reconcile"
      <3>1. rec'.seen = reported /\ (rec'.ok => reported # "SILENT")
        BY <1>1, <1>7, <2>2 DEF Poll
      <3> QED
        BY <2>1, <3>1 DEF TellsOfSurvivor, Survives, Busy, SeenBusy
    <2>3. CASE Reconcile \/ OpenUnattributed \/ AddConsumption
      BY <1>3, <1>7, <2>1, <2>3 DEF Reconcile, OpenUnattributed, AddConsumption
    <2>4. CASE AdoptRun \/ FindRun \/ CloseRun \/ CreatePieces
      <3>1. rec'.pc # "reconcile"
        BY <1>1, <1>7, <2>4 DEF AdoptRun, FindRun, CloseRun, CreatePieces
      <3> QED
        BY <1>3, <2>1, <3>1
    <2> QED
      BY <1>3, <1>8, <2>1, <2>2, <2>3, <2>4 DEF Tick
  <1>9. CASE RecorderFails
    BY <1>3, <1>7, <1>9 DEF RecorderFails, environment
  <1>10. CASE Restart
    <2>1. /\ UNCHANGED machine /\ reported' = "SILENT" /\ rec'.pc # "reconcile"
          /\ downPrint' = IF Busy THEN machine.print ELSE 0
      BY <1>7, <1>10 DEF Restart
    <2> QED
      BY <1>1, <2>1 DEF TellsOfSurvivor, Survives, Busy
  <1> QED
    BY <1>4, <1>5, <1>6, <1>8, <1>9, <1>10 DEF Next

---------------------------------------------------------------------------
(* The theorems.                                                           *)

LEMMA Inductive ==
  /\ Init => IInv
  /\ IInv /\ [Next]_vars => IInv'
  <1>1. Init => IInv
    <2> SUFFICES ASSUME Init PROVE IInv
      OBVIOUS
    <2>1. Typed
      BY InitTyped
    <2>2. Len(rows) = 0 /\ rec.pc = "idle" /\ ~Busy /\ machine.print = 0 /\ downPrint = 0
      BY DEF Init, FreshRecorder, Busy, BUSY_STATES
    <2>3. OpenRuns = {}
      BY <2>2 DEF OpenRuns
    <2> QED
      BY <2>1, <2>2, <2>3
      DEF IInv, Charging, OpenIsUntouched, ClosedByRecorder, ChargedByCloser,
          NoRowForgotten, TellsOfSurvivor, Survives
  <1>2. IInv /\ [Next]_vars => IInv'
    BY NextTyped, NextCharging, NextKept, NextTells DEF IInv
  <1> QED
    BY <1>1, <1>2

\* What the rows, the requests, the recorder and the printer's report know of each
\* other, in every reachable state.
THEOREM Inductively == Spec => []IInv
  BY Inductive, PTL DEF Spec

\* Whatever the route, the recorder, restarts and operators do to the runs between
\* them: a spool is charged at most once for a run, after its pieces exist, and only
\* for a run whose end the recorder itself observed.
THEOREM ChargedOnce == Spec => []ChargedByCloser
  <1>1. IInv => ChargedByCloser
    BY DEF IInv, Charging
  <1> QED
    BY <1>1, Inductively, PTL

\* An open row of a start that was not confirmed always has somebody to close it, the
\* request that opened it or the reconciliation after a restart, however many
\* requests are under way; the exceptions are a ledger that raised when the request
\* closed the row, or when the recorder started.
THEOREM SomebodyCloses == Spec => []NoRowForgotten
  <1>1. IInv => NoRowForgotten
    BY DEF IInv
  <1> QED
    BY <1>1, Inductively, PTL

\* Once a run has a verdict only an operator changes it: of the route, the recorder
\* and the reconciliation the first to close it decides.
THEOREM FirstVerdict == Spec => VerdictStands
  <1>1. IInv /\ [Next]_vars =>
          [\A r \in 1..Len(rows) :
             rows[r].end # "open" =>
               \/ rows'[r].end = rows[r].end /\ rows'[r].by = rows[r].by
               \/ rows'[r].by = "operator"]_vars
    <2> SUFFICES ASSUME IInv, [Next]_vars, NEW r \in 1..Len(rows), rows[r].end # "open"
                 PROVE  \/ rows'[r].end = rows[r].end /\ rows'[r].by = rows[r].by
                        \/ rows'[r].by = "operator"
      OBVIOUS
    <2>1. Typed
      BY DEF IInv
    <2>2. CASE AddConsumption
      BY <2>1, <2>2, ChargeIs DEF Typed
    <2>3. CASE ~AddConsumption
      BY <2>1, <2>3, NextOrderly DEF Orderly
    <2> QED
      BY <2>2, <2>3
  <1> QED
    BY <1>1, Inductively, PTL DEF Spec, VerdictStands

\* A restart does not close the run of a print that is still going on, unless the
\* printer stays silent past the deadline, or has reported since then without ever
\* naming a gcode_state.
THEOREM PrintSurvivesRestart == Spec => LiveRunKept
  <1>1. IInv /\ [Next]_vars =>
          [\A r \in pending : LiveRunClosed(r) => rec.seen = "NONE"]_vars
    <2> SUFFICES ASSUME IInv, [Next]_vars, NEW r \in pending, LiveRunClosed(r)
                 PROVE  rec.seen = "NONE"
      OBVIOUS
    <2>1. /\ Typed /\ LedgerTyped /\ RecorderTyped /\ r \in 1..Len(rows)
          /\ Open(r) /\ rows'[r].by = "restart" /\ deadline # "passed" /\ Survives
      BY DEF IInv, Typed, RecorderTyped, LiveRunClosed, Survives
    <2>2. rows[r].by = "nobody"
      BY <2>1 DEF IInv, Charging, OpenIsUntouched, OpenRuns
    <2>3. ~AddConsumption
      BY <2>1, <2>2, ChargeIs
    <2>4. GivesUp
      BY <2>1, <2>2, <2>3, NextOrderly DEF Orderly
    <2>5. rec.pc = "reconcile" /\ rec.ok /\ ~SeenBusy
      BY <2>1, <2>4 DEF GivesUp, Reconcile, RecAt
    <2> QED
      BY <2>1, <2>5 DEF IInv, TellsOfSurvivor
  <1> QED
    BY <1>1, Inductively, PTL DEF Spec, LiveRunKept

===========================================================================
