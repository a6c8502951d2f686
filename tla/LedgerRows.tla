---------------------------- MODULE LedgerRows ----------------------------
(***************************************************************************)
(* The ledger's data (server/ledger.py): the columns that more than one    *)
(* method writes, and the statements that write them.  Text, weights and   *)
(* time stamps are left out.  A row that does not exist has a value that   *)
(* says so, because the tables never lose a row, badges excepted.          *)
(***************************************************************************)
EXTENDS Naturals, Sequences, FiniteSets

CONSTANTS
  Spools,        \* spool codes
  Printers,      \* serials
  NoPrinter,
  Parts,         \* parts that share one part_number
  Revisions,
  Recipes,
  None,          \* NULL
  Copies,        \* copies_planned of the one run that is modelled
  Uuids,         \* client_uuid of events
  Badges,        \* badge codes
  AutoBadges,    \* those the system may apply itself
  Statements     \* CREATE statements per schema version

ASSUME RowsAssumption ==
  /\ NoPrinter \notin Printers
  /\ None \notin Revisions \cup Parts
  /\ Copies \in Nat /\ Statements \in Nat \ {0}
  /\ AutoBadges \subseteq Badges

Versions == 3                                          \* MIGRATIONS

\* "retired" is to the code what "spent" is, "rework" what "scrap" is, and one
\* verdict what another is.
SPOOL_FREE_STATUSES == {"sealed", "spent"}
END_STATES == {"FINISH", "UNKNOWN"}
PIECE_STATUSES == {"pending_inspection", "good", "scrap"}

SpoolRow == [status : SPOOL_FREE_STATUSES \cup {"in_use", "none"},
             printer_serial : Printers \cup {NoPrinter}, archived : BOOLEAN]
PartRow == [revision : Revisions \cup {None}, archived : BOOLEAN]
RecipeRow == [part_id : Parts \cup {None}, is_default : BOOLEAN, archived : BOOLEAN]

Database ==
  [tables : Nat, version : 0..Versions, seeded : BOOLEAN,
   spools : [Spools -> SpoolRow],
   parts : [Parts -> PartRow],
   recipes : [Recipes -> RecipeRow],
   end_state : END_STATES \cup {"open"},
   pieces : [1..Copies -> PIECE_STATUSES \cup {"none"}],
   events : SUBSET Uuids,
   badges : SUBSET Badges]

\* A file sqlite3.connect() just created.
Empty ==
  [tables |-> 0, version |-> 0, seeded |-> FALSE,
   spools |-> [s \in Spools |->
                 [status |-> "none", printer_serial |-> NoPrinter, archived |-> FALSE]],
   parts |-> [a \in Parts |-> [revision |-> None, archived |-> FALSE]],
   recipes |-> [r \in Recipes |-> [part_id |-> None, is_default |-> FALSE, archived |-> FALSE]],
   end_state |-> "open",
   pieces |-> [i \in 1..Copies |-> "none"],
   events |-> {}, badges |-> {}]

---------------------------------------------------------------------------
(* Statements: what each makes of the data.                                *)

\* The one that empties printer p: the first half of set_loaded_spool(), and
\* the whole of unload_spool().
ClearSpool(db, p) ==
  [db EXCEPT !.spools = [s \in Spools |->
     IF db.spools[s].status = "in_use" /\ db.spools[s].printer_serial = p
       THEN [db.spools[s] EXCEPT !.status = "sealed", !.printer_serial = NoPrinter]
       ELSE db.spools[s]]]

LoadSpool(db, p, s) ==
  [db EXCEPT !.spools[s].status = "in_use", !.spools[s].printer_serial = p]

InsertSpool(db, s, status) ==
  [db EXCEPT !.spools[s] = [status |-> status, printer_serial |-> NoPrinter,
                            archived |-> FALSE]]

\* update_spool(): printer_serial is not among the columns it writes.
WriteStatus(db, s, status) == [db EXCEPT !.spools[s].status = status]

ArchiveSpool(db, s) ==
  IF db.spools[s].status = "none" THEN db ELSE [db EXCEPT !.spools[s].archived = TRUE]

InsertPart(db, a, revision) ==
  [db EXCEPT !.parts[a] = [revision |-> revision, archived |-> FALSE]]

WriteRevision(db, a, revision) == [db EXCEPT !.parts[a].revision = revision]

ArchivePart(db, a) ==
  IF db.parts[a].revision = None THEN db ELSE [db EXCEPT !.parts[a].archived = TRUE]

InsertRecipe(db, a, r) ==
  [db EXCEPT !.recipes[r] = [part_id |-> a, is_default |-> FALSE, archived |-> FALSE]]

ClearDefault(db, a) ==
  [db EXCEPT !.recipes = [r \in Recipes |->
     IF db.recipes[r].part_id = a THEN [db.recipes[r] EXCEPT !.is_default = FALSE]
                                  ELSE db.recipes[r]]]

SetDefault(db, r) == [db EXCEPT !.recipes[r].is_default = TRUE]

\* is_default stays as it is.
ArchiveRecipe(db, r) == [db EXCEPT !.recipes[r].archived = TRUE]

\* close_run(): WHERE end_state IS NULL.
CloseRun(db, verdict) ==
  IF db.end_state = "open" THEN [db EXCEPT !.end_state = verdict] ELSE db

\* update_run(): whether or not the run is open.
WriteVerdict(db, verdict) == [db EXCEPT !.end_state = verdict]

InsertEvent(db, u) == [db EXCEPT !.events = @ \cup {u}]

InsertBadge(db, b) == [db EXCEPT !.badges = @ \cup {b}]
DeleteBadge(db, b) == [db EXCEPT !.badges = @ \ {b}]

\* INSERT OR IGNORE of one copy.
InsertPiece(db, i) ==
  IF db.pieces[i] = "none" THEN [db EXCEPT !.pieces[i] = "pending_inspection"] ELSE db

WritePiece(db, i, status) ==
  IF db.pieces[i] = "none" THEN db ELSE [db EXCEPT !.pieces[i] = status]

WritePlate(db, status) ==
  [db EXCEPT !.pieces = [i \in 1..Copies |->
     IF db.pieces[i] = "none" THEN "none" ELSE status]]

---------------------------------------------------------------------------
(* What must be true of the data whenever another thread, or the next      *)
(* start, can see it.                                                      *)

Loaded(db, p) == {s \in Spools : db.spools[s].status = "in_use"
                                   /\ db.spools[s].printer_serial = p}
Defaults(db, a) == {r \in Recipes : db.recipes[r].part_id = a /\ db.recipes[r].is_default}

AtMostOne(S) == \A x, y \in S : x = y

\* A spool is in use on a printer, and a printer uses one.
SpoolsSound(db) ==
  /\ \A p \in Printers : AtMostOne(Loaded(db, p))
  /\ \A s \in Spools : db.spools[s].status = "in_use"
                         => db.spools[s].printer_serial \in Printers

DefaultsSound(db) ==
  /\ \A a \in Parts : AtMostOne(Defaults(db, a))
  /\ \A r \in Recipes : db.recipes[r].is_default => db.recipes[r].part_id \in Parts

\* The version stamp and the tables belong together.
StampSound(db) == db.tables = Statements * db.version

\* What any build leaves: a version is stamped after its tables were made, in the
\* same transaction or not, and there are none beyond the newest version's.
StampedAfter(db) ==
  Statements * db.version <= db.tables /\ db.tables <= Statements * Versions

\* A plate has its row for every copy or for none.
PlateSound(db) == \A i, j \in 1..Copies : db.pieces[i] = "none" <=> db.pieces[j] = "none"

===========================================================================
