--------------------------- MODULE AtomicLedger ---------------------------
(***************************************************************************)
(* What the ledger promises: its data change by one whole method, or one   *)
(* whole schema version, at a time, and a file the server gives up on is   *)
(* set aside as it was.                                                    *)
(***************************************************************************)
EXTENDS LedgerRows

VARIABLES
  db,        \* what the file holds
  aside      \* the files set aside

vars == <<db, aside>>

Init == db \in Database /\ aside = {}

---------------------------------------------------------------------------
SetLoadedSpool(p, s) ==
  db.spools[s].status # "none" /\ db' = LoadSpool(ClearSpool(db, p), p, s)

UnloadSpool(p) == db' = ClearSpool(db, p)

CreateSpool(s, status) ==
  db.spools[s].status = "none" /\ db' = InsertSpool(db, s, status)

UpdateSpool(s, status) ==
  db.spools[s].status # "none" /\ db' = WriteStatus(db, s, status)

SpoolChange ==
  \/ \E p \in Printers : UnloadSpool(p)
  \/ \E s \in Spools :
       \/ \E p \in Printers : SetLoadedSpool(p, s)
       \/ \E status \in SPOOL_FREE_STATUSES : CreateSpool(s, status) \/ UpdateSpool(s, status)
       \/ db' = ArchiveSpool(db, s)

\* UNIQUE(part_number, revision)
Unused(revision, a) == \A b \in Parts \ {a} : db.parts[b].revision # revision

SetDefaultRecipe(a, r) ==
  /\ db.recipes[r].part_id = a
  /\ db' = SetDefault(ClearDefault(db, a), r)

PartChange ==
  \E a \in Parts :
    \/ \E revision \in Revisions :
         /\ Unused(revision, a)
         /\ db' = IF db.parts[a].revision = None THEN InsertPart(db, a, revision)
                                                 ELSE WriteRevision(db, a, revision)
    \/ db' = ArchivePart(db, a)
    \/ \E r \in Recipes :
         \/ db.recipes[r].part_id = None /\ db' = InsertRecipe(db, a, r)
         \/ SetDefaultRecipe(a, r)
         \/ db' = ArchiveRecipe(db, r)

\* create_pieces()
Plate == [db EXCEPT !.pieces = [i \in 1..Copies |->
            IF db.pieces[i] = "none" THEN "pending_inspection" ELSE db.pieces[i]]]

RunChange ==
  \/ \E verdict \in END_STATES :
       \/ db' = CloseRun(db, verdict)
       \/ db' = WriteVerdict(db, verdict)
       \/ \E b \in Badges, u \in Uuids :
            db' = InsertEvent(InsertBadge(CloseRun(db, verdict), b), u)
  \/ db' = Plate
  \/ \E i \in 1..Copies, status, other \in PIECE_STATUSES :
       db' \in {WritePiece(db, i, status), WritePiece(WritePlate(db, status), i, other)}
  \/ \E u \in Uuids : db' = InsertEvent(db, u)
  \/ \E b \in Badges : db' \in {InsertBadge(db, b), DeleteBadge(db, b)}

\* A whole schema version, or the badge catalogue.
BootChange ==
  \/ /\ StampSound(db) /\ db.version < Versions
     /\ db' = [db EXCEPT !.tables = @ + Statements, !.version = @ + 1]
  \/ db' = [db EXCEPT !.seeded = TRUE]

SetAside == aside' = aside \cup {db} /\ db' = Empty

Next == \/ (SpoolChange \/ PartChange \/ RunChange \/ BootChange) /\ UNCHANGED aside
        \/ SetAside

Spec == Init /\ [][Next]_vars

===========================================================================
