------------------------------ MODULE Ledger ------------------------------
(***************************************************************************)
(* server/ledger.py, class Ledger: one SQLite connection that API threads  *)
(* and the run recorder share under an RLock, transaction() blocks that    *)
(* nest by SAVEPOINT, the methods written with them, the routes of         *)
(* server/main.py that call these methods, and the boot that opens,        *)
(* migrates or sets aside the file.  A statement may fail, COMMIT may be   *)
(* refused, and the server may die between any two steps.                  *)
(*                                                                         *)
(* SQLite is external: BEGIN, SAVEPOINT, ROLLBACK TO, RELEASE and COMMIT   *)
(* do what its documentation says, and a file survives a crash as of its   *)
(* last COMMIT.                                                            *)
(***************************************************************************)
EXTENDS LedgerRows

CONSTANTS
  Threads,       \* threads that call the ledger
  Main,          \* the one of them that boots the server
  NoThread,
  Scenarios,     \* what ledger.db may hold at first, with the calls clients make
  MaxFaults      \* bound: statements that fail, commits refused, crashes

VARIABLES
  disk,          \* what is committed
  damage,        \* what is wrong with the file: see Damages
  aside,         \* ghost: the contents of the files renamed *.corrupt-<stamp>
  work,          \* the data as the connection sees it
  saves,         \* SQLite: the data at BEGIN and at each open savepoint
  blocks,        \* the with-blocks being executed; as many as _tx_depth says
  lock,          \* the owner of _lock
  thread,        \* each thread's call
  server,        \* the phase of the boot
  clients,       \* the group of calls clients make
  faults

file == <<disk, damage, aside>>
conn == <<work, saves, blocks, lock>>
bounds == <<clients, faults>>
vars == <<file, conn, thread, server, bounds>>

---------------------------------------------------------------------------
(* Calls.  Each is the list of steps its thread takes: queries whose      *)
(* answer may end the request, the two ends of transaction() blocks, and   *)
(* statements.                                                             *)

\* execute() and transaction(): a block of its own.
Block(body) == <<[op |-> "begin", skip |-> 0]>> \o body \o <<[op |-> "end"]>>

\* The same, with IntegrityError caught right outside the block: control goes on
\* after its end, which is skip steps further.
TryBlock(body) ==
  <<[op |-> "begin", skip |-> Len(body) + 2]>> \o body \o <<[op |-> "end"]>>

AddEvent(u) == TryBlock(<<[op |-> "event", uuid |-> u]>>)

Load(p, s) == Block(<<[op |-> "clear", printer |-> p],
                      [op |-> "load", printer |-> p, spool |-> s]>>)

\* Mutant: the spool that was loaded stays.
LoadWithoutClear(p, s) == Block(<<[op |-> "load", printer |-> p, spool |-> s]>>)

\* Mutant: two statements, each its own transaction.
LoadInTwo(p, s) == Block(<<[op |-> "clear", printer |-> p]>>)
                     \o Block(<<[op |-> "load", printer |-> p, spool |-> s]>>)

SetLoadedSpool(p, s) == Load(p, s)

SetDefaultRecipe(a, r) ==
  <<[op |-> "owns_recipe", part |-> a, recipe |-> r]>>
    \o Block(<<[op |-> "clear_default", part |-> a], [op |-> "set_default", recipe |-> r]>>)

CreatePieces == Block([i \in 1..Copies |-> [op |-> "piece", copy |-> i]])

\* Mutant: the first version's transaction stamps the newest version.
MigrateStampingLast(v) ==
  Block([n \in 1..Statements |-> [op |-> "create", table |-> Statements * (v - 1) + n]]
          \o <<[op |-> "stamp", version |-> Versions]>>)

MigrateTo(v) ==
  Block([n \in 1..Statements |-> [op |-> "create", table |-> Statements * (v - 1) + n]]
          \o <<[op |-> "stamp", version |-> v]>>)

SpoolCalls ==
  [do : {"create_spool", "edit_spool"}, spool : Spools, status : SPOOL_FREE_STATUSES]
    \cup [do : {"set_loaded_spool"}, printer : Printers, spool : Spools]
    \cup [do : {"unload_spool"}, printer : Printers]

PartCalls ==
  [do : {"create_part", "edit_part"}, part : Parts, revision : Revisions]
    \cup [do : {"archive_part"}, part : Parts]
    \cup [do : {"archive_spool"}, spool : Spools]

RecipeCalls ==
  [do : {"add_part_recipe", "edit_part_recipe"}, part : Parts, recipe : Recipes,
   is_default : BOOLEAN]
    \cup [do : {"archive_part_recipe"}, part : Parts, recipe : Recipes]

PlateCalls ==
  [do : {"end_run"}, verdict : END_STATES]
    \cup [do : {"patch_piece"}, copy : 1..Copies, status : PIECE_STATUSES]
    \cup [do : {"bulk_pieces"}, status : PIECE_STATUSES, copy : 1..Copies, other : PIECE_STATUSES]

RunCalls ==
  [do : {"patch_run"}, verdict : END_STATES]
    \cup [do : {"add_event"}, uuid : Uuids]
    \cup [do : {"close_with_event"}, verdict : END_STATES, badge : Badges, uuid : Uuids]
    \cup [do : {"add_run_badge"}, badge : Badges, by : {"detector", "operator"}]
    \cup [do : {"remove_run_badge"}, badge : Badges]

Calls == SpoolCalls \cup PartCalls \cup RecipeCalls \cup PlateCalls \cup RunCalls
Group == [spools |-> SpoolCalls, parts |-> PartCalls, recipes |-> RecipeCalls,
          plate |-> PlateCalls, run |-> RunCalls, all |-> Calls]

\* A file may raise in _connect() or at PRAGMA integrity_check ("unopenable"), or
\* only at a statement that reaches its bad pages ("malformed"); integrity_check()
\* describes those in the rows it returns, which the code throws away.
Damages == {"none", "unopenable", "malformed"}

ASSUME LedgerAssumption ==
  /\ NoThread \notin Threads /\ Main \in Threads
  /\ MaxFaults \in Nat
  /\ \A s \in Scenarios :
       /\ s.file \in Database /\ s.damage \in Damages /\ s.calls \in DOMAIN Group
       /\ SpoolsSound(s.file) /\ DefaultsSound(s.file) /\ PlateSound(s.file)

ASSUME StampAssumption == \A s \in Scenarios : StampedAfter(s.file)

BootCalls == [do : {"migrate"}, version : 1..Versions] \cup [do : {"seed_badges"}]
Nothing == [do |-> "nothing"]

SpoolSteps(c) ==
  CASE c.do = "create_spool" ->
         Block(<<[op |-> "insert_spool", spool |-> c.spool, status |-> c.status]>>)
    [] c.do = "edit_spool" ->
         <<[op |-> "get_spool", spool |-> c.spool]>>
           \o Block(<<[op |-> "status", spool |-> c.spool, status |-> c.status]>>)
    [] c.do = "set_loaded_spool" ->
         <<[op |-> "get_spool", spool |-> c.spool]>> \o SetLoadedSpool(c.printer, c.spool)
    [] c.do = "unload_spool" -> Block(<<[op |-> "clear", printer |-> c.printer]>>)

PartSteps(c) ==
  CASE c.do = "archive_spool" -> Block(<<[op |-> "archive_spool", spool |-> c.spool]>>)
    [] c.do = "create_part" ->
         Block(<<[op |-> "insert_part", part |-> c.part, revision |-> c.revision]>>)
    [] c.do = "edit_part" ->
         <<[op |-> "get_part", part |-> c.part]>>
           \o Block(<<[op |-> "revision", part |-> c.part, revision |-> c.revision]>>)
    [] c.do = "archive_part" -> Block(<<[op |-> "archive_part", part |-> c.part]>>)

\* A new recipe is made the default in a second transaction.
RecipeSteps(c) ==
  CASE c.do = "add_part_recipe" ->
         <<[op |-> "get_part", part |-> c.part]>>
           \o Block(<<[op |-> "insert_recipe", part |-> c.part, recipe |-> c.recipe]>>)
           \o (IF c.is_default THEN SetDefaultRecipe(c.part, c.recipe) ELSE <<>>)
    [] c.do = "edit_part_recipe" ->
         <<[op |-> "owns_recipe", part |-> c.part, recipe |-> c.recipe]>>
           \o (IF c.is_default THEN SetDefaultRecipe(c.part, c.recipe) ELSE <<>>)
    [] c.do = "archive_part_recipe" ->
         <<[op |-> "owns_recipe", part |-> c.part, recipe |-> c.recipe]>>
           \o Block(<<[op |-> "archive_recipe", recipe |-> c.recipe]>>)

\* end_run: what RunRecorder._end() does, the spool's charge left out.
PlateSteps(c) ==
  CASE c.do = "end_run" ->
         Block(<<[op |-> "close", verdict |-> c.verdict]>>) \o CreatePieces
    [] c.do = "patch_piece" ->
         Block(<<[op |-> "write_piece", copy |-> c.copy, status |-> c.status]>>)
    [] c.do = "bulk_pieces" ->
         Block(<<[op |-> "plate", status |-> c.status],
                 [op |-> "write_piece", copy |-> c.copy, status |-> c.other]>>)

\* close_with_event: the nesting transaction() is made for, a block that catches
\* what the block inside it raises.
RunSteps(c) ==
  CASE c.do = "patch_run" -> Block(<<[op |-> "verdict", verdict |-> c.verdict]>>)
    [] c.do = "add_event" -> AddEvent(c.uuid)
    [] c.do = "close_with_event" ->
         Block(<<[op |-> "close", verdict |-> c.verdict]>>
                 \o TryBlock(<<[op |-> "badge", badge |-> c.badge],
                               [op |-> "event", uuid |-> c.uuid]>>))
    [] c.do = "add_run_badge" ->
         <<[op |-> "may_badge", badge |-> c.badge, by |-> c.by]>>
           \o Block(<<[op |-> "badge", badge |-> c.badge]>>)
    [] c.do = "remove_run_badge" -> Block(<<[op |-> "unbadge", badge |-> c.badge]>>)

BootSteps(c) ==
  CASE c.do = "migrate" -> MigrateTo(c.version)
    [] c.do = "seed_badges" -> Block(<<[op |-> "seed"]>>)

Steps(c) ==
  CASE c \in SpoolCalls -> SpoolSteps(c)
    [] c \in PartCalls -> PartSteps(c)
    [] c \in RecipeCalls -> RecipeSteps(c)
    [] c \in PlateCalls -> PlateSteps(c)
    [] c \in RunCalls -> RunSteps(c)
    [] c \in BootCalls -> BootSteps(c)
    [] OTHER -> <<>>

---------------------------------------------------------------------------
(* Queries and statements on data db.                                      *)

Queries == {"get_spool", "get_part", "owns_recipe", "may_badge"}

\* _check_badge(): the system applies automatic badges only.
Answer(i, db) ==
  CASE i.op = "get_spool" -> db.spools[i.spool].status # "none"
    [] i.op = "get_part" -> db.parts[i.part].revision # None
    [] i.op = "owns_recipe" -> db.recipes[i.recipe].part_id = i.part
    [] i.op = "may_badge" -> i.by = "operator" \/ i.badge \in AutoBadges

Taken(i, db) ==
  \E a \in Parts \ {i.part} : db.parts[a].revision = i.revision

\* PRIMARY KEY and UNIQUE constraints, and a table that is there already.
Violates(i, db) ==
  CASE i.op = "insert_spool" -> db.spools[i.spool].status # "none"
    [] i.op = "insert_part" -> db.parts[i.part].revision # None \/ Taken(i, db)
    [] i.op = "revision" -> Taken(i, db)
    [] i.op = "insert_recipe" -> db.recipes[i.recipe].part_id # None
    [] i.op = "event" -> i.uuid \in db.events
    [] i.op = "create" -> db.tables >= i.table
    [] OTHER -> FALSE

Effect(i, db) ==
  CASE i.op = "insert_spool" -> InsertSpool(db, i.spool, i.status)
    [] i.op = "status" -> WriteStatus(db, i.spool, i.status)
    [] i.op = "clear" -> ClearSpool(db, i.printer)
    [] i.op = "load" -> LoadSpool(db, i.printer, i.spool)
    [] i.op = "archive_spool" -> ArchiveSpool(db, i.spool)
    [] i.op = "insert_part" -> InsertPart(db, i.part, i.revision)
    [] i.op = "revision" -> WriteRevision(db, i.part, i.revision)
    [] i.op = "archive_part" -> ArchivePart(db, i.part)
    [] i.op = "insert_recipe" -> InsertRecipe(db, i.part, i.recipe)
    [] i.op = "clear_default" -> ClearDefault(db, i.part)
    [] i.op = "set_default" -> SetDefault(db, i.recipe)
    [] i.op = "archive_recipe" -> ArchiveRecipe(db, i.recipe)
    [] i.op = "close" -> CloseRun(db, i.verdict)
    [] i.op = "verdict" -> WriteVerdict(db, i.verdict)
    [] i.op = "piece" -> InsertPiece(db, i.copy)
    [] i.op = "write_piece" -> WritePiece(db, i.copy, i.status)
    [] i.op = "plate" -> WritePlate(db, i.status)
    [] i.op = "event" -> InsertEvent(db, i.uuid)
    [] i.op = "badge" -> InsertBadge(db, i.badge)
    [] i.op = "unbadge" -> DeleteBadge(db, i.badge)
    [] i.op = "create" -> [db EXCEPT !.tables = i.table]
    [] i.op = "stamp" -> [db EXCEPT !.version = i.version]
    [] i.op = "seed" -> [db EXCEPT !.seeded = TRUE]

---------------------------------------------------------------------------
(* transaction().                                                          *)

Idle == [call |-> Nothing, pc |-> 0, raising |-> "no"]

Init ==
  /\ \E s \in Scenarios : disk = s.file /\ damage = s.damage /\ clients = s.calls
  /\ aside = {}
  /\ work = disk /\ saves = <<>> /\ blocks = <<>> /\ lock = NoThread
  /\ thread = [t \in Threads |-> Idle]
  /\ server = "down"
  /\ faults = 0

Step(t) == Steps(thread[t].call)[thread[t].pc]
Running(t) == thread[t].call # Nothing /\ thread[t].raising = "no"
\* t may take _lock: nobody holds it, or t itself does.
MayLock(t) == lock \in {NoThread, t}

\* Mutant: _migrate() runs after the guard.
AbandonUnguarded(t) ==
  /\ thread' = [thread EXCEPT ![t] = Idle]
  /\ server' = IF t = Main /\ server # "up" THEN "down" ELSE server

\* The call of t is over; for the boot, over with an error.
Abandon(t) ==
  /\ thread' = [thread EXCEPT ![t] = Idle]
  /\ server' = IF t = Main /\ server # "up"
                 THEN IF server = "guarded" THEN "unusable" ELSE "down"
                 ELSE server

\* t goes on at step pc, or has done its last one.
Continue(t, pc) ==
  thread' = [thread EXCEPT ![t] =
    IF pc > Len(Steps(@.call)) THEN Idle ELSE [call |-> @.call, pc |-> pc, raising |-> "no"]]

\* query(): takes the lock for its one statement.
Query(t) ==
  /\ Running(t) /\ Step(t).op \in Queries
  /\ MayLock(t)
  /\ IF Answer(Step(t), work)
       THEN Continue(t, thread[t].pc + 1) /\ UNCHANGED server
       ELSE Abandon(t)
  /\ UNCHANGED <<file, conn, bounds>>

\* BEGIN, or SAVEPOINT in a block inside another.
Enter(t) ==
  /\ Running(t) /\ Step(t).op = "begin"
  /\ MayLock(t)
  /\ blocks = <<>> => saves = <<>>
  /\ lock' = t
  /\ saves' = Append(saves, work)
  /\ blocks' = Append(blocks, [pc |-> thread[t].pc, entry |-> work])
  /\ Continue(t, thread[t].pc + 1)
  /\ UNCHANGED <<file, work, server, bounds>>

\* BEGIN inside a transaction that nobody is executing any more.
EnterRefused(t) ==
  /\ Running(t) /\ Step(t).op = "begin"
  /\ MayLock(t)
  /\ blocks = <<>> /\ saves # <<>>
  /\ Abandon(t)
  /\ UNCHANGED <<file, conn, bounds>>

InBlock(t) ==
  Running(t) /\ lock = t /\ Step(t).op \notin Queries \cup {"begin", "end"}

Raise(t, exception) == thread' = [thread EXCEPT ![t].raising = exception]

Execute(t) ==
  /\ InBlock(t)
  /\ IF Violates(Step(t), work)
       THEN Raise(t, IF Step(t).op = "create" THEN "operational" ELSE "integrity")
              /\ UNCHANGED work
       ELSE work' = Effect(Step(t), work) /\ Continue(t, thread[t].pc + 1)
  /\ UNCHANGED <<file, saves, blocks, lock, server, bounds>>

\* Disk full, an I/O error, a lock held by another process; or a bad page.
StatementFails(t) ==
  /\ InBlock(t)
  /\ \/ faults < MaxFaults /\ faults' = faults + 1
     \/ damage = "malformed" /\ UNCHANGED faults
  /\ Raise(t, "operational")
  /\ UNCHANGED <<file, conn, server, clients>>

Pop(s) == SubSeq(s, 1, Len(s) - 1)
Top(s) == s[Len(s)]

\* The innermost block is left.
LeaveBlock ==
  /\ blocks' = Pop(blocks)
  /\ lock' = IF Len(blocks) = 1 THEN NoThread ELSE lock

\* COMMIT, or RELEASE in a block inside another.
Leave(t) ==
  /\ Running(t) /\ lock = t /\ Step(t).op = "end"
  /\ disk' = IF Len(blocks) = 1 THEN work ELSE disk
  /\ saves' = Pop(saves)
  /\ LeaveBlock
  /\ Continue(t, thread[t].pc + 1)
  /\ UNCHANGED <<damage, aside, work, server, bounds>>

\* COMMIT raises: another process reads the file and WAL is not in use.  It is in
\* the else branch, so that no ROLLBACK follows: the transaction stays open.
CommitRefused(t) ==
  /\ Running(t) /\ lock = t /\ Step(t).op = "end"
  /\ Len(blocks) = 1
  /\ faults < MaxFaults /\ faults' = faults + 1
  /\ LeaveBlock
  /\ Abandon(t)
  /\ UNCHANGED <<file, work, saves, clients>>

\* Mutant: only the outermost block rolls anything back.
UnwindOutermost(t) ==
  /\ thread[t].raising # "no"
  /\ IF Len(blocks) = 1 THEN work' = Top(saves) ELSE UNCHANGED work
  /\ saves' = Pop(saves)
  /\ LeaveBlock
  /\ LET begin == Top(blocks).pc
          skip == Steps(thread[t].call)[begin].skip
     IN IF skip > 0 /\ thread[t].raising = "integrity"
          THEN Continue(t, begin + skip) /\ UNCHANGED server
        ELSE IF Len(blocks) = 1 THEN Abandon(t)
        ELSE UNCHANGED <<thread, server>>
  /\ UNCHANGED <<file, bounds>>

\* The exception leaves the innermost block: ROLLBACK, or ROLLBACK TO and RELEASE.
\* It is caught there, or goes on to the next block, or ends the call.
Unwind(t) ==
  /\ thread[t].raising # "no"
  /\ work' = Top(saves)
  /\ saves' = Pop(saves)
  /\ LeaveBlock
  /\ LET begin == Top(blocks).pc
          skip == Steps(thread[t].call)[begin].skip
     IN IF skip > 0 /\ thread[t].raising = "integrity"
          THEN Continue(t, begin + skip) /\ UNCHANGED server
        ELSE IF Len(blocks) = 1 THEN Abandon(t)
        ELSE UNCHANGED <<thread, server>>
  /\ UNCHANGED <<file, bounds>>

---------------------------------------------------------------------------
(* The boot, and its end.                                                  *)

Call(t, c) == thread' = [thread EXCEPT ![t] = [call |-> c, pc |-> 1, raising |-> "no"]]

\* A request does nothing before its first step, so that it may as well come when
\* no other is about to take its own.
Issue(t, c) ==
  /\ server = "up" /\ thread[t] = Idle
  /\ lock = NoThread /\ \A u \in Threads : thread[u].pc # 1
  /\ Call(t, c)
  /\ UNCHANGED <<file, conn, server, bounds>>

\* A new process, _connect() the first time and PRAGMA integrity_check: what they
\* raise is caught, and the answer of the check is not looked at.
Open ==
  /\ server = "down"
  /\ work' = disk /\ saves' = <<>>
  /\ \/ damage = "unopenable" /\ server' = "unusable" /\ UNCHANGED faults
     \/ damage # "unopenable" /\ server' = "guarded" /\ UNCHANGED faults
     \/ faults < MaxFaults /\ faults' = faults + 1 /\ server' = "unusable"
  /\ UNCHANGED <<file, blocks, lock, thread, clients>>

\* The connection is closed, the file renamed, and a new one created.
Quarantine ==
  /\ server = "unusable"
  /\ aside' = aside \cup {disk}
  /\ disk' = Empty /\ damage' = "none"
  /\ work' = Empty /\ saves' = <<>>
  /\ server' = "fresh"
  /\ UNCHANGED <<blocks, lock, thread, bounds>>

\* _migrate() applies the next version, or there is none and the badges are
\* seeded, which is not guarded any more.
Boot ==
  /\ thread[Main] = Idle
  /\ \/ /\ server \in {"guarded", "fresh"} /\ work.version < Versions
        /\ Call(Main, [do |-> "migrate", version |-> work.version + 1])
        /\ UNCHANGED server
     \/ /\ server \in {"guarded", "fresh"} /\ work.version = Versions
        /\ server' = "seeding"
        /\ Call(Main, [do |-> "seed_badges"])
     \/ /\ server = "seeding"
        /\ server' = "up"
        /\ UNCHANGED thread
  /\ UNCHANGED <<file, conn, bounds>>

\* The process dies, and its connection with it.
Crash ==
  /\ server # "down"
  /\ faults < MaxFaults /\ faults' = faults + 1
  /\ work' = disk /\ saves' = <<>> /\ blocks' = <<>> /\ lock' = NoThread
  /\ thread' = [t \in Threads |-> Idle]
  /\ server' = "down"
  /\ UNCHANGED <<file, clients>>

Next ==
  \/ \E t \in Threads :
       \/ \E c \in Group[clients] : Issue(t, c)
       \/ Query(t) \/ Enter(t) \/ EnterRefused(t) \/ Execute(t) \/ StatementFails(t)
       \/ Leave(t) \/ CommitRefused(t) \/ Unwind(t)
  \/ Open \/ Quarantine \/ Boot \/ Crash

Spec == Init /\ [][Next]_vars

---------------------------------------------------------------------------
Calling == [call : Calls \cup BootCalls \cup {Nothing}, pc : Nat,
            raising : {"no", "integrity", "operational"}]

TypeOK ==
  /\ disk \in Database /\ damage \in Damages /\ work \in Database
  /\ saves \in Seq(Database)
  /\ blocks \in Seq([pc : Nat, entry : Database])
  /\ lock \in Threads \cup {NoThread}
  /\ thread \in [Threads -> Calling]
  /\ server \in {"down", "unusable", "guarded", "fresh", "seeding", "up"}
  /\ faults \in 0..MaxFaults /\ clients \in DOMAIN Group

\* ledger.db: a printer has one spool in use, a part one default recipe, a plate
\* all of its pieces or none, whoever called what and wherever the server died.
CommittedSound == SpoolsSound(disk) /\ DefaultsSound(disk) /\ PlateSound(disk)

\* Requests are served from a migrated and seeded file only.
ServesMigrated ==
  server = "up" => disk.version = Versions /\ StampSound(disk) /\ disk.seeded

\* transaction(): a block that raises leaves the data as they were when it was
\* entered, even if the block around it catches the exception.
RaiseRestores ==
  [][\A t \in Threads :
       thread[t].raising # "no" /\ Len(blocks') < Len(blocks) /\ server' # "down"
         => work' = Top(blocks).entry]_vars

\* What the guard of _open_or_quarantine() does give: a server that goes down met a fault, or it was seeding
\* the badges, past the guard, of a file that is malformed and opens all the same.
\* A file that does not open, and one an older build left half-migrated, never
\* keep it from booting.
OnlyMalformedStopsBoot ==
  [][server # "down" /\ server' = "down" =>
       faults' > 0 \/ (server = "seeding" /\ damage = "malformed")]_vars

\* execute(), ledger.py:568: a caught error never leaves an open transaction
\* on the shared connection.
NoOpenTransaction == server = "up" /\ blocks = <<>> => saves = <<>>

Atomic == INSTANCE AtomicLedger WITH db <- disk

\* Every method and every schema version reaches the file as a whole or not at
\* all, and no file is lost.
IsAtomic == Atomic!Spec

===========================================================================
