----------------------------- MODULE MCLedger -----------------------------
EXTENDS Ledger, TLC

Scenario(calls, file_, damage_) == [calls |-> calls, file |-> file_, damage |-> damage_]

\* A schema version 2 file with two parts.
Catalogue ==
  [Empty EXCEPT !.tables = 2 * Statements, !.version = 2, !.seeded = TRUE,
                !.parts = [a \in Parts |-> [revision |-> a, archived |-> FALSE]]]

\* The groups of calls share no row.  No file, a file of an older version, one an
\* older build left half-migrated, one that cannot be opened, and one that opens and
\* is malformed.
MCScenarios ==
  {Scenario("spools", Empty, "none"),
   Scenario("recipes", Catalogue, "none"),
   Scenario("plate", [Empty EXCEPT !.tables = 1], "none"),
   Scenario("run", Empty, "none"),
   Scenario("parts", Catalogue, "unopenable"),
   Scenario("plate", Catalogue, "malformed")}

\* Parts and Revisions are the same set, so that the catalogue is symmetric.
Symmetry == Permutations(Spools) \cup Permutations(Printers) \cup Permutations(Parts)
              \cup Permutations(Recipes) \cup Permutations(Threads \ {Main})

===========================================================================
