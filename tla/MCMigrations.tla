----------------------------- MODULE MCMigrations -----------------------------
(* The migrations with the repository's thirteen scripts, two starters.    *)
EXTENDS Migrations

Guarded(n) == [i \in 1..n |-> "guarded"]

\* persistence/migrations/NNN_*.sql, statement by statement.
RepositoryScript ==
  << Guarded(6), Guarded(2), Guarded(1), Guarded(2), <<"backfill", "backfill">>,
     Guarded(2), Guarded(3), <<"guarded", "alter", "guarded", "guarded">>,
     <<"guarded", "alter">>, <<"guarded", "alter">>,
     <<"guarded", "alter", "alter", "alter">>, Guarded(3), <<"guarded", "alter">> >>
================================================================================
