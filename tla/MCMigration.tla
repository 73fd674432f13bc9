---------------------------- MODULE MCMigration ----------------------------
(* An instance of Migration for TLC. *)
EXTENDS Migration

CONSTANTS old, new1, new2

\* A rolling upgrade: one process of the old release, two of the new one.
Releases == [p \in Process |-> IF p = old THEN 2 ELSE 3]
NoneOrOld == {{}, {old}}

\* Version 1 is the one of the repository: the up file for PostgreSQL begins with
\* a PRAGMA, and there is no down file.  The others are of releases to come, one
\* of which has forgotten the down file for SQLite.
RefusedFiles == {<<"postgres", 1>>}
NoDownFiles == {<<"postgres", 1>>, <<"sqlite", 3>>}
=============================================================================
