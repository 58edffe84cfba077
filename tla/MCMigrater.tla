----------------------------- MODULE MCMigrater ------------------------------
(* Small instances of Migrater for TLC. *)
EXTENDS Migrater

\* Names in the order of a directory listing: 010.sql, 2.sql, 2-again.sql,
\* readme.sql.  Numbers and names disagree about the order, and two IDs clash.
FileIds == <<"010", "2", "2", NoId>>
FileNumbers == <<10, 2, 2, 0>>

\* The same without the clash.
PlainIds == <<"010", "2", NoId>>
PlainNumbers == <<10, 2, 0>>
==============================================================================
