------------------------------ MODULE MCMigrate ------------------------------
(* Model-checking instances of Migrate.                                     *)
EXTENDS Migrate

VmaOf(s, e) == [vm_start |-> s, vm_end |-> e]

\* Two vmas, one of them across tables of all levels; and one from the first page
\* to the last.
Two == {<<VmaOf(1, 3), VmaOf(5, 12)>>, <<VmaOf(0, 16)>>}
=============================================================================
