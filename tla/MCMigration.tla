----------------------------- MODULE MCMigration ----------------------------
(* The instance of Migration that is model checked: the bootstrap unit, a    *)
(* unit of two statements and a last unit with a prelude and one tracked     *)
(* statement. The second statement of unit 2 is one catalog() does not show  *)
(* and the database accepts again, as it accepts the prelude and statement 1,*)
(* which somebody may undo. The last statement makes something catalog()     *)
(* shows and validate_catalog does not look for; somebody may drop it too.   *)
EXTENDS Migration, TLC

MCCounts == <<1, 2, 2>>
MCIdempotent == {<<3, 1>>, <<2, 1>>, <<2, 2>>}
MCVisible == {<<2, 1>>, <<3, 1>>, <<3, 2>>}
MCChecked == {<<2, 1>>, <<3, 1>>}
MCDroppable == {<<2, 1>>, <<3, 2>>}

Symmetry == Permutations(Executors)
=============================================================================
