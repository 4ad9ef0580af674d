---------------------------- MODULE MCMigration ----------------------------
(* An upgrade with one object of each class, of which the SSID is gone;    *)
(* the client has an entity the configuration no longer produces.          *)
EXTENDS Migration

CONSTANTS c1, d1, w1, s1

MCTopic == {<<c1, "dropped">>, <<c1, "kept">>, <<d1, "kept">>, <<w1, "kept">>, <<s1, "kept">>}
=============================================================================
