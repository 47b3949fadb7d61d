-------------------------- MODULE MCConfiguration --------------------------
(* Instances of Configuration for TLC. *)
EXTENDS Configuration

MCFlags == {[readonly |-> FALSE, available |-> TRUE], [readonly |-> TRUE, available |-> TRUE]}

MCUnwritable == {<<"float", 1>>}
=============================================================================
