---- MODULE MCProfiles ----
(* Two of the three built-in profiles: one is saved before the other. *)
EXTENDS ProfileSession

CONSTANTS balanced, performance

MCDefaults == <<balanced, performance>>
====
