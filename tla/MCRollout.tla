----------------------------- MODULE MCRollout -----------------------------
(* Three releases: a broken registry, new models, broken settings.         *)
EXTENDS Rollout
============================================================================
