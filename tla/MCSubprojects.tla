--------------------------- MODULE MCSubprojects ---------------------------
(* Two processes and the wrap files whose trees are made in different ways. *)
EXTENDS Subprojects

Wrap(type, patch, overlaid, fallback, url, versioned, cached_directory) ==
  [type |-> type, patch |-> patch, overlaid |-> overlaid, fallback |-> fallback,
   url |-> url, versioned |-> versioned, cached_directory |-> cached_directory]

MCWraps ==
  {Wrap("file", "none", FALSE, TRUE, TRUE, FALSE, FALSE),
   Wrap("file", "directory", TRUE, FALSE, TRUE, TRUE, FALSE),
   Wrap("git", "archive", FALSE, FALSE, TRUE, TRUE, FALSE),
   Wrap("git", "archive", TRUE, FALSE, FALSE, TRUE, TRUE)}
=============================================================================
