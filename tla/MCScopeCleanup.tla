---------------------------- MODULE MCScopeCleanup ----------------------------
(* Programs of five statements, with all kinds of statements that have bodies. *)
EXTENDS ScopeCleanup

MCKinds == {"if", "while", "do", "for", "range", "switch"}

==============================================================================
