-------------------------- MODULE BacktrackingReader --------------------------
(***************************************************************************)
(* What the parser is promised by its token stream: one reading position   *)
(* in the text, bookmarks that remember a position, and nothing else.  A   *)
(* position is a token of the text and, for a ">>" that was split to close *)
(* two template argument lists, which of its two ">" is meant.  Neither    *)
(* the lexer's own cursor nor the token waiting to be injected appears.    *)
(***************************************************************************)
EXTENDS Naturals

CONSTANTS
  TextLen,      \* number of tokens in the text
  Text,         \* their kinds: "shr" for a ">>", "plain" for any other
  MaxHandles,   \* bookmarks that may be handed out
  None          \* a bookmark that is not set

VARIABLES
  here,         \* the position of the token the parser looks at
  marks,        \* the position each bookmark remembers, or None
  issued        \* bookmarks handed out so far

vars == <<here, marks, issued>>

Handles == 0 .. MaxHandles - 1

At(i, part) == [at |-> i, part |-> part]

\* The second ">" follows the first; behind the last token is its end, TextLen + 1.
Following(p) ==
  IF p.part = "first"
  THEN At(p.at, "second")
  ELSE At(IF p.at <= TextLen THEN p.at + 1 ELSE p.at, "whole")

Init ==
  /\ here = At(1, "whole")
  /\ marks = [h \in Handles |-> None]
  /\ issued = 0

Take ==
  /\ here' = Following(here)
  /\ UNCHANGED <<marks, issued>>

Split ==
  /\ here.part = "whole" /\ here.at <= TextLen /\ Text[here.at] = "shr"
  /\ here' = At(here.at, "first")
  /\ UNCHANGED <<marks, issued>>

Mark ==
  /\ issued < MaxHandles
  /\ marks' = [marks EXCEPT ![issued] = here]
  /\ issued' = issued + 1
  /\ UNCHANGED here

\* Looking ahead uses up a bookmark and leaves no other trace.
LookAhead ==
  /\ issued < MaxHandles
  /\ issued' = issued + 1
  /\ UNCHANGED <<here, marks>>

Rewind(h) ==
  /\ marks[h] # None
  /\ here' = marks[h]
  /\ UNCHANGED <<marks, issued>>

Forget(h) ==
  /\ marks' = [marks EXCEPT ![h] = None]
  /\ UNCHANGED <<here, issued>>

Next ==
  \/ Take \/ Split \/ Mark \/ LookAhead
  \/ \E h \in Handles : Rewind(h) \/ Forget(h)

Spec == Init /\ [][Next]_vars
=============================================================================
