------------------------------ MODULE TokenCursor ------------------------------
(***************************************************************************)
(* The parser's token stream (src/Parser_Core.cpp): the lexer's position,  *)
(* the token under the cursor, the second ">" of a split ">>" that waits   *)
(* to be injected, and the positions saved for backtracking.               *)
(***************************************************************************)
EXTENDS Naturals

CONSTANTS
  TextLen,       \* number of tokens the lexer finds in the source
  Text,          \* their kinds: "shr" for a ">>", "plain" for any other
  MaxHandles,    \* bound on the save handles of a run
  MaxLookahead,  \* bound on the argument of peek_token
  None           \* an empty slot, and the Uninitialized token

ASSUME TextAssumption ==
  TextLen \in Nat /\ Text \in [1 .. TextLen -> {"plain", "shr"}]
ASSUME BoundAssumption == MaxHandles \in Nat /\ MaxLookahead \in Nat

Handles == 0 .. MaxHandles - 1

\* A token, known by its place in the text; TextLen + 1 is the end of file,
\* "first" and "second" are the two ">" a ">>" was split into.
Token(i, part) == [at |-> i, part |-> part]
Tokens == [at : 1 .. TextLen + 1, part : {"whole", "first", "second"}]

ASSUME NoneAssumption ==
  /\ None \notin Tokens
  /\ None \notin [lexer : 1 .. TextLen + 1, current : Tokens, injected : Tokens \cup {None}]

VARIABLES
  cursor,            \* lexer position, current_token_ and injected_token_
  saved_tokens,      \* SavedToken of each handle, None when discarded or not issued
  next_save_handle

vars == <<cursor, saved_tokens, next_save_handle>>

-------------------------------------------------------------------------------
\* Mutant: the lexer moves on at the end of the text.
LexedPastTheEnd(i) == i + 1

\* The lexer delivers the token at its position; at the end it delivers EndOfFile again.
LexedPast(i) == IF i <= TextLen THEN i + 1 ELSE i

Init ==
  /\ cursor = [lexer |-> LexedPast(1), current |-> Token(1, "whole"), injected |-> None]
  /\ saved_tokens = [h \in Handles |-> None]
  /\ next_save_handle = 0

\* Mutant: the injected token is forgotten.
AdvancedPastInjected(c) ==
  [c EXCEPT !.current = Token(c.lexer, "whole"), !.lexer = LexedPast(c.lexer), !.injected = None]

\* advance, consume and expect: the injected token comes before the lexer's next one.
Advanced(c) ==
  IF c.injected # None
  THEN [c EXCEPT !.current = c.injected, !.injected = None]
  ELSE [c EXCEPT !.current = Token(c.lexer, "whole"), !.lexer = LexedPast(c.lexer)]

Advance ==
  /\ cursor' = Advanced(cursor)
  /\ UNCHANGED <<saved_tokens, next_save_handle>>

\* split_right_shift_token: a no-op unless the current token is a ">>".
IsShiftRight(t) == t.part = "whole" /\ t.at <= TextLen /\ Text[t.at] = "shr"

Halved(c) ==
  [c EXCEPT !.current = Token(c.current.at, "first"),
            !.injected = Token(c.current.at, "second")]

SplitRightShift ==
  /\ IsShiftRight(cursor.current)
  /\ cursor' = Halved(cursor)
  /\ UNCHANGED <<saved_tokens, next_save_handle>>

-------------------------------------------------------------------------------
\* Mutant: a SavedToken without the injected token.
SnapshotWithoutInjected(c) == [lexer |-> c.lexer, current |-> c.current, injected |-> None]

\* What a SavedToken records of the cursor, and the cursor a restore makes of it:
\* all three members are assigned, whatever the cursor c was.
Snapshot(c) == [lexer |-> c.lexer, current |-> c.current, injected |-> c.injected]

Restored(c, s) == [lexer |-> s.lexer, current |-> s.current, injected |-> s.injected]

SaveTokenPosition ==
  /\ next_save_handle < MaxHandles
  /\ saved_tokens' = [saved_tokens EXCEPT ![next_save_handle] = Snapshot(cursor)]
  /\ next_save_handle' = next_save_handle + 1
  /\ UNCHANGED cursor

\* restore_token_position and restore_lexer_position_only: any live handle, in any
\* order, also forward to a saved body, and as often as wanted.
RestoreTokenPosition(h) ==
  /\ saved_tokens[h] # None
  /\ cursor' = Restored(cursor, saved_tokens[h])
  /\ UNCHANGED <<saved_tokens, next_save_handle>>

DiscardSavedToken(h) ==
  /\ saved_tokens[h] # None
  /\ saved_tokens' = [saved_tokens EXCEPT ![h] = None]
  /\ UNCHANGED <<cursor, next_save_handle>>

\* peek_token(n): save, consume n tokens, restore, discard.
AheadOf(c, n) ==
  LET ahead[k \in 0 .. n] == IF k = 0 THEN c ELSE Advanced(ahead[k - 1])
  IN  ahead[n]

PeekToken(n) ==
  /\ next_save_handle < MaxHandles
  /\ cursor' = Restored(AheadOf(cursor, n), Snapshot(cursor))
  /\ saved_tokens' = [saved_tokens EXCEPT ![next_save_handle] = None]
  /\ next_save_handle' = next_save_handle + 1

-------------------------------------------------------------------------------
Next ==
  \/ Advance
  \/ SplitRightShift
  \/ SaveTokenPosition
  \/ \E h \in Handles : RestoreTokenPosition(h)
  \/ \E h \in Handles : DiscardSavedToken(h)
  \/ \E n \in 1 .. MaxLookahead : PeekToken(n)

Spec == Init /\ [][Next]_vars

-------------------------------------------------------------------------------
Cursors == [lexer : 1 .. TextLen + 1, current : Tokens, injected : Tokens \cup {None}]

\* Every variable has its type, and no handle is live before it is issued.
TypeOK ==
  /\ cursor \in Cursors
  /\ saved_tokens \in [Handles -> Cursors \cup {None}]
  /\ next_save_handle \in 0 .. MaxHandles
  /\ \A h \in Handles : h >= next_save_handle => saved_tokens[h] = None

\* The lexer stands just behind the current token, and a ">" is waiting exactly when
\* the current token is the first half of the ">>" it was split from.
Coherent(c) ==
  /\ c.lexer = LexedPast(c.current.at)
  /\ c.injected = IF c.current.part = "first" THEN Token(c.current.at, "second") ELSE None
  /\ c.current.part # "whole" => c.current.at <= TextLen /\ Text[c.current.at] = "shr"

\* No interleaving of splits, saves, restores and discards loses or duplicates a ">":
\* the injected token of split_right_shift_token always belongs to the token under the
\* cursor, here and in every position saved for backtracking.
CursorCoherent ==
  /\ Coherent(cursor)
  /\ \A h \in Handles : saved_tokens[h] # None => Coherent(saved_tokens[h])

\* The parser's token stream is a plain backtracking reader: its lexer position and its
\* injected token are an implementation detail a caller never sees.
Reader == INSTANCE BacktrackingReader WITH
  here <- cursor.current,
  marks <- [h \in Handles |-> IF saved_tokens[h] = None THEN None ELSE saved_tokens[h].current],
  issued <- next_save_handle

ReadsLikeOneCursor == Reader!Spec
=============================================================================
