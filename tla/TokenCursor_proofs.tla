------------------------- MODULE TokenCursor_proofs -------------------------
(***************************************************************************)
(* The token stream is well typed and coherent, and implements the plain   *)
(* backtracking reader, for every text and every number of save handles.   *)
(***************************************************************************)
EXTENDS TokenCursor, TLAPS

\* The lexer's position stays within the text and its end.
LEMMA LexedPastType ==
  ASSUME NEW i \in 1 .. TextLen + 1
  PROVE  LexedPast(i) \in 1 .. TextLen + 1
BY TextAssumption DEF LexedPast

\* An empty slot is neither a cursor nor a token.
LEMMA NoneIsNoCursor == None \notin Cursors /\ None \notin Tokens
BY NoneAssumption DEF Cursors

\* One token forward takes a well-typed cursor to a well-typed cursor.
LEMMA AdvancedType ==
  ASSUME NEW c \in Cursors
  PROVE  Advanced(c) \in Cursors
<1>1. CASE c.injected # None
  BY <1>1 DEF Advanced, Cursors
<1>2. CASE c.injected = None
  <2>1. c.lexer \in 1 .. TextLen + 1
    BY DEF Cursors
  <2>2. Token(c.lexer, "whole") \in Tokens
    BY <2>1 DEF Token, Tokens
  <2>3. LexedPast(c.lexer) \in 1 .. TextLen + 1
    BY <2>1, LexedPastType
  <2> QED BY <1>2, <2>2, <2>3 DEF Advanced, Cursors
<1> QED BY <1>1, <1>2

\* A restore puts back exactly what the save recorded, whatever was read in between.
LEMMA RestoredExact ==
  ASSUME NEW c, NEW s \in Cursors
  PROVE  Restored(c, s) = s
BY DEF Restored, Cursors

\* A save records the whole cursor.
LEMMA SnapshotExact ==
  ASSUME NEW c \in Cursors
  PROVE  Snapshot(c) = c
BY DEF Snapshot, Cursors

\* Looking ahead, however far, leaves the cursor where it was.
LEMMA PeekKeepsCursor ==
  ASSUME NEW n, cursor \in Cursors, PeekToken(n)
  PROVE  cursor' = cursor
<1>1. Snapshot(cursor) = cursor
  BY SnapshotExact
<1>2. Restored(AheadOf(cursor, n), cursor) = cursor
  BY RestoredExact
<1> QED BY <1>1, <1>2 DEF PeekToken

-----------------------------------------------------------------------------
\* The variables keep their types and no handle is live before it is issued:
\* save, restore, discard, peek and split of src/Parser_Core.cpp.
THEOREM TypeCorrect == Spec => []TypeOK
<1>1. Init => TypeOK
  <2> SUFFICES ASSUME Init PROVE TypeOK
    OBVIOUS
  <2>1. 1 \in 1 .. TextLen + 1
    BY TextAssumption
  <2>2. LexedPast(1) \in 1 .. TextLen + 1
    BY <2>1, LexedPastType
  <2>3. Token(1, "whole") \in Tokens
    BY <2>1 DEF Token, Tokens
  <2>4. cursor \in Cursors
    BY <2>2, <2>3 DEF Init, Cursors
  <2> QED BY <2>4, BoundAssumption DEF Init, TypeOK, Handles
<1>2. TypeOK /\ [Next]_vars => TypeOK'
  <2> SUFFICES ASSUME TypeOK, [Next]_vars PROVE TypeOK'
    OBVIOUS
  <2> USE BoundAssumption
  <2>1. CASE Advance
    <3>1. cursor' \in Cursors
      BY <2>1, AdvancedType DEF TypeOK, Advance
    <3> QED BY <2>1, <3>1 DEF TypeOK, Advance
  <2>2. CASE SplitRightShift
    <3>1. cursor' \in Cursors
      BY <2>2 DEF TypeOK, SplitRightShift, Halved, Cursors, Tokens, Token
    <3> QED BY <2>2, <3>1 DEF TypeOK, SplitRightShift
  <2>3. CASE SaveTokenPosition
    <3>1. Snapshot(cursor) \in Cursors
      BY SnapshotExact DEF TypeOK
    <3>2. next_save_handle \in Handles
      BY <2>3 DEF TypeOK, SaveTokenPosition, Handles
    <3> QED BY <2>3, <3>1, <3>2 DEF TypeOK, SaveTokenPosition, Handles
  <2>4. ASSUME NEW h \in Handles, RestoreTokenPosition(h) PROVE TypeOK'
    <3>1. saved_tokens[h] \in Cursors
      BY <2>4 DEF TypeOK, RestoreTokenPosition
    <3>2. cursor' \in Cursors
      BY <2>4, <3>1, RestoredExact DEF TypeOK, RestoreTokenPosition
    <3> QED BY <2>4, <3>2 DEF TypeOK, RestoreTokenPosition
  <2>5. ASSUME NEW h \in Handles, DiscardSavedToken(h) PROVE TypeOK'
    BY <2>5 DEF TypeOK, DiscardSavedToken, Handles
  <2>6. ASSUME NEW n \in 1 .. MaxLookahead, PeekToken(n) PROVE TypeOK'
    <3>1. cursor' \in Cursors
      BY <2>6, PeekKeepsCursor DEF TypeOK
    <3> QED BY <2>6, <3>1 DEF TypeOK, PeekToken, Handles
  <2>7. CASE UNCHANGED vars
    BY <2>7 DEF TypeOK, vars
  <2> QED BY <2>1, <2>2, <2>3, <2>4, <2>5, <2>6, <2>7 DEF Next
<1> QED BY <1>1, <1>2, PTL DEF Spec

-----------------------------------------------------------------------------
\* One token forward keeps the injected token with the token it was split from.
LEMMA AdvancedCoherent ==
  ASSUME NEW c \in Cursors, Coherent(c)
  PROVE  Coherent(Advanced(c)) /\ Advanced(c).current = Reader!Following(c.current)
<1> USE NoneIsNoCursor, TextAssumption
<1>0. /\ c.current.at \in 1 .. TextLen + 1
      /\ c.current.part \in {"whole", "first", "second"}
  BY DEF Cursors, Tokens
<1>1. CASE c.current.part = "first"
  <2>1. /\ c.injected = Token(c.current.at, "second")
        /\ c.lexer = LexedPast(c.current.at)
    BY <1>1 DEF Coherent
  <2>2. Token(c.current.at, "second") \in Tokens
    BY <1>0 DEF Token, Tokens
  <2>3. c.injected # None
    BY <2>1, <2>2
  <2>4. Advanced(c) = [c EXCEPT !.current = Token(c.current.at, "second"), !.injected = None]
    BY <2>1, <2>3 DEF Advanced
  <2>5. /\ Advanced(c).current = Token(c.current.at, "second")
        /\ Advanced(c).injected = None
        /\ Advanced(c).lexer = c.lexer
    BY <2>4 DEF Cursors
  <2>6. Coherent(Advanced(c))
    BY <1>1, <2>1, <2>5 DEF Coherent, Token
  <2> QED BY <1>1, <2>5, <2>6 DEF Reader!Following, Reader!At, Token
<1>2. CASE c.current.part # "first"
  <2>1. c.injected = None /\ c.lexer = LexedPast(c.current.at)
    BY <1>2 DEF Coherent
  <2>2. /\ Advanced(c).current = Token(c.lexer, "whole")
        /\ Advanced(c).injected = None
        /\ Advanced(c).lexer = LexedPast(c.lexer)
    BY <2>1 DEF Advanced, Cursors
  <2>3. Coherent(Advanced(c))
    BY <2>2 DEF Coherent, Token
  <2>4. c.lexer = IF c.current.at <= TextLen THEN c.current.at + 1 ELSE c.current.at
    BY <2>1 DEF LexedPast
  <2> QED BY <1>2, <2>2, <2>3, <2>4 DEF Reader!Following, Reader!At, Token
<1> QED BY <1>1, <1>2

\* Splitting a whole ">>" leaves the cursor coherent.
LEMMA HalvedCoherent ==
  ASSUME NEW c \in Cursors, Coherent(c), IsShiftRight(c.current)
  PROVE  Coherent(Halved(c))
<1>1. /\ Halved(c).current = Token(c.current.at, "first")
      /\ Halved(c).injected = Token(c.current.at, "second")
      /\ Halved(c).lexer = c.lexer
  BY DEF Halved, Cursors
<1> QED BY <1>1 DEF Coherent, Token, IsShiftRight

\* The injected ">" of split_right_shift_token always belongs to the token under the
\* cursor, in the parser and in every saved position, whatever was saved, restored,
\* split or looked at in between.
THEOREM Coherence == Spec => []CursorCoherent
<1>1. Init => CursorCoherent
  BY DEF Init, CursorCoherent, Coherent, Token
<1>2. TypeOK /\ CursorCoherent /\ [Next]_vars => CursorCoherent'
  <2> SUFFICES ASSUME TypeOK, CursorCoherent, [Next]_vars PROVE CursorCoherent'
    OBVIOUS
  <2>0. cursor \in Cursors /\ Coherent(cursor)
    BY DEF TypeOK, CursorCoherent
  <2>1. CASE Advance
    BY <2>0, <2>1, AdvancedCoherent DEF CursorCoherent, Advance
  <2>2. CASE SplitRightShift
    BY <2>0, <2>2, HalvedCoherent DEF CursorCoherent, SplitRightShift
  <2>3. CASE SaveTokenPosition
    <3>1. Snapshot(cursor) = cursor
      BY <2>0, SnapshotExact
    <3> QED BY <2>0, <2>3, <3>1 DEF CursorCoherent, SaveTokenPosition, TypeOK
  <2>4. ASSUME NEW h \in Handles, RestoreTokenPosition(h) PROVE CursorCoherent'
    <3>1. saved_tokens[h] \in Cursors /\ Coherent(saved_tokens[h])
      BY <2>4 DEF TypeOK, CursorCoherent, RestoreTokenPosition
    <3>2. cursor' = saved_tokens[h]
      BY <2>4, <3>1, RestoredExact DEF RestoreTokenPosition
    <3> QED BY <2>4, <3>1, <3>2 DEF CursorCoherent, RestoreTokenPosition
  <2>5. ASSUME NEW h \in Handles, DiscardSavedToken(h) PROVE CursorCoherent'
    BY <2>5 DEF CursorCoherent, DiscardSavedToken, TypeOK
  <2>6. ASSUME NEW n \in 1 .. MaxLookahead, PeekToken(n) PROVE CursorCoherent'
    <3>1. cursor' = cursor
      BY <2>0, <2>6, PeekKeepsCursor
    <3> QED BY <2>6, <3>1 DEF CursorCoherent, PeekToken, TypeOK
  <2>7. CASE UNCHANGED vars
    BY <2>7 DEF CursorCoherent, vars
  <2> QED BY <2>1, <2>2, <2>3, <2>4, <2>5, <2>6, <2>7 DEF Next
<1> QED BY <1>1, <1>2, TypeCorrect, PTL DEF Spec

-----------------------------------------------------------------------------
\* Every run of the token stream is a run of the plain backtracking reader.
THEOREM Implements == Spec => ReadsLikeOneCursor
<1> DEFINE Marks ==
      [h \in Handles |-> IF saved_tokens[h] = None THEN None ELSE saved_tokens[h].current]
<1>0. Reader!Handles = Handles
  BY DEF Reader!Handles, Handles
<1>1. Init => Reader!Init
  BY <1>0 DEF Init, Reader!Init, Reader!At, Token
<1>2. TypeOK /\ CursorCoherent /\ [Next]_vars => [Reader!Next]_(Reader!vars)
  <2> SUFFICES ASSUME TypeOK, CursorCoherent, [Next]_vars
               PROVE  Reader!Next \/ UNCHANGED Reader!vars
    BY DEF Reader!vars
  <2>0. cursor \in Cursors /\ Coherent(cursor)
    BY DEF TypeOK, CursorCoherent
  <2>1. CASE Advance
    <3>1. Reader!Take
      BY <2>0, <2>1, AdvancedCoherent DEF Advance, Reader!Take
    <3> QED BY <3>1 DEF Reader!Next
  <2>2. CASE SplitRightShift
    <3>1. cursor'.current = Token(cursor.current.at, "first")
      BY <2>0, <2>2 DEF SplitRightShift, Halved, Cursors
    <3>2. Reader!Split
      BY <2>2, <3>1 DEF SplitRightShift, IsShiftRight, Reader!Split, Reader!At, Token
    <3> QED BY <3>2 DEF Reader!Next
  <2>3. CASE SaveTokenPosition
    <3>1. Snapshot(cursor) = cursor /\ cursor # None
      BY <2>0, SnapshotExact, NoneIsNoCursor
    <3>2. saved_tokens' = [saved_tokens EXCEPT ![next_save_handle] = cursor]
      BY <2>3, <3>1 DEF SaveTokenPosition
    <3>3. Marks' = [Marks EXCEPT ![next_save_handle] = cursor.current]
      BY <2>3, <3>1, <3>2 DEF SaveTokenPosition, TypeOK
    <3>4. Reader!Mark
      BY <2>3, <3>3 DEF SaveTokenPosition, Reader!Mark
    <3> QED BY <3>4 DEF Reader!Next
  <2>4. ASSUME NEW h \in Handles, RestoreTokenPosition(h) PROVE Reader!Next
    <3>1. saved_tokens[h] \in Cursors
      BY <2>4 DEF TypeOK, RestoreTokenPosition
    <3>2. cursor' = saved_tokens[h]
      BY <2>4, <3>1, RestoredExact DEF RestoreTokenPosition
    <3>3. saved_tokens[h].current # None /\ saved_tokens[h] # None
      BY <3>1, NoneIsNoCursor DEF Cursors
    <3>4. Reader!Rewind(h)
      BY <2>4, <3>2, <3>3 DEF RestoreTokenPosition, Reader!Rewind
    <3> QED BY <1>0, <3>4 DEF Reader!Next
  <2>5. ASSUME NEW h \in Handles, DiscardSavedToken(h) PROVE Reader!Next
    <3>1. Marks' = [Marks EXCEPT ![h] = None]
      BY <2>5 DEF DiscardSavedToken, TypeOK
    <3>2. Reader!Forget(h)
      BY <2>5, <3>1 DEF DiscardSavedToken, Reader!Forget
    <3> QED BY <1>0, <3>2 DEF Reader!Next
  <2>6. ASSUME NEW n \in 1 .. MaxLookahead, PeekToken(n) PROVE Reader!Next
    <3>1. cursor' = cursor
      BY <2>0, <2>6, PeekKeepsCursor
    <3>2. saved_tokens[next_save_handle] = None /\ next_save_handle \in Handles
      BY <2>6, BoundAssumption DEF PeekToken, TypeOK, Handles
    <3>3. saved_tokens' = saved_tokens
      BY <2>6, <3>2 DEF PeekToken, TypeOK
    <3>4. Reader!LookAhead
      BY <2>6, <3>1, <3>3 DEF PeekToken, Reader!LookAhead
    <3> QED BY <3>4 DEF Reader!Next
  <2>7. CASE UNCHANGED vars
    BY <2>7 DEF vars, Reader!vars
  <2> QED BY <2>1, <2>2, <2>3, <2>4, <2>5, <2>6, <2>7 DEF Next
<1> QED BY <1>1, <1>2, TypeCorrect, Coherence, PTL DEF Spec, ReadsLikeOneCursor, Reader!Spec
=============================================================================
