----------------------------- MODULE MCLazyMembers -----------------------------
(* Two instantiations: S with three overloads of f, one of them const, and a         *)
(* conversion operator; T with a member of the same name.  Every translation unit    *)
(* with up to TotalUses uses in its bodies is checked.                               *)
EXTENDS LazyMembers, SequencesExt

CONSTANTS fi, fp, fc, conv, tf, main, TotalUses, Recursive, Conversions

MCMember == {fi, fp, fc, conv, tf}
MCClass == [m \in MCMember |-> IF m = tf THEN "T" ELSE "S"]
MCName == [m \in MCMember |-> IF m = conv THEN "operator int" ELSE "f"]
MCIsConst == [m \in MCMember |-> m = fc]

\* A use of a program, with the body it is in.  A call or a conversion goes to a later
\* member, unless programs may be recursive; a sibling call may always be recursive.
Rank == [b \in MCMember \cup {main} |->
  CASE b = main -> 0 [] b = fi -> 1 [] b = fc -> 2 [] b = conv -> 3 [] b = tf -> 4 [] b = fp -> 5]

Uses ==
  {u \in [body : MCMember \cup {main}, kind : {"sibling", "call", "convert"}, target : MCMember] :
     /\ u.kind = "sibling" => u.body # main /\ MCClass[u.body] = MCClass[u.target]
     /\ u.kind = "convert" <=> u.target = conv
     /\ u.kind # "sibling" => Recursive \/ Rank[u.body] < Rank[u.target]
     /\ Conversions \/ conv \notin {u.body, u.target}}

Program(s) ==
  [b \in MCMember \cup {main} |->
     LET In(u) == u.body = b
         own == SelectSeq(s, In)
     IN  [i \in DOMAIN own |-> [kind |-> own[i].kind, target |-> own[i].target]]]

MCPrograms == {Program(s) : s \in BoundedSeq(Uses, TotalUses)}
================================================================================
