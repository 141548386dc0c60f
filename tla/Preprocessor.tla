------------------------------ MODULE Preprocessor ------------------------------
(***************************************************************************)
(* The line loop of FileReader: conditional groups, block comments that    *)
(* span lines, #include and #include_next, #pragma once, #pragma pack and  *)
(* #line, with the map from each preprocessed line to its source, and the  *)
(* parser's second walk over the #pragma pack lines that were passed on.   *)
(*                                                                         *)
(* A line is [kind, arg, comment]: what it is once comments are removed,   *)
(* and whether a block comment "opens" on it and is still open at its end, *)
(* or "closes" on it.  Macro expansion inside a line is left out.  #ifdef, *)
(* #ifndef and #if are all "if", with a condition [macro, want] that holds *)
(* when the macro is defined exactly if want.                              *)
(***************************************************************************)
EXTENDS Integers, Sequences, FiniteSets, SequencesExt

CONSTANTS
    Paths,      \* the spellings of file names
    Programs,   \* the sources to compile: functions from paths to lines
    Main,       \* the path of the main file
    Dirs,       \* CompileContext::includeDirs_, in search order
    MaxDepth    \* MAX_INCLUDE_DEPTH

(* A path is spelled as a directory, the sequence of its components, and a *)
(* name in it.  h.via is the directory a directive writes before the name. *)
Path(dir, name) == [dir |-> dir, name |-> name]
Join(dir, h) == Path(dir \o h.via, h.name)

(* weakly_canonical, where there are no symbolic links: "." goes, and ".." *)
(* goes with the component in front of it.                                 *)
Normal(dir, c) ==
    CASE c = "." -> dir
      [] c = ".." /\ dir # <<>> /\ Last(dir) # ".." -> Front(dir)
      [] OTHER -> Append(dir, c)
Canonical(dir) == FoldLeft(Normal, <<>>, dir)
File(path) == [path EXCEPT !.dir = Canonical(@)]

Kinds == {"text", "if", "elif", "else", "endif", "define", "undef", "error",
          "once", "line", "pack", "include", "include_next"}

PackArgs == [op : {"set", "push"}, n : Nat] \union [op : {"none", "save", "pop"}]
NoArg == [op |-> "none"]

(* A file of a program has one path in its domain for each way to spell it *)
(* that exists, and the lines of the file under all of them.  [cpp.line]   *)
(* wants a positive number.                                                *)
WellFormedLine(l) ==
    /\ l.kind \in Kinds
    /\ l.kind = "line" => l.arg.number \in Nat \ {0} /\ l.arg.name \in Paths
    /\ l.kind = "pack" => l.arg \in PackArgs

ASSUME PreprocessorAssumption ==
    /\ MaxDepth \in Nat \ {0}
    /\ \A p \in Programs :
          /\ Main \in DOMAIN p /\ DOMAIN p \subseteq Paths
          /\ \A f \in DOMAIN p : /\ Len(p[f]) \in Nat
                                 /\ \A i \in 1..Len(p[f]) : WellFormedLine(p[f][i])
          /\ \A f, g \in DOMAIN p : File(f) = File(g) => p[f] = p[g]

VARIABLES
    program,    \* the files of this compilation
    frames,     \* filestack_ with the locals of preprocessFileContent, innermost last
    cur,        \* current_file_index_: the path it stands for
    curParent,  \* current_parent_line_
    processed,  \* processedHeaders_: paths, as they are spelled
    defines,    \* the names in defines_
    out,        \* result_ and line_map_, one entry per preprocessed line
    failed,     \* some readFile has returned false, or the parser has
    pack,       \* currentPackAlignment_ and packAlignmentStack_
    parsed      \* the preprocessed lines the parser has consumed

vars == <<program, frames, cur, curParent, processed, defines, out, failed, pack, parsed>>

-----------------------------------------------------------------------------
(* The file being read and its next line.                                  *)

Frame(path, file, parent) ==
    [path |-> path, name |-> path, number |-> 0, pos |-> 0,
     skip |-> <<FALSE>>, cond |-> <<FALSE>>, inComment |-> FALSE,
     savedFile |-> file, savedParent |-> parent, seen |-> <<>>]

Top == Last(frames)
Reading == frames # <<>> /\ ~failed /\ Top.pos < Len(program[Top.path])
Line == program[Top.path][Top.pos + 1]

(* The line is lost: it lies in a comment, or one opens on it and is still *)
(* open at its end.                                                        *)
Dropped == Line.comment = "opens" \/ (Top.inComment /\ Line.comment # "closes")

Kind == IF Line.comment = "closes" /\ ~Top.inComment THEN "text" ELSE Line.kind
Holds(c) == (c.macro \in defines) = c.want
Truth == Kind \in {"if", "elif"} /\ Holds(Line.arg)

(* The frame after the line, before its handler has run.  "seen" is a      *)
(* history variable: the lines that counted, with the truth of their       *)
(* condition.                                                              *)
Read == [Top EXCEPT !.pos = @ + 1, !.number = @ + 1, !.inComment = FALSE,
                    !.seen = Append(@, [kind |-> Kind, truth |-> Truth])]

SetTop(f) == [frames EXCEPT ![Len(frames)] = f]

Live(kind) == /\ Reading /\ ~Dropped /\ Kind = kind
              /\ Top.skip # <<>> /\ ~Last(Top.skip)
Skipped(kind) == /\ Reading /\ ~Dropped /\ Kind = kind
                 /\ Top.skip # <<>> /\ Last(Top.skip)

(* append_line_with_tracking *)
Emitted(what, arg) ==
    Append(out, [what |-> what, arg |-> arg, file |-> cur, line |-> Read.number,
                 parent |-> curParent, depth |-> Len(frames), at |-> <<Top.path, Read.pos>>])

Source == <<program, cur, curParent, processed>>

-----------------------------------------------------------------------------
(* Comments and the conditional stacks.                                    *)

DropLine ==
    /\ Reading /\ Dropped
    /\ frames' = SetTop([Top EXCEPT !.pos = @ + 1, !.number = @ + 1, !.inComment = TRUE])
    /\ UNCHANGED <<Source, defines, out, failed, pack, parsed>>

Underflow ==
    /\ Reading /\ ~Dropped /\ Top.skip = <<>>
    /\ failed' = TRUE
    /\ UNCHANGED <<Source, frames, defines, out, pack, parsed>>

Pushed(f, skip, cond) == [f EXCEPT !.skip = Append(@, skip), !.cond = Append(@, cond)]
\* Mutant: one of the two stacks is not popped.
PoppedOneStack(f) == [f EXCEPT !.skip = Front(@)]
Popped(f) == [f EXCEPT !.skip = Front(@), !.cond = Front(@)]
Replaced(f, skip, cond) == [f EXCEPT !.skip = Append(Front(@), skip),
                                     !.cond = Append(Front(@), cond)]
Taken == Last(Top.cond)   \* a branch of the innermost group has been chosen

SkippedGroup == /\ Skipped("if")
                /\ frames' = SetTop(Pushed(Read, TRUE, TRUE))
SkippedBranch == /\ Skipped("elif") \/ Skipped("else")
                 /\ LET chosen == ~Taken /\ (Kind = "elif" => Truth)
                    IN  frames' = SetTop(Replaced(Read, ~chosen, Taken \/ chosen))
SkippedEndif == /\ Skipped("endif")
                /\ frames' = SetTop(Popped(Read))
\* Mutant: a skipped line is read again and again.
SkippedLineAgain == Skipped(Kind) /\ Kind \notin {"if", "elif", "else", "endif"} /\ frames' = frames
SkippedLine == /\ Skipped(Kind) /\ Kind \notin {"if", "elif", "else", "endif"}
               /\ frames' = SetTop(Read)
WhileSkipping ==
    /\ SkippedGroup \/ SkippedBranch \/ SkippedEndif \/ SkippedLine
    /\ UNCHANGED <<Source, defines, out, failed, pack, parsed>>

If == /\ Live("if")
      /\ frames' = SetTop(Pushed(Read, ~Truth, Truth))
\* Mutant: #elif looks at its own condition only.
ElifAlone == /\ Live("elif")
             /\ frames' = SetTop(Replaced(Read, ~Truth, Taken \/ Truth))
Elif == /\ Live("elif")
        /\ frames' = SetTop(Replaced(Read, Taken, Taken \/ Truth))
Else == /\ Live("else")
        /\ frames' = SetTop(Replaced(Read, Taken, TRUE))
Endif == /\ Live("endif")
         /\ frames' = SetTop(Popped(Read))
Conditional ==
    /\ If \/ Elif \/ Else \/ Endif
    /\ out' = Emitted("blank", NoArg)
    /\ UNCHANGED <<Source, defines, failed, pack, parsed>>

-----------------------------------------------------------------------------
(* Lines outside skipped branches.                                         *)

Text ==
    /\ Live("text")
    /\ frames' = SetTop(Read)
    /\ out' = Emitted("text", NoArg)
    /\ UNCHANGED <<Source, defines, failed, pack, parsed>>

DefineOrUndef ==
    /\ \/ Live("define") /\ defines' = defines \union {Line.arg}
       \/ Live("undef") /\ defines' = defines \ {Line.arg}
    /\ frames' = SetTop(Read)
    /\ out' = Emitted("blank", NoArg)
    /\ UNCHANGED <<Source, failed, pack, parsed>>

ErrorDirective ==
    /\ Live("error")
    /\ failed' = TRUE
    /\ UNCHANGED <<Source, frames, defines, out, pack, parsed>>

PragmaOnce ==
    /\ Live("once")
    /\ processed' = processed \union {Top.name}
    /\ frames' = SetTop(Read)
    /\ UNCHANGED <<program, cur, curParent, defines, out, failed, pack, parsed>>

(* processLineDirective renames the file and renumbers the next line; the   *)
(* index that goes into the line map stays.                                *)
LineDirective ==
    /\ Live("line")
    /\ frames' = SetTop([Read EXCEPT !.number = Line.arg.number - 1, !.name = Line.arg.name])
    /\ UNCHANGED <<Source, defines, out, failed, pack, parsed>>

(* pack(n), pack(push), pack(push, n) and pack(pop) of processPragmaPack,  *)
(* which ignores an alignment that is none.                                *)
NoPacking == [align |-> 0, stack |-> <<>>]
Alignments == {0, 1, 2, 4, 8, 16}
PushPack(p, n) == [align |-> n, stack |-> Append(p.stack, p.align)]
AfterPack(p, op) ==
    CASE op.op = "set" /\ op.n \in Alignments -> [p EXCEPT !.align = op.n]
      [] op.op = "push" /\ op.n \in Alignments -> PushPack(p, op.n)
      [] op.op = "save" -> PushPack(p, p.align)
      [] op.op = "pop" /\ p.stack # <<>> -> [align |-> Last(p.stack), stack |-> Front(p.stack)]
      [] OTHER -> p

(* parse_pragma_pack_inner acts on the pragmas that were passed on, and on *)
(* no other line.  It rejects pack(n) where n is no alignment, and pushes  *)
(* any number.                                                             *)
Rejected(l) == l.what = "pack" /\ l.arg.op = "set" /\ l.arg.n \notin Alignments
AfterPragma(p, op) == IF op.op = "push" THEN PushPack(p, op.n) ELSE AfterPack(p, op)

\* Mutant: the preprocessor does not pop.
PragmaPackNoPop ==
    /\ Live("pack")
    /\ pack' = IF Line.arg.op = "pop" THEN pack ELSE AfterPack(pack, Line.arg)
    /\ frames' = SetTop(Read)
    /\ out' = Emitted("pack", Line.arg)
    /\ UNCHANGED <<Source, defines, failed, parsed>>

PragmaPack ==
    /\ Live("pack")
    /\ pack' = AfterPack(pack, Line.arg)
    /\ frames' = SetTop(Read)
    /\ out' = Emitted("pack", Line.arg)
    /\ UNCHANGED <<Source, defines, failed, parsed>>

-----------------------------------------------------------------------------
(* Inclusion.                                                              *)

Exists(path) == path \in DOMAIN program
First(S) == {i \in S : \A j \in S : i <= j}
Latest(S) == {i \in S : \A j \in S : i >= j}

(* processIncludeDirective: the directory of the including file for a      *)
(* quoted name, then the include directories.  The path is as the two are  *)
(* spelled, never made canonical.  The set is empty when the file is       *)
(* nowhere.                                                                *)
Resolve(h, quoted) ==
    LET local == Join(Top.name.dir, h)
        hits == {i \in DOMAIN Dirs : Exists(Join(Dirs[i], h))}
    IN  IF quoted /\ Exists(local) THEN {local}
        ELSE {Join(Dirs[i], h) : i \in First(hits)}

(* processIncludeNextDirective: only directories behind the one of the     *)
(* including file, never that file itself, both compared canonically; a    *)
(* regular search if the including file is in no include directory.        *)
ResolveNext(h) ==
    LET own == {i \in DOMAIN Dirs : Canonical(Dirs[i]) = Canonical(Top.name.dir)}
        hits == {i \in DOMAIN Dirs \ own : /\ \E j \in own : j < i
                                           /\ Exists(Join(Dirs[i], h))
                                           /\ File(Join(Dirs[i], h)) # File(Top.name)}
    IN  IF own = {} THEN Resolve(h, FALSE)
        ELSE {Join(Dirs[i], h) : i \in First(hits)}

(* The preprocessed line of the #include, searched backwards in the map.   *)
ParentLine(map, number) ==
    LET entries == {i \in DOMAIN map : map[i].file = cur /\ map[i].line = number}
    IN  CASE number > 0 /\ entries # {} -> Latest(entries)
          [] number > 0 /\ entries = {} -> {curParent}
          [] OTHER -> {0}

\* Mutant: processedHeaders_ is not consulted.
OpenAgain(path) ==
    \/ /\ Len(frames) >= MaxDepth
       /\ failed' = TRUE
       /\ frames' = SetTop(Read)
       /\ UNCHANGED <<cur, curParent>>
    \/ /\ Len(frames) < MaxDepth
       /\ frames' = Append(SetTop(Read), Frame(path, cur, curParent))
       /\ cur' = path
       /\ curParent' \in ParentLine(out', Read.number)
       /\ UNCHANGED failed

(* readFile on the path found. *)
Open(path) ==
    \/ /\ path \in processed
       /\ frames' = SetTop(Read)
       /\ UNCHANGED <<cur, curParent, failed>>
    \/ /\ path \notin processed
       /\ Len(frames) >= MaxDepth
       /\ failed' = TRUE
       /\ frames' = SetTop(Read)
       /\ UNCHANGED <<cur, curParent>>
    \/ /\ path \notin processed
       /\ Len(frames) < MaxDepth
       /\ frames' = Append(SetTop(Read), Frame(path, cur, curParent))
       /\ cur' = path
       /\ curParent' \in ParentLine(out', Read.number)
       /\ UNCHANGED failed

Include ==
    \E kind \in {"include", "include_next"} :
        /\ Live(kind)
        /\ out' = Emitted("include", NoArg)
        /\ LET found == IF kind = "include" THEN Resolve(Line.arg, Line.arg.quoted)
                        ELSE ResolveNext(Line.arg)
           IN  \/ \E path \in found : Open(path)
               \/ /\ found = {}
                  /\ failed' = TRUE
                  /\ frames' = SetTop(Read)
                  /\ UNCHANGED <<cur, curParent>>
        /\ UNCHANGED <<program, processed, defines, pack, parsed>>

\* Mutant: the line of the #include is not restored.
ReturnKeepingParent ==
    /\ frames # <<>>
    /\ failed \/ Top.pos = Len(program[Top.path])
    /\ frames' = Front(frames)
    /\ cur' = Top.savedFile
    /\ UNCHANGED <<program, curParent, processed, defines, out, failed, pack, parsed>>

(* The end of readFile, reached at the end of the file or by a failure: an *)
(* unterminated group is not reported.                                     *)
Return ==
    /\ frames # <<>>
    /\ failed \/ Top.pos = Len(program[Top.path])
    /\ frames' = Front(frames)
    /\ cur' = Top.savedFile
    /\ curParent' = Top.savedParent
    /\ UNCHANGED <<program, processed, defines, out, failed, pack, parsed>>

(* The parser comes to the next preprocessed line, in a compile context    *)
(* that nobody has reset in between.                                       *)
Parse ==
    /\ frames = <<>> /\ ~failed /\ parsed < Len(out)
    /\ LET l == out[parsed + 1]
       IN  \/ Rejected(l) /\ failed' = TRUE /\ UNCHANGED <<pack, parsed>>
           \/ /\ ~Rejected(l)
              /\ parsed' = parsed + 1
              /\ pack' = IF l.what = "pack" THEN AfterPragma(pack, l.arg) ELSE pack
              /\ UNCHANGED failed
    /\ UNCHANGED <<Source, frames, defines, out>>

-----------------------------------------------------------------------------

Init == /\ program \in Programs
        /\ frames = <<Frame(Main, Main, 0)>>
        /\ cur = Main
        /\ curParent = 0
        /\ processed = {}
        /\ defines = {}
        /\ out = <<>>
        /\ failed = FALSE
        /\ pack = NoPacking
        /\ parsed = 0

Next == \/ DropLine \/ Underflow \/ WhileSkipping \/ Conditional
        \/ Text \/ DefineOrUndef \/ ErrorDirective \/ PragmaOnce \/ LineDirective \/ PragmaPack
        \/ Include \/ Return \/ Parse

(* One thread runs the reader and then the parser to their end. *)
Spec == Init /\ [][Next]_vars /\ WF_vars(Next)
-----------------------------------------------------------------------------
(* Properties.                                                             *)

(* Types of the variables; the two stacks of a file have one entry per     *)
(* open group, and readFile never nests deeper than MAX_INCLUDE_DEPTH.     *)
FrameType ==
    [path : DOMAIN program, name : Paths, number : Nat, pos : Nat,
     skip : Seq(BOOLEAN), cond : Seq(BOOLEAN), inComment : BOOLEAN,
     savedFile : DOMAIN program, savedParent : 0..Len(out),
     seen : Seq([kind : Kinds, truth : BOOLEAN])]

TypeOK ==
    /\ Main \in DOMAIN program
    /\ frames \in Seq(FrameType)
    /\ Len(frames) <= MaxDepth
    /\ \A i \in 1..Len(frames) : /\ frames[i].pos <= Len(program[frames[i].path])
                                 /\ Len(frames[i].skip) = Len(frames[i].cond)
    /\ cur \in DOMAIN program
    /\ curParent \in 0..Len(out)
    /\ out \in Seq([what : {"text", "blank", "include", "pack"}, arg : PackArgs, file : DOMAIN program,
                    line : Nat, parent : Nat, depth : Nat, at : (DOMAIN program) \X Nat])
    /\ failed \in BOOLEAN
    /\ pack \in [align : Nat, stack : Seq(Nat)]
    /\ parsed \in 0..Len(out)

(* A group inside a skipped branch is skipped down to its innermost level: *)
(* no #elif or #else of it can turn reading back on.                       *)
SkippingNests ==
    \A i \in DOMAIN frames :
        LET f == frames[i]
        IN  \A a, b \in 1..Len(f.skip) : (a <= b /\ f.skip[a]) => f.skip[b]

(* What [cpp.cond] says of the lines read so far in one file.  Level: the  *)
(* groups open before line k.  Enclosing: their #if lines.  Heads: the     *)
(* #if, #elif and #else lines of the group opened at o.                    *)
Level(s, k) == Cardinality({j \in 1..(k - 1) : s[j].kind = "if"})
                 - Cardinality({j \in 1..(k - 1) : s[j].kind = "endif"})
WellFormed(s) ==
    \A k \in DOMAIN s : s[k].kind \in {"elif", "else", "endif"} => Level(s, k) > 0
Enclosing(s, k) ==
    {o \in 1..(k - 1) : /\ s[o].kind = "if"
                        /\ \A j \in (o + 1)..k : Level(s, j) > Level(s, o)}
Heads(s, o, k) ==
    {o} \union {j \in (o + 1)..(k - 1) : /\ s[j].kind \in {"elif", "else"}
                                        /\ Level(s, j) = Level(s, o) + 1}
Chosen(s, j) == s[j].truth \/ s[j].kind = "else"
Active(s, k) ==
    \A o \in Enclosing(s, k) :
        LET heads == Heads(s, o, k)
        IN  \A j \in heads : Chosen(s, j) <=> j \in Latest(heads)

(* The next line of a file is read exactly if every group around it is in  *)
(* its first branch whose condition held, however the groups nest and      *)
(* whatever was included, defined or undefined meanwhile.                  *)
SkipsAsTheStandardSays ==
    \A i \in DOMAIN frames :
        LET f == frames[i]
        IN  WellFormed(f.seen) =>
                f.skip # <<>> /\ (Last(f.skip) <=> ~Active(f.seen, Len(f.seen) + 1))

(* The line map is a tree: the parent of a line is the #include line that  *)
(* brought its file in, and every line in between came from that file or   *)
(* from what it included, whatever #line renumbered.                       *)
LineMapIsATree ==
    \A i \in DOMAIN out :
        LET p == out[i].parent
        IN  /\ p = 0 <=> out[i].depth = 1
            /\ p # 0 => /\ p < i
                        /\ out[p].what = "include" /\ out[p].depth = out[i].depth - 1
                        /\ \A j \in (p + 1)..i : out[j].depth >= out[i].depth

(* A header wrapped in an include guard nobody undefines leaves each of    *)
(* its lines once, along whatever chain of inclusions and under whatever   *)
(* spellings of its path it is reached, itself included.  One that starts  *)
(* with #pragma once does so for each spelling of its path: the reader     *)
(* knows a header by the path it was opened with, and reads it again under *)
(* another.  No block comment may begin on the directives that do so.      *)
Guarded(path) ==
    LET t == program[path]
    IN  /\ Len(t) > 2 /\ t[1].kind = "if" /\ t[2].kind = "define" /\ t[Len(t)].kind = "endif"
        /\ t[1].comment = "none" /\ t[2].comment = "none"
        /\ t[1].arg = [macro |-> t[2].arg, want |-> FALSE]
        /\ \A i \in 3..(Len(t) - 1) : t[i].kind \notin {"if", "elif", "else", "endif"}
        /\ \A f \in DOMAIN program : \A i \in DOMAIN program[f] :
              program[f][i].kind # "undef" \/ program[f][i].arg # t[2].arg
Once(path) ==
    LET t == program[path]
    IN  Len(t) > 0 /\ t[1].kind = "once" /\ t[1].comment = "none"
OnceContentOnce ==
    \A i, j \in DOMAIN out :
        LET path == out[i].at[1]
        IN  /\ out[i].what = "text" /\ out[i].at[2] = out[j].at[2]
            /\ \/ File(path) = File(out[j].at[1]) /\ Guarded(path)
               \/ path = out[j].at[1] /\ Once(path)
            => i = j

(* The packing the first k preprocessed lines ask for.                     *)
AfterLine(p, l) == IF l.what = "pack" THEN AfterPack(p, l.arg) ELSE p
PackWritten(k) ==
    LET upto[n \in 0..k] == IF n = 0 THEN NoPacking ELSE AfterLine(upto[n - 1], out[n])
    IN  upto[k]

(* The parser lays a struct out with the packing written before it.        *)
PackInForce ==
    frames = <<>> /\ ~failed => pack.align = PackWritten(parsed).align

(* It does so in every source whose packing pragmas are balanced and push  *)
(* alignments alone: any other number the reader ignores and the parser    *)
(* pushes.                                                                 *)
PushesAlignments(map) ==
    \A k \in DOMAIN map :
        map[k].what = "pack" /\ map[k].arg.op = "push" => map[k].arg.n \in Alignments
BalancedPackInForce ==
    PushesAlignments(out) /\ PackWritten(Len(out)) = NoPacking => PackInForce

(* A block comment takes nothing away but itself: code in front of a       *)
(* comment that ends on a later line is passed on.                         *)
CommentsRemoveOnlyThemselves ==
    [][Reading /\ ~Top.inComment /\ Top.skip # <<>> /\ ~Last(Top.skip)
       /\ Line.kind = "text" /\ Line.comment = "opens" => out' # out]_vars

(* Reading and parsing end, though files may include themselves.           *)
Terminates == <>(frames = <<>> /\ (failed \/ parsed = Len(out)))
=============================================================================
