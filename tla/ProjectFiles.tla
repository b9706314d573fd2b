----------------------------- MODULE ProjectFiles -----------------------------
(***************************************************************************)
(* The files of a project as the worker agents' tools change them          *)
(* (tools/filesystem.py).  A tool is synchronous and never raises: it      *)
(* changes a file and says so, or answers an error, and an agent that has  *)
(* lost an answer calls it again.  Two kinds of errors are told apart      *)
(* here: "refused", by a check before anything is written, and "failed",   *)
(* when reading or writing raises.  A write empties the file first, so     *)
(* that one that fails may leave a beginning of the text behind.           *)
(*                                                                         *)
(* A text is a sequence of characters, of which one ends a line.           *)
(* Directories, paths outside of the project, and a write that stops       *)
(* inside a character, are left out.                                       *)
(***************************************************************************)
EXTENDS Naturals, Sequences, FiniteSets, FiniteSetsExt

CONSTANTS Paths,
          Characters,  \* what a text consists of
          Texts,       \* what the files may say at first
          Pieces,      \* what the agents write and insert
          Edits,       \* what they look for, and what they put in its place
          Lines,       \* line numbers for file_insert
          EndOfLine,   \* the character
          MaxCalls,    \* bound: calls
          Absent       \* no such file

FileAssumption ==
  /\ Texts \cup Pieces \subseteq Seq(Characters) /\ EndOfLine \in Characters
  /\ \A e \in Edits : e.old \in Seq(Characters) /\ e.new \in Seq(Characters)
  /\ Absent \notin Seq(Characters) /\ MaxCalls \in Nat /\ Lines \subseteq Nat

VARIABLES file,      \* each path's text
          left,      \* calls still to come
          last,      \* the last call, its answer, and the files before it
          earlier    \* answer of the call before it, if that was the same one

vars == <<file, left, last, earlier>>

NoCall == [tool |-> "none", args |-> <<>>, answer |-> "none", before |-> file]

Init == /\ file \in {f \in [Paths -> Texts \cup {Absent}] :
                       Cardinality({p \in Paths : f[p] # Absent}) = 1}
        /\ left = MaxCalls
        /\ last = NoCall /\ earlier = "none"

-----------------------------------------------------------------------------
(***************************************************************************)
(* str.count and str.replace.  The empty text is found before every        *)
(* character and at the end.                                               *)
(***************************************************************************)
IsAt(text, i, old) == /\ i + Len(old) <= Len(text) + 1
                      /\ SubSeq(text, i, i + Len(old) - 1) = old

Contains(text, piece) == \E i \in 1..(Len(text) + 1) : IsAt(text, i, piece)

\* One character further from the left, behind the occurrence found last: how
\* much of that one is still to come, how many were found, and the text with
\* each of them replaced.
Look(text, e, i, w) ==
  CASE w.skip > 0 -> [w EXCEPT !.skip = @ - 1]
    [] w.skip = 0 /\ IsAt(text, i, e.old) ->
         [skip |-> Len(e.old) - 1, times |-> w.times + 1, out |-> w.out \o e.new]
    [] OTHER -> [w EXCEPT !.out = Append(@, text[i])]

Scanned(text, e) ==
  LET s[i \in 0..Len(text)] ==
        IF i = 0 THEN [skip |-> 0, times |-> 0, out |-> <<>>]
        ELSE Look(text, e, i, s[i - 1])
  IN  s[Len(text)]

\* The text with the piece before every character and at the end.
Woven(text, piece) ==
  LET w[i \in 0..Len(text)] ==
        IF i = 0 THEN piece ELSE Append(w[i - 1], text[i]) \o piece
  IN  w[Len(text)]

\* Occurrences are counted from the left and do not overlap.
Count(text, e) ==
  IF e.old = <<>> THEN Len(text) + 1 ELSE Scanned(text, e).times

ReplaceAll(text, e) ==
  IF e.old = <<>> THEN Woven(text, e.new) ELSE Scanned(text, e).out

\* The first occurrence, of the empty text the one at the start, is replaced.
ReplaceFirst(text, e) ==
  IF e.old = <<>> THEN e.new \o text
  ELSE LET i == Min({k \in 1..Len(text) : IsAt(text, k, e.old)})
       IN  SubSeq(text, 1, i - 1) \o e.new \o SubSeq(text, i + Len(e.old), Len(text))

\* The edits one after the other, each at the first place it finds.
Applied(text, edits) ==
  LET a[k \in 0..Len(edits)] ==
        IF k = 0 THEN text
        ELSE IF Contains(a[k - 1], edits[k].old) THEN ReplaceFirst(a[k - 1], edits[k])
        ELSE a[k - 1]
  IN  a[Len(edits)]

-----------------------------------------------------------------------------
(***************************************************************************)
(* The tools.                                                              *)
(***************************************************************************)
Answer(tool, args, a) ==
  /\ left' = left - 1
  /\ last' = [tool |-> tool, args |-> args, answer |-> a, before |-> file]
  /\ earlier' = IF last.tool = tool /\ last.args = args THEN last.answer ELSE "none"

Refuse(tool, args) == Answer(tool, args, "refused") /\ UNCHANGED file

\* The file cannot be read, opened, moved or deleted.
Fails(tool, args) == Answer(tool, args, "failed") /\ UNCHANGED file

\* What is written, or, when the write fails, the beginning of it.
Written(tool, args, p, text) ==
  \/ Answer(tool, args, "ok") /\ file' = [file EXCEPT ![p] = text]
  \/ /\ Answer(tool, args, "failed")
     /\ \E n \in 0..Len(text) : file' = [file EXCEPT ![p] = SubSeq(text, 1, n)]

\* file_write: whatever was there is gone.
FileWrite(p, text) ==
  \/ Fails("write", <<p, text>>)
  \/ Written("write", <<p, text>>, p, text)

\* file_edit: what is not found may have been replaced already; what is found
\* more than once is replaced only when the agent asks for all.
FileEdit(p, e, all) ==
  LET args == <<p, e, all>> IN
  \/ file[p] = Absent /\ Refuse("edit", args)
  \/ file[p] # Absent /\ Fails("edit", args)
  \/ /\ file[p] # Absent
     /\ LET n == Count(file[p], e) IN
        \/ n = 0 /\ ~Contains(file[p], e.new) /\ Refuse("edit", args)
        \/ n = 0 /\ Contains(file[p], e.new)
             /\ Answer("edit", args, "already") /\ UNCHANGED file
        \/ n > 1 /\ ~all /\ Refuse("edit", args)
        \/ n >= 1 /\ all /\ Written("edit", args, p, ReplaceAll(file[p], e))
        \/ n = 1 /\ ~all /\ Written("edit", args, p, ReplaceFirst(file[p], e))

\* file_insert: at the start of the line, or at the end of a text that has
\* fewer, there right behind its last character.
FileInsert(p, line, piece) ==
  LET args == <<p, line, piece>> IN
  \/ file[p] = Absent /\ Refuse("insert", args)
  \/ file[p] # Absent /\ Fails("insert", args)
  \/ file[p] # Absent /\ line < 1 /\ Refuse("insert", args)
  \/ /\ file[p] # Absent /\ line >= 1
     /\ LET text == file[p]
            starts == {i \in 1..Len(text) : i = 1 \/ text[i - 1] = EndOfLine}
            after == {i \in starts : Cardinality({k \in starts : k < i}) = line - 1}
            at == IF after = {} THEN Len(text) + 1 ELSE Min(after)
            closed == IF piece # <<>> /\ piece[Len(piece)] = EndOfLine THEN piece
                      ELSE Append(piece, EndOfLine)
        IN  Written("insert", args, p,
                    SubSeq(text, 1, at - 1) \o closed \o SubSeq(text, at, Len(text)))

\* Mutant: each edit is looked for when its turn comes, and what was done stays.
FileMultiEditAsFound(p, edits) ==
  IF file[p] = Absent THEN Refuse("multi_edit", <<p, edits>>)
  ELSE /\ Answer("multi_edit", <<p, edits>>,
                 IF \A k \in DOMAIN edits : Contains(file[p], edits[k].old)
                 THEN "ok" ELSE "refused")
       /\ file' = [file EXCEPT ![p] = Applied(@, edits)]

\* file_multi_edit: every old string is looked for in the text as it was.
FileMultiEdit(p, edits) ==
  LET args == <<p, edits>>
      fits == /\ file[p] # Absent
              /\ \A k \in DOMAIN edits : Contains(file[p], edits[k].old)
  IN  \/ ~fits /\ Refuse("multi_edit", args)
      \/ file[p] # Absent /\ Fails("multi_edit", args)
      \/ fits /\ Written("multi_edit", args, p, Applied(file[p], edits))

\* file_move replaces what is at the destination.  Where it cannot rename, it
\* copies and deletes, so that it may leave part of a copy behind; another
\* file is needed for that.
FileMove(p, q) ==
  LET args == <<p, q>> IN
  \/ file[p] = Absent /\ Refuse("move", args)
  \/ file[p] # Absent /\ Fails("move", args)
  \/ /\ file[p] # Absent /\ Answer("move", args, "ok")
     /\ file' = [[file EXCEPT ![p] = Absent] EXCEPT ![q] = file[p]]
  \/ /\ file[p] # Absent /\ p # q /\ Answer("move", args, "failed")
     /\ \E n \in 0..Len(file[p]) : file' = [file EXCEPT ![q] = SubSeq(file[p], 1, n)]

FileDelete(p) ==
  \/ file[p] = Absent /\ Refuse("delete", <<p>>)
  \/ file[p] # Absent /\ Fails("delete", <<p>>)
  \/ /\ file[p] # Absent /\ Answer("delete", <<p>>, "ok")
     /\ file' = [file EXCEPT ![p] = Absent]

Next == left > 0 /\ \E p \in Paths :
  \/ \E t \in Pieces : FileWrite(p, t)
  \/ \E e \in Edits, all \in BOOLEAN : FileEdit(p, e, all)
  \/ \E l \in Lines, t \in Pieces : FileInsert(p, l, t)
  \/ \E e, f \in Edits : FileMultiEdit(p, <<e, f>>)
  \/ \E q \in Paths : FileMove(p, q)
  \/ FileDelete(p)

Spec == Init /\ [][Next]_vars

-----------------------------------------------------------------------------
Chars(piece) == {piece[i] : i \in 1..Len(piece)}
Apart(a, b) == Chars(a) \cap Chars(b) = {}

\* The edits neither overlap nor make or join what another looks for.
Independent(e, f) ==
  /\ <<>> \notin {e.old, e.new, f.old, f.new}
  /\ Apart(e.old, f.old) /\ Apart(e.new, f.old) /\ Apart(f.new, e.old)

\* The one file that a call changes when it fails.
Target == IF last.tool = "move" THEN last.args[2] ELSE last.args[1]

(***************************************************************************)
(* An answer of a tool can be trusted.  A call that was refused has left   *)
(* every file alone, a multi-edit of which only some edits fit included,   *)
(* and one that failed all files but the one it was writing.  An edit that *)
(* succeeded and is called again, as after a lost answer, changes nothing  *)
(* (file_edit: "Idempotent"), unless its old or new text is empty or the   *)
(* new one has something of the old.  Two independent edits give the same  *)
(* text in either order (file_multi_edit: "non-overlapping edits           *)
(* atomically in a single pass").                                          *)
(***************************************************************************)
AnswersHold ==
  /\ last.answer = "refused" => file = last.before
  /\ last.answer = "failed" =>
       \A q \in Paths \ {Target} : file[q] = last.before[q]
  /\ last.tool = "edit" /\ earlier = "ok" =>
       LET e == last.args[2]
       IN  <<>> \notin {e.old, e.new} /\ Apart(e.old, e.new) =>
             last.answer \in {"already", "failed"} /\ file = last.before
  /\ last.tool = "multi_edit" /\ last.answer = "ok" =>
       LET p == last.args[1]  e == last.args[2][1]  f == last.args[2][2]
       IN  Independent(e, f) => file[p] = Applied(last.before[p], <<f, e>>)
=============================================================================
