------------------------------ MODULE AuditFile ------------------------------
(***************************************************************************)
(* The JSONL file of the ops audit log: OpsAuditLog opens it in append mode *)
(* for every event, writes one line of JSON and a newline, and closes it.  *)
(*                                                                         *)
(* The file is what a reader makes of it:                                  *)
(*   lines    one entry per line: the event it begins with and whether the *)
(*            line is legible, that is, one JSON object and nothing else   *)
(*   ended    the file ends with a newline (or is empty)                   *)
(*   decodes  its bytes are UTF-8                                          *)
(* A write that fails half way leaves its first bytes behind; whatever is  *)
(* appended after them ends up on the same line.                           *)
(***************************************************************************)
EXTENDS Integers, Sequences

Line(event, legible) == [event |-> event, legible |-> legible]

\* An unfinished line is a line.
IsFileOf(file, events) ==
  /\ file \in [lines : Seq([event : events, legible : BOOLEAN]), ended : BOOLEAN,
               decodes : BOOLEAN]
  /\ ~file.ended => file.lines # << >>

EmptyFile == [lines |-> << >>, ended |-> TRUE, decodes |-> TRUE]

\* Bytes after the last newline: a new line, or the rest of an unfinished one.
Glued(lines) == [lines EXCEPT ![Len(lines)].legible = FALSE]

Put(file, line, ended) ==
  [lines   |-> IF file.ended THEN Append(file.lines, line) ELSE Glued(file.lines),
   ended   |-> ended,
   decodes |-> file.decodes]

\* Mutant: the newline is forgotten.
Unterminated(file, event) == Put(file, Line(event, TRUE), FALSE)

Written(file, event) == Put(file, Line(event, TRUE), TRUE)

\* A part of the line, up to a character or into the middle of one.
Cut(file, event) == Put(file, Line(event, FALSE), FALSE)

CutInCharacter(file, event) == [Cut(file, event) EXCEPT !.decodes = FALSE]

\* A write that fails: nothing, a part, or everything except the newline.
Damaged(file, event) ==
  {file, Put(file, Line(event, TRUE), FALSE), Cut(file, event),
   CutInCharacter(file, event)}

(***************************************************************************)
(* _load_all skips the lines json.loads refuses; bytes that are not UTF-8  *)
(* raise before it, and it does not catch that.                            *)
(***************************************************************************)
Loads(file) == file.decodes

Legible(file) == {k \in DOMAIN file.lines : file.lines[k].legible}

\* query_by_request: the events of one request, as positions in the file.
LinesOf(file, request) ==
  {k \in Legible(file) : file.lines[k].event.request = request}

=============================================================================
