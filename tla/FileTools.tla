----------------------------- MODULE FileTools -----------------------------
(***************************************************************************)
(* read_file, write_file, edit_file and glob.  A call does its work on a   *)
(* thread of the blocking pool, which goes on when the call is cut off by  *)
(* its timeout or by the cancellation of the run.  The calls of a run that *)
(* are not cut off come one after the other.                               *)
(***************************************************************************)
EXTENDS WorkspaceIndex

Rest == UNCHANGED <<scene, tree, index, seen, trace>>
Call(c) == calls[c]

\* The calls of the run that session s has.
CallsOf(s) == {c \in CallIds : c[1] = s /\ Call(c).at # "free" /\ Call(c).run = runs[s].n}
OfRun(c) == Call(c).run = runs[c[1]].n
Waits(c) == Call(c).at # "done" /\ ~ Call(c).cut

\* The mentor asks for a tool; what it asks to write is new text.
Ask(s) ==
    /\ runs[s].at = "loop"
    /\ \A c \in CallsOf(s) : ~ Waits(c)
    /\ \E n \in 1 .. scene.calls[s], ask \in scene.asks[s] :
        LET c == <<s, n>>
        IN  /\ Call(c).at = "free"
            /\ \A k \in 1 .. n - 1 : Call(<<s, k>>).at # "free"
            /\ Moves(c, [NoCallYet EXCEPT
                   !.tool = ask[1], !.path = ask[2], !.run = runs[s].n,
                   !.at = IF ask[1] = "glob" THEN "index" ELSE "read",
                   !.text = IF ask[1] \in {"write", "edit"} THEN c ELSE NoText])
    /\ Rest

\* The timeout, or the cancellation of the run: the call is over for the run.
CutOff(s) ==
    /\ Spend("cuts")
    /\ \E c \in CallsOf(s) : Waits(c) /\ Moves(c, [Call(c) EXCEPT !.cut = TRUE])
    /\ UNCHANGED <<tree, index, seen, trace>>

\* SeenFiles::record; a run that is over leaves its set to its own threads.
Record(c, text) ==
    seen' = IF OfRun(c) THEN [seen EXCEPT ![c[1]][Call(c).path] = text] ELSE seen

SeenText(c) == IF OfRun(c) THEN seen[c[1]][Call(c).path] ELSE NoText

Fails(c) == Moves(c, [Call(c) EXCEPT !.at = "done"])

-----------------------------------------------------------------------------
(* read_file *)

ReadFile(c) ==
    /\ Call(c).tool = "read" /\ Call(c).at = "read"
    /\ IF Exists(Call(c).path)
       THEN Moves(c, [Call(c) EXCEPT !.at = "record", !.prev = files[Call(c).path].text])
       ELSE Fails(c)
    /\ Rest

ReadRecords(c) ==
    /\ Call(c).tool = "read" /\ Call(c).at = "record"
    /\ Record(c, Call(c).prev)
    /\ Moves(c, [Call(c) EXCEPT !.at = "done", !.ok = TRUE])
    /\ UNCHANGED <<scene, tree, index, trace>>

-----------------------------------------------------------------------------
(* write_file and edit_file *)

\* Faulty: a file that was seen is not compared with what was seen of it.
NoteUnread(c, prev) == IF SeenText(c) = NoText THEN "unread" ELSE "none"

\* overwrite_note, of content that is there.
OverwriteNote(c, prev) ==
    IF SeenText(c) = NoText THEN "unread"
    ELSE IF SeenText(c) # prev THEN "changed"
    ELSE "none"

\* The content is read; an edit of a file that is not there fails.
ReadsOld(c) ==
    LET prev == files[Call(c).path].text
    IN  /\ Call(c).tool \in {"write", "edit"} /\ Call(c).at = "read"
        /\ IF prev = NoText /\ Call(c).tool = "edit" THEN Fails(c)
           ELSE Moves(c, [Call(c) EXCEPT
                    !.at = "create", !.prev = prev,
                    !.note = IF prev = NoText THEN "none" ELSE OverwriteNote(c, prev)])
        /\ Rest

\* write_atomic: the temporary file is created, filled and flushed, and
\* renamed to the target.
CreatesTemp(c) ==
    /\ Call(c).at = "create"
    /\ temps' = [d \in DOMAIN temps \cup {c} |->
                    IF d = c THEN [text |-> Call(c).text, whole |-> FALSE] ELSE temps[d]]
    /\ Moves(c, [Call(c) EXCEPT !.at = "fill"])
    /\ UNCHANGED <<scene, files, head, ignore, clock, touched, reruled, index, seen, trace>>

Without(c) == [d \in DOMAIN temps \ {c} |-> temps[d]]

FillsTemp(c) ==
    /\ Call(c).at = "fill"
    /\ temps' = [temps EXCEPT ![c].whole = TRUE]
    /\ Moves(c, [Call(c) EXCEPT !.at = "rename"])
    /\ UNCHANGED <<scene, files, head, ignore, clock, touched, reruled, index, seen, trace>>

Renames(c) ==
    /\ Call(c).at = "rename"
    /\ Put(Call(c).path, Call(c).text, temps[c].whole)
    /\ temps' = Without(c)
    /\ Moves(c, [Call(c) EXCEPT !.at = "record", !.replaced = files[Call(c).path].text])
    /\ UNCHANGED <<scene, head, ignore, reruled, index, seen, trace>>

\* The content does not fit, or cannot be flushed or renamed.
WriteFails(c) ==
    /\ Spend("failures")
    /\ Call(c).at \in {"fill", "rename"}
    /\ temps' = Without(c)
    /\ Fails(c)
    /\ UNCHANGED <<files, head, ignore, clock, touched, reruled, index, seen, trace>>

Created(c) == Call(c).tool = "write" /\ Call(c).prev = NoText

WriteRecords(c) ==
    /\ Call(c).tool \in {"write", "edit"} /\ Call(c).at = "record"
    /\ Record(c, Call(c).text)
    /\ IF Created(c) THEN Moves(c, [Call(c) EXCEPT !.at = "invalidate"])
       ELSE Moves(c, [Call(c) EXCEPT !.at = "done", !.ok = TRUE])
    /\ UNCHANGED <<scene, tree, index, trace>>

DropsIndex(c) ==
    /\ Call(c).at = "invalidate"
    /\ Invalidate(Call(c).path)
    /\ Moves(c, [Call(c) EXCEPT !.at = "done", !.ok = TRUE])
    /\ UNCHANGED <<scene, tree, seen, trace>>

-----------------------------------------------------------------------------
\* What a thread does unless it fails.
Works(c) ==
    \/ ReadFile(c) \/ ReadRecords(c)
    \/ ReadsOld(c) \/ CreatesTemp(c) \/ FillsTemp(c) \/ Renames(c)
    \/ WriteRecords(c) \/ DropsIndex(c)
    \/ IndexThere(c) \/ BuildBegins(c) \/ BuildLooks(c) \/ BuildEnds(c)
=============================================================================
