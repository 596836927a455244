------------------------------- MODULE Library -------------------------------
(***************************************************************************)
(* The Library Manager's operations on the files of one clip               *)
(* (library_manager.py): trash, restore, permanent deletion and rename.    *)
(* The routes run in threads, so operations overlap; between its unlocked  *)
(* reads, its file operations and its transactions the process may end.    *)
(*                                                                         *)
(* A file moves within a file system in one step, and to another by        *)
(* copying it and then removing the original.  Only the columns of the     *)
(* clip's row that these operations read are kept.                         *)
(***************************************************************************)
EXTENDS Naturals, Sequences, FiniteSets, SequencesExt

CONSTANTS
  Handlers,   \* requests that can be in progress
  Ids,        \* trash records and lifecycle requests
  Nowhere,    \* no place for a file
  Paths,      \* source paths of the clip's collection
  Targets,    \* what requests select: sets of Kinds
  Apart,      \* the trash is on another file system than the media
  MaxRequests,  \* bound: requests
  MaxFaults   \* bound: failing copies, commits and purges, and crashes

Kinds == {"source", "output"}

VARIABLES
  files,       \* what lies at each place
  row,         \* the clip's row
  rec,         \* trash_records and lifecycle_requests, with restore_pending events
  handler,     \* the requests in progress
  crossed,     \* history: a file was being put in a place while another request moved it
  requests,    \* requests so far
  faults       \* failures so far

vars == <<files, row, rec, handler, crossed, requests, faults>>

-----------------------------------------------------------------------------
Home(kind, path) == <<kind, IF kind = "source" THEN path ELSE "compiled">>
Stash(id, kind) == <<id, kind>>  \* in the trash, or in .permanent-delete
Stashes == Ids \X Kinds
Places == {Home("source", p) : p \in Paths} \cup {Home("output", "compiled")} \cup Stashes

ASSUME LibraryAssumption ==
  /\ Targets \subseteq (SUBSET Kinds) \ {{}}
  /\ Apart \in BOOLEAN
  /\ Ids \cap Kinds = {}
  /\ Nowhere \notin Ids \cup Places
  /\ MaxRequests \in Nat /\ MaxFaults \in Nat

\* A file that is being copied, or whose copy was given up, is a "part"; the
\* complete copy of one is "cut".
Contents == {"none", "part", "cut", "whole"}

Ops == {"trash", "restore", "delete", "rename"}
NoRecord == [op |-> "none", kinds |-> {}, path |-> "none", status |-> "none", restoring |-> FALSE]

NoRow == [path |-> "none", out |-> FALSE]

\* row and kinds are what the request has read, todo and moved the kinds of file
\* to move and those that have been, dst the file a copy is being written to.
IdleHandler == [pc |-> "idle", op |-> "none", id |-> Nowhere, kinds |-> {}, row |-> NoRow,
                to |-> "none", todo |-> <<>>, moved |-> <<>>, undo |-> FALSE,
                dst |-> Nowhere, got |-> "none"]

Init ==
  /\ \E path \in Paths :
       /\ row = [path |-> path, out |-> TRUE]
       /\ files = [p \in Places |-> IF p \in {Home("source", path), Home("output", path)}
                                    THEN "whole" ELSE "none"]
  /\ rec = [i \in Ids |-> NoRecord]
  /\ handler = [h \in Handlers |-> IdleHandler]
  /\ crossed = FALSE /\ requests = 0 /\ faults = 0

\* move_to_trash and its siblings treat the source first.
InOrder(kinds) == (IF "source" \in kinds THEN <<"source">> ELSE <<>>)
                  \o (IF "output" \in kinds THEN <<"output">> ELSE <<>>)

Go(h, pc) == handler' = [handler EXCEPT ![h].pc = pc]
End(h) == handler' = [handler EXCEPT ![h] = IdleHandler]
Fault == faults < MaxFaults /\ faults' = faults + 1

-----------------------------------------------------------------------------
(* The start of a request: reads, checks and the record of what it is      *)
(* about to do.                                                            *)

Regular(place) == files[place] # "none"

\* _source_path and _output_path for the selected targets.
Available(kinds) ==
  /\ "source" \in kinds => Regular(Home("source", row.path))
  /\ "output" \in kinds => row.out /\ Regular(Home("output", row.path))

\* Nothing but the request itself ever writes to its place in the trash, so only a
\* file that is put back, or renamed, has to be checked for one in its way.
Begin(own) ==
  [own EXCEPT !.pc = IF own.op \in {"trash", "delete"} /\ ~own.undo THEN "move" ELSE "check"]

Start(h, op, id, kinds, to) ==
  /\ handler[h].pc = "idle"
  /\ requests < MaxRequests /\ requests' = requests + 1
  /\ handler' = [handler EXCEPT ![h] =
    Begin([IdleHandler EXCEPT !.op = op, !.id = id, !.kinds = kinds, !.row = row, !.to = to,
                              !.todo = InOrder(kinds)])]

\* Mutant: a record is active from the start.
PendingActive(op, kinds) ==
  [op |-> op, kinds |-> kinds, path |-> row.path, status |-> "active", restoring |-> FALSE]

Pending(op, kinds) ==
  [op |-> op, kinds |-> kinds, path |-> row.path, status |-> "pending", restoring |-> FALSE]

\* move_to_trash and permanently_delete
TrashOrDelete(h) ==
  /\ \E op \in {"trash", "delete"}, kinds \in Targets, id \in Ids :
       /\ Available(kinds)
       /\ rec[id] = NoRecord /\ rec' = [rec EXCEPT ![id] = Pending(op, kinds)]
       /\ Start(h, op, id, kinds, "none")
  /\ UNCHANGED <<files, row, faults>>

\* restore, with its event restore_pending.
Restore(h) ==
  /\ \E id \in Ids :
       /\ rec[id].status = "active"
       /\ \A k \in rec[id].kinds : Regular(Stash(id, k))
       /\ rec' = [rec EXCEPT ![id].restoring = TRUE]
       /\ Start(h, "restore", id, rec[id].kinds, "none")
  /\ UNCHANGED <<files, row, faults>>

\* rename_or_move, within the source root and so within one file system.
Rename(h) ==
  /\ \E to \in Paths : Available({"source"}) /\ Start(h, "rename", Nowhere, {"source"}, to)
  /\ UNCHANGED <<files, row, rec, faults>>

-----------------------------------------------------------------------------
(* _move_exact and _compensate_moves.                                      *)

\* Where a request has to move its next file from, and to.
EndsOf(own, records) ==
  LET kind    == Head(own.todo)
      path    == IF own.op = "restore" THEN records[own.id].path ELSE own.row.path
      home    == Home(kind, path)
      away    == IF own.op = "rename" THEN Home(kind, own.to) ELSE Stash(own.id, kind)
      forward == (own.op = "restore") = own.undo
  IN  IF forward THEN [src |-> home, dst |-> away] ELSE [src |-> away, dst |-> home]
Ends(h) == EndsOf(handler[h], rec)

\* A file that is still being written keeps being written where it has moved to;
\* one that another file has replaced is written nowhere.
Follow(handlers, src, dst) ==
  [g \in Handlers |-> IF handlers[g].pc = "copying" /\ handlers[g].dst \in {src, dst}
                      THEN [handlers[g] EXCEPT !.dst = IF @ = src THEN dst ELSE Nowhere]
                      ELSE handlers[g]]

\* The file is there: on to the next one.
Moved(own) ==
  LET rest == Tail(own.todo)
      next == [own EXCEPT !.todo = rest, !.dst = Nowhere, !.got = "none",
                          !.moved = IF own.undo THEN @ ELSE Append(@, Head(own.todo))]
  IN  IF rest # <<>> THEN Begin(next)
      ELSE [next EXCEPT !.pc = IF own.undo THEN "mark" ELSE "commit"]

\* It could not be moved: what has been moved is moved back, last one first; a
\* rename has moved nothing, and a failing compensation goes on to the next file.
NotMoved(own) ==
  LET todo == IF own.undo THEN Tail(own.todo) ELSE Reverse(own.moved)
      next == [own EXCEPT !.todo = todo, !.undo = TRUE, !.dst = Nowhere, !.got = "none"]
  IN  CASE own.op = "rename" -> IdleHandler
        [] own.op # "rename" /\ todo = <<>> -> [next EXCEPT !.pc = "mark"]
        [] OTHER -> Begin(next)

\* destination.exists()
Check(h) ==
  /\ handler[h].pc = "check"
  /\ IF Regular(Ends(h).dst) THEN handler' = [handler EXCEPT ![h] = NotMoved(@)]
     ELSE Go(h, "move")
  /\ UNCHANGED <<files, row, rec, requests, faults>>

\* os.replace, or the opening of both files by copy2 when that fails.
Move(h) ==
  LET src == Ends(h).src
      dst == Ends(h).dst
      one == ~Apart \/ handler[h].op = "rename"
  IN
  /\ handler[h].pc = "move"
  /\ IF ~Regular(src)
     THEN handler' = [handler EXCEPT ![h] = NotMoved(@)] /\ UNCHANGED files
     ELSE IF one
     THEN /\ files' = [files EXCEPT ![src] = "none", ![dst] = files[src]]
          /\ handler' = Follow([handler EXCEPT ![h] = Moved(@)], src, dst)
     ELSE /\ files' = [files EXCEPT ![dst] = "part"]
          /\ handler' = [handler EXCEPT ![h].pc = "copying", ![h].dst = dst,
                           ![h].got = IF files[src] = "part" THEN "cut" ELSE files[src]]
  /\ UNCHANGED <<row, rec, requests, faults>>

\* The copy is complete; copy2 fails if there is no file at its path any more.
Copied(h) ==
  /\ handler[h].pc = "copying"
  /\ files' = IF handler[h].dst = Nowhere THEN files
              ELSE [files EXCEPT ![handler[h].dst] = handler[h].got]
  /\ IF Regular(Ends(h).dst) THEN Go(h, "unlink")
     ELSE handler' = [handler EXCEPT ![h] = NotMoved(@)]
  /\ UNCHANGED <<row, rec, requests, faults>>

\* Mutant: the original is removed whether or not the copy is complete.
CopyFailsOn(h) ==
  /\ Fault
  /\ handler[h].pc = "copying"
  /\ Go(h, "unlink")
  /\ UNCHANGED <<files, row, rec, requests>>

\* The copy fails half-way, with the disk full.
CopyFails(h) ==
  /\ Fault
  /\ handler[h].pc = "copying"
  /\ handler' = [handler EXCEPT ![h] = NotMoved(@)]
  /\ UNCHANGED <<files, row, rec, requests>>

\* source.unlink()
Unlink(h) ==
  LET src == Ends(h).src
  IN
  /\ handler[h].pc = "unlink"
  /\ IF Regular(src)
     THEN /\ files' = [files EXCEPT ![src] = "none"]
          /\ handler' = Follow([handler EXCEPT ![h] = Moved(@)], src, Nowhere)
     ELSE handler' = [handler EXCEPT ![h] = NotMoved(@)] /\ UNCHANGED files
  /\ UNCHANGED <<row, rec, requests, faults>>

-----------------------------------------------------------------------------
(* The end of a request.                                                   *)

\* Mutant: a failed operation leaves no record.
IfPendingForgets(id, status) ==
  [rec EXCEPT ![id] = IF status = "failed" THEN NoRecord
                      ELSE [@ EXCEPT !.status = IF @ = "pending" THEN status ELSE @]]

IfPending(id, status) == [rec EXCEPT ![id].status = IF @ = "pending" THEN status ELSE @]

\* One transaction for the record and the row, whose new values are computed from
\* what the request read at its start.
Commit(h) ==
  LET own == handler[h]
      out == "output" \in own.kinds
  IN
  /\ own.pc = "commit"
  /\ CASE own.op = "trash" -> /\ rec' = IfPending(own.id, "active")
                              /\ row' = [row EXCEPT !.out = own.row.out /\ ~out]
                              /\ End(h)
       [] own.op = "delete" -> /\ rec' = IfPending(own.id, "staged")
                               /\ row' = [row EXCEPT !.out = own.row.out /\ ~out]
                               /\ Go(h, "purge")
       [] own.op = "restore" -> /\ rec' = [rec EXCEPT ![own.id].status = "restored"]
                                /\ row' = [row EXCEPT !.out = own.row.out \/ out]
                                /\ End(h)
       [] own.op = "rename" -> /\ row' = [row EXCEPT !.path = own.to]
                               /\ End(h)
                               /\ UNCHANGED rec
  /\ UNCHANGED <<files, requests, faults>>

\* The transaction fails: trash and restore move everything back, a deletion and
\* a rename leave the files where they are.
CommitFails(h) ==
  /\ Fault
  /\ handler[h].pc = "commit"
  /\ IF handler[h].op \in {"trash", "restore"}
     THEN handler' = [handler EXCEPT ![h] = NotMoved(@)]
     ELSE End(h)
  /\ UNCHANGED <<files, row, rec, requests>>

\* _mark_trash_failure, _mark_request_failed; a record that could not be restored
\* stays active.
Mark(h) ==
  /\ handler[h].pc = "mark"
  /\ rec' = IfPending(handler[h].id, "failed")
  /\ End(h)
  /\ UNCHANGED <<files, row, requests, faults>>

\* permanently_delete unlinks the staged files, each one even if the other fails ...
Purge(h) ==
  LET own == handler[h]
  IN
  /\ own.pc = "purge"
  /\ \E residue \in SUBSET own.kinds :
       /\ files' = [p \in Places |-> IF p \in {own.id} \X (own.kinds \ residue) THEN "none"
                                     ELSE files[p]]
       /\ IF residue = {} THEN UNCHANGED faults ELSE Fault
  /\ Go(h, "complete")
  /\ UNCHANGED <<row, rec, requests>>

\* ... and completes the request, with residue if one could not be unlinked: that
\* one is still there.
Complete(h) ==
  LET own     == handler[h]
      residue == \E kind \in own.kinds : Regular(Stash(own.id, kind))
  IN
  /\ own.pc = "complete"
  /\ rec' = [rec EXCEPT ![own.id].status =
               IF residue THEN "completed_with_residue" ELSE "completed"]
  /\ End(h)
  /\ UNCHANGED <<files, row, requests, faults>>

-----------------------------------------------------------------------------
(* The rest of the process.                                                *)

\* A compile job of the clip replaces the output and records it (JobWorker has
\* the steps in between).
Publish ==
  /\ files[Home("source", row.path)] = "whole"
  /\ files' = [files EXCEPT ![Home("output", row.path)] = "whole"]
  /\ row' = [row EXCEPT !.out = TRUE]
  /\ handler' = Follow(handler, Home("output", row.path), Nowhere)
  /\ UNCHANGED <<rec, requests, faults>>

\* The process ends and starts again; nothing looks at what it left.
Crash ==
  /\ Fault
  /\ handler' = [h \in Handlers |-> IdleHandler]
  /\ UNCHANGED <<files, row, rec, requests>>

Request(h) == TrashOrDelete(h) \/ Restore(h) \/ Rename(h)
Step(h) == Check(h) \/ Move(h) \/ Copied(h) \/ Unlink(h) \/ Commit(h)
           \/ Mark(h) \/ Purge(h) \/ Complete(h)
Failure(h) == CopyFails(h) \/ CommitFails(h)

\* A restore, or the compensation of a removal, puts a file back.
PutsBack(own) == own.op = "restore" \/ own.undo

\* A rename has found its destination free, and so has another one to the same
\* path; or another request is about to remove the file it has copied from there.
RenamesOnto(own, other) ==
  /\ own.op = "rename" /\ own.pc = "move"
  /\ \/ other.op = "rename" /\ other.pc = "move" /\ other.to = own.to
     \/ other.pc \in {"copying", "unlink"} /\ other.row.path = own.to

Meeting ==
  \E g, h \in Handlers :
    /\ g # h
    /\ PutsBack(handler[g]) \/ RenamesOnto(handler[g], handler[h])
    /\ \E i \in DOMAIN handler[g].todo, j \in DOMAIN handler[h].todo :
         handler[g].todo[i] = handler[h].todo[j]

Action ==
  \/ \E h \in Handlers : Request(h) \/ Step(h) \/ Failure(h)
  \/ Publish \/ Crash

Next == Action /\ crossed' = (crossed \/ Meeting')

Spec == Init /\ [][Next]_vars

-----------------------------------------------------------------------------
\* "Pending records are persisted before a multi-file move or an irreversible
\* unlink, so restart/recovery tooling has evidence of every operation"
\* (database.py): whatever lies in the Worker's trash belongs to a record that
\* says so and is not closed, or closed with residue.
EveryFileHasRecord ==
  \A id \in Ids, kind \in Kinds : files[Stash(id, kind)] # "none" =>
    /\ kind \in rec[id].kinds
    /\ rec[id].status \in {"pending", "active", "failed", "staged", "completed_with_residue"}

\* What list_trash shows can be restored: as long as nobody has tried, every file
\* of the record is in the trash, and no copy of it was given up half-way.
ListedTrashIsComplete ==
  \A id \in Ids :
    rec[id].op = "trash" /\ rec[id].status = "active" /\ ~rec[id].restoring
      => \A kind \in rec[id].kinds : files[Stash(id, kind)] \in {"cut", "whole"}

KindOf(place) == IF place \in Stashes THEN place[2] ELSE place[1]

\* A permanent deletion of this kind of file is on record.
DeletionRecorded(kind) ==
  \E id \in Ids : /\ rec[id].op = "delete" /\ kind \in rec[id].kinds
                  /\ rec[id].status \in {"staged", "completed", "completed_with_residue"}

\* A file of the clip is whole at one place at least until a permanent deletion
\* of it was recorded, however operations overlap, fail and are cut short.  The
\* exception is a file that one operation puts back while another moves it, and
\* one that is renamed to a path another rename has found free too, or from which
\* another operation is just removing what it has copied.
NothingIsLost ==
  \A kind \in Kinds :
    \/ \E place \in Places : files[place] = "whole" /\ KindOf(place) = kind
    \/ DeletionRecorded(kind)
    \/ crossed

-----------------------------------------------------------------------------
(* What the operations keep true, in parts: what each request and record   *)
(* looks like, and what one says of the other; what lies in the trash and  *)
(* who may add to it or take from it; and where the whole file is while it *)
(* is moved (LibraryProofs).                                               *)

Orders == {<<>>, <<"source">>, <<"output">>, <<"source", "output">>, <<"output", "source">>}
Rows == [path : Paths, out : BOOLEAN]
Pcs == {"idle", "check", "move", "copying", "unlink", "commit", "mark", "purge", "complete"}
Statuses ==
  {"pending", "active", "failed", "staged", "completed", "completed_with_residue", "restored"}

RecordTypes ==
  [op : {"trash", "delete"}, kinds : (SUBSET Kinds) \ {{}}, path : Paths,
   status : Statuses, restoring : BOOLEAN]
RequestTypes ==
  [pc : Pcs, op : Ops \cup {"none"}, id : Ids \cup {Nowhere}, kinds : SUBSET Kinds,
   row : Rows \cup {NoRow}, to : Paths \cup {"none"}, todo : Orders, moved : Orders,
   undo : BOOLEAN, dst : Places \cup {Nowhere}, got : {"none", "cut", "whole"}]

LibraryTypes ==
  /\ files \in [Places -> Contents]
  /\ row \in Rows
  /\ rec \in [Ids -> RecordTypes \cup {NoRecord}]
  /\ handler \in [Handlers -> RequestTypes]
  /\ crossed \in BOOLEAN

Moving(own) == own.pc \in {"check", "move", "copying", "unlink"}
Removes(own) == own.op \in {"trash", "delete"}
Forward(own) == Removes(own) /\ ~own.undo

\* A request at each of its steps.
InShape(own) ==
  /\ own.pc = "idle" <=> own.op = "none"
  /\ own.pc = "idle" => ~own.undo
  /\ own.pc # "idle" => own.row \in Rows
  /\ Moving(own) <=> own.todo # <<>>
  /\ own.op = "rename" => /\ own.pc \in {"check", "move", "commit"}
                          /\ own.kinds = {"source"} /\ own.to \in Paths /\ ~own.undo
  /\ IF own.op \in {"trash", "delete", "restore"} THEN own.id \in Ids ELSE own.id = Nowhere
  /\ own.pc \in {"commit", "purge", "complete"} => ~own.undo
  /\ own.pc = "mark" => own.undo
  /\ own.pc \in {"purge", "complete"} => own.op = "delete"
  /\ own.pc \in {"copying", "unlink"} => Apart
  /\ own.pc = "copying" => own.got \in {"cut", "whole"}
  /\ Forward(own) => own.pc # "check"
  /\ IF own.undo THEN ToSet(own.todo) \subseteq own.kinds
     ELSE /\ ToSet(own.todo) \cap ToSet(own.moved) = {}
          /\ ToSet(own.todo) \cup ToSet(own.moved) = own.kinds

\* A request and its record.
RecordedAs(own, its) ==
  /\ its \in RecordTypes /\ its.kinds = own.kinds
  /\ own.op = "restore" => its.status \in {"active", "restored"} /\ its.restoring
  /\ Removes(own) =>
       /\ its.op = own.op
       /\ its.status = IF own.pc \in {"purge", "complete"} THEN "staged" ELSE "pending"

Recorded(h) ==
  handler[h].op \in {"trash", "delete", "restore"} => RecordedAs(handler[h], rec[handler[h].id])

\* A record that is being made has no other request.
MadeAlone ==
  \A g, h \in Handlers : g # h /\ Removes(handler[h]) => handler[g].id # handler[h].id

\* A restore has this file out of the trash, and has not begun to put it back there.
Holds(own, kind) ==
  /\ own.op = "restore"
  /\ IF own.undo
     THEN /\ kind \in ToSet(own.todo)
          /\ ~ (own.pc \in {"copying", "unlink"} /\ Head(own.todo) = kind)
     ELSE kind \in ToSet(own.moved)

Held(h, kind) ==
  LET own == handler[h]
  IN  Holds(own, kind) =>
        /\ files[Stash(own.id, kind)] = "none"
        /\ rec[own.id].status = "active"
        /\ \A g \in Handlers \ {h} : ~ (Holds(handler[g], kind) /\ handler[g].id = own.id)

\* Where a copy is written.
Written(h) ==
  LET own == handler[h]
  IN  own.pc = "copying" /\ own.dst # Nowhere =>
        /\ files[own.dst] # "none" /\ KindOf(own.dst) = Head(own.todo)
        /\ IF Ends(h).dst \in Stashes THEN own.dst = Ends(h).dst ELSE own.dst \notin Stashes

\* What a removal has not begun to move is not in the trash, what it is copying is
\* there in part, and what it has moved is there in full until it is purged.
Removed(h) ==
  LET own == handler[h]
      At(kind) == files[Stash(own.id, kind)]
  IN  Forward(own) =>
        /\ \A kind \in ToSet(own.todo) :
             own.pc = "move" \/ kind # Head(own.todo) => At(kind) = "none"
        /\ own.pc = "copying" => own.dst = Ends(h).dst /\ At(Head(own.todo)) = "part"
        /\ own.pc = "unlink" => At(Head(own.todo)) \in {"cut", "whole"}
        /\ own.pc # "complete" =>
             \A kind \in ToSet(own.moved) : At(kind) \in {"cut", "whole"}

TrashInv ==
  /\ \A h \in Handlers : InShape(handler[h]) /\ Recorded(h) /\ Written(h) /\ Removed(h)
  /\ MadeAlone
  /\ \A h \in Handlers, kind \in Kinds : Held(h, kind)
  /\ Apart \/ \A place \in Places : files[place] \in {"none", "whole"}
  /\ EveryFileHasRecord
  /\ ListedTrashIsComplete

WholeAt(kind, places) ==
  \E place \in Places \ places : files[place] = "whole" /\ KindOf(place) = kind
WholeInTrash(kind) == \E id \in Ids : files[Stash(id, kind)] = "whole"

\* The whole file is not lost by the next steps of a request that moves one.
Safe(h) ==
  LET own  == handler[h]
      kind == Head(own.todo)
      src  == Ends(h).src
      dst  == Ends(h).dst
  IN  /\ Forward(own) /\ own.pc \in {"copying", "unlink"} =>
           \/ own.pc = "copying" /\ own.got = "whole"
           \/ files[src] # "whole"
           \/ WholeInTrash(kind)
      /\ PutsBack(own) /\ own.pc = "move" => WholeAt(kind, {dst})
      /\ PutsBack(own) /\ own.pc = "copying" =>
           /\ own.dst \in {dst, Nowhere}
           /\ \/ own.dst = dst /\ own.got = "whole"
              \/ WholeAt(kind, {src, own.dst})
      /\ PutsBack(own) /\ own.pc = "unlink" => WholeAt(kind, {src})

KeptInv ==
  ~crossed =>
    /\ ~Meeting
    /\ \A h \in Handlers :
         handler[h].op = "rename" /\ handler[h].pc = "move" => ~Regular(Ends(h).dst)
    /\ \A kind \in Kinds : ~DeletionRecorded(kind) =>
         /\ WholeAt(kind, {})
         /\ \A h \in Handlers : Moving(handler[h]) /\ Head(handler[h].todo) = kind => Safe(h)

LibraryInv == LibraryTypes /\ TrashInv /\ KeptInv
=============================================================================
