------------------------------ MODULE Discovery ------------------------------
(***************************************************************************)
(* CatalogService.scan for all files of a collection (catalog.py): it      *)
(* finds new files, infers which clip a file that was moved belongs to,    *)
(* and marks clips whose file is gone; while uploads, renames, trash and   *)
(* users change the source directory and the rows.  Scans run as a job and *)
(* inside of requests, so that two can run at once.                        *)
(*                                                                         *)
(* A scan holds the write lock of the database from its first write to its *)
(* commit.  Of a clip's state only is kept whether it is "deleted": module *)
(* Catalog has the others.                                                 *)
(***************************************************************************)
EXTENDS Naturals, FiniteSets

CONSTANTS
  Ids,         \* UUIDs that clips may be given
  Paths,       \* in the source directory of the collection
  Contents,    \* of files, known by their fingerprint
  None,        \* no file, no clip, no fingerprint, no scan
  Scanners,    \* threads that scan
  MaxChanges   \* bound: changes of the directory, and crashes

ASSUME DiscoveryAssumption ==
  /\ None \notin Ids \cup Paths \cup Contents \cup Scanners
  /\ MaxChanges \in Nat

VARIABLES
  disk,      \* the file at each path
  row,       \* the clips
  scan,      \* the scans in progress
  lock,      \* the one that holds the write lock
  trash,     \* source files in the trash
  moving,    \* uploads and renames whose file is in place, but whose row is not
  quiet,     \* history: nothing but the scan has changed anything since it began
  changes    \* changes so far

vars == <<disk, row, scan, lock, trash, moving, quiet, changes>>

NoClip == [path |-> None, fp |-> None, live |-> FALSE]

\* at, fp and clip are what a scan has read of the first file it looks at, to is the path
\* it will write; rows are the clips as its transaction sees them.
Idle == [pc |-> "idle", todo |-> {}, seen |-> {}, at |-> None, fp |-> None, clip |-> None,
         to |-> None, rows |-> [i \in Ids |-> NoClip]]

Init ==
  /\ disk = [p \in Paths |-> None] /\ row = [i \in Ids |-> NoClip]
  /\ scan = [s \in Scanners |-> Idle] /\ lock = None
  /\ trash = {} /\ moving = {}
  /\ quiet = [s \in Scanners |-> TRUE] /\ changes = 0

-----------------------------------------------------------------------------
(* What a scan makes of one file.                                          *)

At(rows, p) == {i \in Ids : rows[i].path = p}

\* Mutant: a file with the content of one clip is that clip, although its file is there.
MissingOrNot(rows, p) == {i \in Ids : rows[i].fp = disk[p]}

\* Clips with the content of the file at p whose own file is gone.
Missing(rows, p) ==
  {i \in Ids : rows[i].fp = disk[p] /\ rows[i].path # None /\ disk[rows[i].path] = None}

\* The clip of the file at p: one with this path (any, if there are several), or the
\* only one it can have been moved from, or none.
Matches(rows, p) ==
  IF At(rows, p) # {} THEN At(rows, p)
  ELSE IF Cardinality(Missing(rows, p)) = 1 THEN Missing(rows, p) ELSE {None}

\* The path that is then written to the row, which has another one or none yet.
Placed(rows, p) == IF At(rows, p) = {} THEN p ELSE None

\* The rows after the scan has written that the file with content fp is clip i, a new
\* one if there was none, at path p unless that is None.
Found(rows, i, p, fp) ==
  {[rows EXCEPT ![j].path = IF p = None THEN @ ELSE p, ![j].fp = fp, ![j].live = TRUE] :
     j \in IF i = None THEN {n \in Ids : rows[n] = NoClip} ELSE {i}}

\* Mutant: a path that a clip has been moved to does not count as seen.
MarkedUnmoved(rows, seen) ==
  [i \in Ids |-> [rows[i] EXCEPT !.live = /\ @ /\ rows[i].path \in seen
                                          /\ row[i].path \in {None, rows[i].path}]]

\* Clips whose path was not seen are deleted.
Marked(rows, seen) == [i \in Ids |-> [rows[i] EXCEPT !.live = @ /\ rows[i].path \in seen]]

-----------------------------------------------------------------------------
(* A scan.                                                                 *)

\* _files walks the whole directory before anything is read.
Begin(s) ==
  /\ scan[s] = Idle
  /\ scan' = [scan EXCEPT ![s].pc = "first", ![s].todo = {p \in Paths : disk[p] # None}]
  /\ UNCHANGED <<disk, row, lock, trash, moving, changes>>

\* The file cannot be opened any more: the scan fails, its transaction is rolled back.
Fail(s) ==
  /\ scan' = [scan EXCEPT ![s] = Idle]
  /\ lock' = IF lock = s THEN None ELSE lock
  /\ UNCHANGED row

\* The first file: the clip is looked up before the scan has the lock ...
Look(s) ==
  /\ scan[s].pc = "first"
  /\ \E p \in scan[s].todo :
       IF disk[p] = None THEN Fail(s)
       ELSE /\ \E i \in Matches(row, p) :
                 scan' = [scan EXCEPT ![s].pc = "write", ![s].at = p, ![s].fp = disk[p],
                                      ![s].clip = i, ![s].to = Placed(row, p)]
            /\ UNCHANGED <<row, lock>>
  /\ UNCHANGED <<disk, trash, moving, changes>>

\* Scan s has dealt with p.
After(s, p, rows) ==
  scan' = [scan EXCEPT ![s] = [Idle EXCEPT !.pc = "rest", !.todo = scan[s].todo \ {p},
                                           !.seen = scan[s].seen \cup {p}, !.rows = rows]]

\* ... the source is probed, and the row written.
Write(s) ==
  /\ scan[s].pc = "write" /\ lock = None
  /\ lock' = s
  /\ \E rows \in Found(row, scan[s].clip, scan[s].to, scan[s].fp) : After(s, scan[s].at, rows)
  /\ UNCHANGED <<disk, row, trash, moving, changes>>

\* Every other file.
Visit(s) ==
  /\ scan[s].pc = "rest"
  /\ \E p \in scan[s].todo :
       IF disk[p] = None THEN Fail(s)
       ELSE /\ \E i \in Matches(scan[s].rows, p) :
                 \E rows \in Found(scan[s].rows, i, Placed(scan[s].rows, p), disk[p]) :
                   After(s, p, rows)
            /\ UNCHANGED <<row, lock>>
  /\ UNCHANGED <<disk, trash, moving, changes>>

\* The missing clips, and the commit.
Commit(s) ==
  /\ \/ scan[s].pc = "rest" /\ row' = Marked(scan[s].rows, scan[s].seen)
     \/ scan[s].pc = "first" /\ lock = None /\ row' = Marked(row, {})
  /\ scan[s].todo = {}
  /\ scan' = [scan EXCEPT ![s] = Idle] /\ lock' = None
  /\ UNCHANGED <<disk, trash, moving, changes>>

-----------------------------------------------------------------------------
(* The directory, by users and by the Library Manager.                     *)

Change == changes < MaxChanges /\ changes' = changes + 1

\* A user adds, replaces or removes a file, or moves one.
Put(p) ==
  /\ Change
  /\ \E c \in Contents \cup {None} : c # disk[p] /\ disk' = [disk EXCEPT ![p] = c]
  /\ UNCHANGED <<row, scan, lock, trash, moving>>

Carry(p, q) ==
  /\ Change
  /\ disk[p] # None /\ disk[q] = None
  /\ disk' = [disk EXCEPT ![p] = None, ![q] = disk[p]]
  /\ UNCHANGED <<row, scan, lock, trash, moving>>

\* _publish_clip and rename_or_move put the file in place ...
Upload(p) ==
  /\ Change
  /\ disk[p] = None
  /\ \E c \in Contents : disk' = [disk EXCEPT ![p] = c]
  /\ moving' = moving \cup {[clip |-> None, path |-> p]}
  /\ UNCHANGED <<row, scan, lock, trash>>

Rename(i, q) ==
  LET p == row[i].path
  IN
  /\ Change
  /\ p # None /\ disk[p] # None /\ disk[q] = None
  /\ disk' = [disk EXCEPT ![p] = None, ![q] = disk[p]]
  /\ moving' = moving \cup {[clip |-> i, path |-> q]}
  /\ UNCHANGED <<row, scan, lock, trash>>

\* ... and then write the row, a new one without a fingerprint or the one renamed.
Settle(m) ==
  /\ lock = None
  /\ moving' = moving \ {m}
  /\ IF m.clip = None
     THEN \E rows \in Found(row, None, m.path, None) : row' = rows
     ELSE row' = [row EXCEPT ![m.clip].path = m.path, ![m.clip].live = TRUE]
  /\ UNCHANGED <<disk, scan, lock, trash, changes>>

\* move_to_trash and restore of a source (Library has their steps).
Trash(i) ==
  LET p == row[i].path
  IN
  /\ Change /\ lock = None
  /\ p # None /\ disk[p] # None
  /\ trash' = trash \cup {[clip |-> i, fp |-> disk[p], path |-> p]}
  /\ disk' = [disk EXCEPT ![p] = None] /\ row' = [row EXCEPT ![i].live = FALSE]
  /\ UNCHANGED <<scan, lock, moving>>

Restore(t) ==
  /\ lock = None /\ disk[t.path] = None
  /\ trash' = trash \ {t}
  /\ disk' = [disk EXCEPT ![t.path] = t.fp] /\ row' = [row EXCEPT ![t.clip].live = TRUE]
  /\ UNCHANGED <<scan, lock, moving, changes>>

\* The process ends and starts again.
Crash ==
  /\ Change
  /\ scan' = [s \in Scanners |-> Idle] /\ lock' = None /\ moving' = {}
  /\ UNCHANGED <<disk, row, trash>>

Scan(s) == Begin(s) \/ Look(s) \/ Write(s) \/ Visit(s) \/ Commit(s)
User(p) == Put(p) \/ \E q \in Paths : Carry(p, q)
Manager ==
  \/ \E p \in Paths : Upload(p) \/ \E i \in Ids : Rename(i, p)
  \/ \E m \in moving : Settle(m)
  \/ \E i \in Ids : Trash(i)
  \/ \E t \in trash : Restore(t)

Next ==
  /\ \/ \E s \in Scanners : Scan(s)
     \/ \E p \in Paths : User(p)
     \/ Manager \/ Crash
  /\ quiet' = [s \in Scanners |-> \/ scan[s] = Idle
                                  \/ quiet[s] /\ disk' = disk /\ row' = row]

Spec == Init /\ [][Next]_vars

-----------------------------------------------------------------------------
\* Scan s commits, and nothing else has happened since it began.
QuietlyEnds(s) ==
  scan[s].pc # "idle" /\ scan'[s].pc = "idle" /\ quiet[s] /\ changes' = changes

\* A scan during which nothing else happens leaves the catalog as the directory is,
\* whatever uploads, moves, crashes and other scans left before it: every file has a
\* clip that is not deleted, with its content; no clip is without a file unless it is
\* deleted; and no file gets a second clip.
ScanReconciles ==
  [][\A s \in Scanners : QuietlyEnds(s) =>
       /\ \A p \in Paths : disk[p] # None =>
            \E i \in At(row', p) : row'[i].live /\ row'[i].fp = disk[p]
       /\ \A i \in Ids : row'[i].live => disk[row'[i].path] # None
       /\ \A i, j \in Ids : row'[i].path = row'[j].path => row[i].path = row[j].path]_vars

\* The file of clip i is gone, and the file at q is the only one it can be.
MovedTo(i, q) ==
  /\ disk[q] # None /\ row[i].fp = disk[q] /\ At(row, q) = {}
  /\ Missing(row, q) = {i}
  /\ \A p \in Paths \ {q} : disk[p] = disk[q] => At(row, p) # {}

\* "A scan may infer a Library Manager move only when exactly one prior record has the
\* same content and its old path is absent" (catalog.py:214-216): a file that was moved
\* outside of the Worker keeps its UUID, in whatever order the scan meets it and others.
MoveKeepsIdentity ==
  [][\A s \in Scanners : QuietlyEnds(s) =>
       \A i \in Ids, q \in Paths : MovedTo(i, q) => row'[i].path = q /\ row'[i].live]_vars
=============================================================================
