------------------------------ MODULE EventStream ------------------------------
(***************************************************************************)
(* The event log of one run and a page that follows it.                    *)
(*                                                                         *)
(* The worker numbers its events and appends each as one line to           *)
(* events.jsonl, which it first renames to events.jsonl.1 when it is full  *)
(* (JsonlEventSink); the manifest that shows what happened is saved after  *)
(* the event was appended, but for two of its entries: that a run started  *)
(* and that a stage failed may be saved before the event that tells it.  A *)
(* page loads the manifest and then reads events.jsonl line by line        *)
(* (read_events), which goes on in the file it opened when that one is     *)
(* renamed away.  Appends, renames and saves may fail, and the worker may  *)
(* die anywhere.                                                           *)
(***************************************************************************)
EXTENDS Integers, Sequences, SequencesExt

CONSTANTS
  Capacity,  \* lines after which the file is rotated
  MaxEvents  \* bound on the events of the run

ASSUME CapacityAssumption == Capacity \in Nat \ {0} /\ MaxEvents \in Nat \ {0}

VARIABLES
  pc,       \* where the worker is
  seq,      \* number of the last event it stamped
  kind,     \* that event ends the run, or tells that a stage failed, or neither
  files,    \* every events.jsonl there has been, oldest first
  live,     \* the last of them is still called events.jsonl
  backup,   \* which of them is called events.jsonl.1; 0 is none
  disk,     \* the saved manifest: the last event it accounts for, if the run is
            \* over, and if that event was still to be emitted
  lost,     \* history: events whose line is not in the log, or is spoiled
  page      \* the page: its step, manifest, file, place in it and events

worker == <<pc, seq, kind>>
log == <<files, live, backup>>
vars == <<worker, log, disk, lost, page>>

-----------------------------------------------------------------------------

Events == 1..MaxEvents

\* A line without its newline is "part"; one with two events on it is "bad".
Line == [event : Events, form : {"whole", "part", "bad"}]

Kinds == {"plain", "failure", "end"}

Manifest == [upto : 0..MaxEvents, over : BOOLEAN, ahead : BOOLEAN]

\* The manifest when the n-th event, of kind k, is the last.  A stage's record
\* is FAILED before the failure is logged: with the line goes a manifest that
\* has the stage's completion already, which is the next event.
ManifestAt(n, k) ==
  [upto |-> IF k = "failure" THEN n + 1 ELSE n, over |-> k = "end", ahead |-> k = "failure"]

Newest == Len(files)
Written(f) == {line.event : line \in {l \in ToSet(files[f]) : l.form = "whole"}}

Full == live /\ Len(files[Newest]) >= Capacity

\* Faulty variant: the size is never looked at.
NeverFull == FALSE

NeedsRotation == Full

TornTail == live /\ files[Newest] # <<>> /\ Last(files[Newest]).form = "part"

-----------------------------------------------------------------------------
(* The worker.                                                             *)

\* The run is saved as running before its first event is emitted.
Start ==
  /\ pc = "new"
  /\ pc' = "idle"
  /\ disk' \in {disk, [disk EXCEPT !.upto = 1, !.ahead = TRUE]}
  /\ UNCHANGED <<seq, kind, log, lost, page>>

\* An event is stamped.  The one that follows a stage's failure is the stage's
\* completion.
Stamp ==
  /\ pc = "idle" /\ kind # "end" /\ seq < MaxEvents
  /\ seq' = seq + 1
  /\ kind' \in IF kind = "failure" THEN {"plain"} ELSE Kinds
  /\ kind' = "failure" => seq' < MaxEvents

\* Faulty variant: the manifest is saved before the event is written.
EmitSaved ==
  /\ Stamp
  /\ disk' \in {disk, ManifestAt(seq', kind')}
  /\ pc' = IF NeedsRotation THEN "unlink" ELSE "append"
  /\ UNCHANGED <<log, lost, page>>

Emit ==
  /\ Stamp
  /\ pc' = IF NeedsRotation THEN "unlink" ELSE "append"
  /\ UNCHANGED <<log, disk, lost, page>>

\* Faulty variant: the file that is unlinked is the one in use.
UnlinkWrong ==
  /\ pc = "unlink"
  /\ live' = FALSE
  /\ pc' = "append"
  /\ UNCHANGED <<seq, kind, files, backup, disk, lost, page>>

Unlink ==
  /\ pc = "unlink"
  /\ backup' = 0
  /\ pc' = "rename"
  /\ UNCHANGED <<seq, kind, files, live, disk, lost, page>>

Rename ==
  /\ pc = "rename"
  /\ backup' = Newest /\ live' = FALSE
  /\ pc' = "append"
  /\ UNCHANGED <<seq, kind, files, disk, lost, page>>

\* Opening the file creates it.
Opened == IF live THEN files ELSE Append(files, <<>>)

\* The text behind what an interrupted write left, or on a line of its own.
AppendedTo(f, form) ==
  IF f # <<>> /\ Last(f).form = "part"
  THEN [f EXCEPT ![Len(f)].form = "bad"]
  ELSE Append(f, [event |-> seq, form |-> form])

\* The line, in one write.  Behind a torn line it is spoiled, and the event
\* is lost with that one.
AppendLine ==
  /\ pc = "append"
  /\ files' = [Opened EXCEPT ![Len(Opened)] = AppendedTo(@, "whole")]
  /\ live' = TRUE
  /\ lost' = IF TornTail THEN lost \cup {seq} ELSE lost
  /\ pc' = "emitted"
  /\ UNCHANGED <<seq, kind, backup, disk, page>>

\* A line longer than the buffer takes more than one write.
AppendPart ==
  /\ pc = "append" /\ ~TornTail
  /\ files' = [Opened EXCEPT ![Len(Opened)] = AppendedTo(@, "part")]
  /\ live' = TRUE
  /\ pc' = "writing"
  /\ UNCHANGED <<seq, kind, backup, disk, lost, page>>

AppendRest ==
  /\ pc = "writing"
  /\ files' = [files EXCEPT ![Newest] = [@ EXCEPT ![Len(@)].form = "whole"]]
  /\ pc' = "emitted"
  /\ UNCHANGED <<seq, kind, live, backup, disk, lost, page>>

\* unlink, rename, open or write raises OSError: the event is given up, and
\* what was written of its line stays.
AppendFails ==
  /\ pc \in {"unlink", "rename", "append", "writing"}
  /\ lost' = lost \cup {seq}
  /\ pc' = "emitted"
  /\ UNCHANGED <<seq, kind, log, disk, page>>

\* The heartbeat or a flush saves the manifest, or the heartbeat is not due or
\* the save fails.
Save ==
  /\ pc = "emitted"
  /\ disk' \in {disk, ManifestAt(seq, kind)}
  /\ pc' = IF kind = "end" THEN "done" ELSE "idle"
  /\ UNCHANGED <<seq, kind, log, lost, page>>

Die ==
  /\ pc \notin {"done", "dead"}
  /\ lost' = IF pc \in {"unlink", "rename", "append", "writing"} THEN lost \cup {seq} ELSE lost
  /\ pc' = "dead"
  /\ UNCHANGED <<seq, kind, log, disk, page>>

-----------------------------------------------------------------------------
(* The page.                                                               *)

\* A page that shows nothing yet of the given manifest.
Blank(manifest) ==
  [step |-> "open", manifest |-> manifest, file |-> 0, next |-> 1,
   seen |-> <<>>, failed |-> FALSE, owed |-> {}]

\* Faulty variant: the manifest is loaded with the page and not again.
LoadOnce ==
  /\ page.step \in {"idle", "shown"}
  /\ page' = Blank(IF page.step = "idle" THEN disk ELSE page.manifest)
  /\ UNCHANGED <<worker, log, disk, lost>>

\* Every two seconds, or when it is opened.
LoadManifest ==
  /\ page.step \in {"idle", "shown"}
  /\ page' = Blank(disk)
  /\ UNCHANGED <<worker, log, disk, lost>>

\* Between a rename and the next append there is no file, and no event.
Open ==
  /\ page.step = "open"
  /\ page' = [page EXCEPT !.step = IF live THEN "read" ELSE "shown",
                !.file = IF live THEN Newest ELSE 0,
                !.owed = IF live THEN Written(Newest) ELSE {}]
  /\ UNCHANGED <<worker, log, disk, lost>>

\* Faulty variant: the next line is looked up in whatever file has the name.
ReadLineByName ==
  /\ page.step = "read" /\ page.next <= Len(files[Newest])
  /\ LET line == files[Newest][page.next] IN
     page' = [page EXCEPT !.next = @ + 1,
                !.seen = IF line.form = "whole" THEN Append(@, line.event) ELSE @]
  /\ UNCHANGED <<worker, log, disk, lost>>

\* A torn line is not JSON, unless only its newline is missing.
ReadLine ==
  /\ page.step = "read" /\ page.next <= Len(files[page.file])
  /\ LET line == files[page.file][page.next] IN
     \E parses \in IF line.form = "part" THEN BOOLEAN ELSE {line.form = "whole"} :
       page' = [page EXCEPT !.next = @ + 1,
                  !.seen = IF parses THEN Append(@, line.event) ELSE @]
  /\ UNCHANGED <<worker, log, disk, lost>>

\* The end of the file, or a read that raises: what was read is shown.
EndRead ==
  /\ page.step = "read"
  /\ \E failed \in BOOLEAN :
       /\ ~failed => page.next > Len(files[page.file])
       /\ page' = [page EXCEPT !.step = "shown", !.failed = failed]
  /\ UNCHANGED <<worker, log, disk, lost>>

-----------------------------------------------------------------------------

Init ==
  /\ pc = "new" /\ seq = 0 /\ kind = "plain"
  /\ files = <<>> /\ live = FALSE /\ backup = 0
  /\ disk = ManifestAt(0, "plain")
  /\ lost = {}
  /\ page = [Blank(disk) EXCEPT !.step = "idle"]

Worker ==
  \/ Start \/ Emit \/ Save \/ Die
  \/ Unlink \/ Rename
  \/ AppendLine \/ AppendPart \/ AppendRest \/ AppendFails

Refresh == LoadManifest \/ Open \/ ReadLine \/ EndRead

Next == Worker \/ Refresh

\* The page refreshes for as long as it is open.  Nothing is asked of the
\* worker.
Spec == Init /\ [][Next]_vars /\ WF_vars(Refresh)

-----------------------------------------------------------------------------

\* Besides the types: no file has more lines than the capacity, whatever step
\* of a rotation fails (JsonlEventSink._rotate_if_needed).
TypeOK ==
  /\ pc \in {"new", "idle", "unlink", "rename", "append", "writing", "emitted", "done", "dead"}
  /\ seq \in 0..MaxEvents /\ kind \in Kinds
  /\ \A f \in 1..Len(files) : files[f] \in BoundedSeq(Line, Capacity)
  /\ live \in BOOLEAN /\ backup \in 0..Len(files)
  /\ disk \in Manifest
  /\ lost \subseteq Events
  /\ page.step \in {"idle", "open", "read", "shown"}
  /\ page.manifest \in Manifest
  /\ page.file \in 0..Len(files) /\ page.next \in Nat
  /\ page.seen \in Seq(Events) /\ page.owed \subseteq Events

InOrder(events) == \A i, j \in DOMAIN events : i < j => events[i] < events[j]

\* What a page shows is in the order it happened, without repetitions, and
\* holds every event that stood in the file when it was opened, although the
\* worker appends and rotates while the page reads (read_events).
ReadIsComplete ==
  page.step = "shown" =>
    /\ InOrder(page.seen)
    /\ page.failed \/ page.owed \subseteq ToSet(page.seen)

Appended == {n \in 1..seq : n < seq \/ pc \in {"emitted", "idle", "done", "dead"}} \ lost

\* Each of the last events, as many as a file holds, is in events.jsonl or in
\* events.jsonl.1 unless its own append failed: also when the worker died or a
\* call failed between the unlink and the rename of a rotation
\* (JsonlEventSink._rotate_if_needed).  An append cut short can take one later
\* event with it; that one is in lost.
RecentIsKept ==
  \A n \in Appended :
    n > seq - Capacity =>
      \/ live /\ n \in Written(Newest)
      \/ backup # 0 /\ n \in Written(backup)

\* The events that a manifest accounts for and that were emitted before.
Announced(manifest) == 1..(IF manifest.ahead THEN manifest.upto - 1 ELSE manifest.upto)

\* The page is not behind the manifest it shows: an event that the manifest
\* accounts for is shown, unless it was lost or rotated away
\* (RunSession.emit).  The manifest may be ahead by one event: the start
\* (RunSession.start), and the completion of a stage whose failure a page
\* then shows as logged (ValidationPipeline._stage).
PageIsCoherent ==
  page.step = "shown" /\ page.file # 0 /\ ~page.failed =>
    \A n \in Announced(page.manifest) :
      \/ n \in ToSet(page.seen) \cup lost
      \/ \E f \in 1..(page.file - 1) : n \in Written(f)

\* When the manifest says that the run is over, an open page comes to show its
\* last event and that it is over, unless the event was lost or a read failed
\* (live_run._render_body).
EndIsShown ==
  disk.over ~>
    /\ page.step = "shown" /\ page.manifest.over
    /\ page.failed \/ seq \in ToSet(page.seen) \cup lost

=============================================================================
