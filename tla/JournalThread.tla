---------------------------- MODULE JournalThread ----------------------------
(***************************************************************************)
(* The journal: the engine thread pushes a record of everything it takes   *)
(* and sends into a ring, and drops and counts it when the ring is full; a *)
(* thread of its own writes the ring to disk until the session's stop flag *)
(* is raised.  The engine looks at that flag at the head of its loop, goes *)
(* through its pass whatever it says by then, and records the cancels of   *)
(* shutdown after the last pass.                                           *)
(*                                                                         *)
(* Records are numbered in the order they are made; what the n-th one      *)
(* says is a session's.  A push and a pop are single steps (Ring           *)
(* implements BoundedQueue).  file has what the writer has on disk or in   *)
(* its buffer; the last thing it does is to flush the buffer.  When a      *)
(* write or that flush fails, any part of the buffer may be on disk: the   *)
(* writer's thread ends in the same way, and nobody is told.               *)
(***************************************************************************)
EXTENDS JournalFormat

CONSTANTS
  Sessions,     \* sequences of records to look at
  Capacity,     \* slots of the ring
  DiskFails,    \* writing may fail
  PassRecords,  \* bound: records of a pass of the engine's loop
  MaxRecords    \* bound: records of the session before shutdown

ASSUME JournalAssumption ==
  /\ Capacity \in Nat \ {0} /\ {PassRecords, MaxRecords} \subseteq Nat
  /\ DiskFails \in BOOLEAN
  /\ \A s \in Sessions : /\ s \in Seq(Record)
                          /\ Len(s) >= MaxRecords + PassRecords

VARIABLES
  session,      \* what the records of this session say
  stop,
  epc, left,    \* engine; records left of its pass
  made, ring, dropped,
  jpc,          \* writer: "pop", "check" the flag, "flush", "done"
  wrote,        \* something was written since the flag was last looked at
  file,
  failed        \* history: the disk failed the writer

engineVars == <<epc, left>>
writerVars == <<jpc, wrote, file, failed>>
vars == <<session, stop, engineVars, made, ring, dropped, writerVars>>

Init ==
  /\ session \in Sessions
  /\ stop = FALSE
  /\ epc = "head" /\ left = 0
  /\ made = 0 /\ ring = <<>> /\ dropped = {}
  /\ jpc = "pop" /\ wrote = FALSE /\ file = <<>> /\ failed = FALSE

(* The duration of the session is over, or Ctrl-C. *)
Stop ==
  /\ stop = FALSE
  /\ stop' = TRUE
  /\ UNCHANGED <<session, engineVars, made, ring, dropped, writerVars>>

-----------------------------------------------------------------------------
(* Engine thread *)

(* Some records come of a pass, or of the cancels of shutdown. *)
EngineHead ==
  /\ epc = "head"
  /\ epc' = IF stop THEN "shutdown" ELSE "pass"
  /\ left' \in 0..PassRecords
  /\ UNCHANGED <<session, stop, made, ring, dropped, writerVars>>

HasRoom == Len(ring) < Capacity

\* Mutant of Journal: the engine waits for room.
JournalSpins ==
  /\ epc \in {"pass", "shutdown"} /\ left > 0 /\ HasRoom
  /\ made < MaxRecords \/ epc = "shutdown"
  /\ left' = left - 1
  /\ made' = made + 1 /\ ring' = Append(ring, made + 1)
  /\ UNCHANGED <<session, stop, epc, dropped, writerVars>>

(* A full ring costs the record, never time. *)
Journal ==
  /\ epc \in {"pass", "shutdown"} /\ left > 0
  /\ made < MaxRecords \/ epc = "shutdown"
  /\ left' = left - 1
  /\ made' = made + 1
  /\ IF HasRoom
     THEN ring' = Append(ring, made + 1) /\ UNCHANGED dropped
     ELSE dropped' = dropped \cup {made + 1} /\ UNCHANGED ring
  /\ UNCHANGED <<session, stop, epc, writerVars>>

EngineLoops ==
  /\ epc \in {"pass", "shutdown"}
  /\ left = 0 \/ (epc = "pass" /\ made = MaxRecords)
  /\ epc' = IF epc = "pass" THEN "head" ELSE "done"
  /\ left' = 0
  /\ UNCHANGED <<session, stop, made, ring, dropped, writerVars>>

Engine == EngineHead \/ Journal \/ EngineLoops

-----------------------------------------------------------------------------
(* Journal thread *)

Written(r) == Append(file, Encode(session[r]))

WriterPop ==
  /\ jpc = "pop" /\ ring # <<>>
  /\ ring' = Tail(ring)
  /\ file' = Written(Head(ring)) /\ wrote' = TRUE
  /\ UNCHANGED <<session, stop, engineVars, made, dropped, jpc, failed>>

(* The disk keeps a beginning of the file, and may keep a part of the next *)
(* record; the thread ends.                                                *)
DiskKeepsPart ==
  /\ DiskFails
  /\ \E n \in 0..Len(file), tail \in {<<>>, <<Torn>>} :
       n + Len(tail) <= Len(file) /\ file' = SubSeq(file, 1, n) \o tail
  /\ jpc' = "done" /\ failed' = TRUE

(* A write fails, and the record taken for it is gone as well. *)
WriterFails ==
  /\ jpc = "pop" /\ ring # <<>>
  /\ ring' = Tail(ring)
  /\ DiskKeepsPart
  /\ UNCHANGED <<session, stop, engineVars, made, dropped, wrote>>

(* The ring is empty: the flag is looked at when nothing was written since *)
(* the last time.                                                          *)
WriterIdle ==
  /\ jpc = "pop" /\ ring = <<>>
  /\ jpc' = IF wrote THEN "pop" ELSE "check"
  /\ wrote' = FALSE
  /\ UNCHANGED <<session, stop, engineVars, made, ring, dropped, file, failed>>

\* Mutant of WriterMayLeave: the rest of the ring is not looked at.
WriterMayLeaveAtOnce == stop

WriterMayLeave == stop /\ ring = <<>>

WriterCheck ==
  /\ jpc = "check"
  /\ jpc' = IF WriterMayLeave THEN "flush" ELSE "pop"
  /\ UNCHANGED <<session, stop, engineVars, made, ring, dropped, wrote, file,
                 failed>>

(* The error of the last flush is ignored. *)
WriterFlush ==
  /\ jpc = "flush"
  /\ \/ jpc' = "done" /\ UNCHANGED <<file, failed>>
     \/ DiskKeepsPart
  /\ UNCHANGED <<session, stop, engineVars, made, ring, dropped, wrote>>

Writer == WriterPop \/ WriterFails \/ WriterIdle \/ WriterCheck \/ WriterFlush

-----------------------------------------------------------------------------

Next == Stop \/ Engine \/ Writer

(* Both threads run; nobody has to stop the session. *)
Spec == Init /\ [][Next]_vars /\ WF_vars(Engine) /\ WF_vars(Writer)

-----------------------------------------------------------------------------

(* A record that is not counted as dropped comes behind those before it    *)
(* that are not.                                                           *)
KeptCount == made - Cardinality(dropped)
Place(r) == r - Cardinality({d \in dropped : d < r})
Complete == Len(file) + Cardinality(dropped) = made

(* These are the first records that were kept, in their places.            *)
Begins(records) ==
  /\ Len(records) <= KeptCount
  /\ \A r \in (1..made) \ dropped :
       Place(r) <= Len(records) => records[Place(r)] = session[r]

(* What the reader finds in the file, continued by the ring, is everything *)
(* the engine recorded, field by field and in its order, but for what is   *)
(* counted as dropped.  When the disk failed a write or the last flush, it *)
(* finds a beginning of that, and nothing that was never recorded.         *)
NothingLost ==
  LET found == Readable(file)
      all   == found \o [i \in DOMAIN ring |-> session[ring[i]]]
  IN IF failed THEN Begins(found)
     ELSE Begins(all) /\ Len(all) = KeptCount

(* A replay of the exported feed gives the engine the messages of the      *)
(* session, and lets the strategy act only on books on which it acted, or  *)
(* could have acted, in the session, although the ends of its batches are  *)
(* guessed from timestamps.  The last row of the file is always an end ("a *)
(* live session can be turned into a portable dataset",                    *)
(* docs/src/journal.md).                                                   *)
Msgs(md) == [i \in DOMAIN md |-> md[i].msg]
BookAfter(md, n) == FoldLeft(Apply, EmptyBook, Msgs(SubSeq(md, 1, n)))
ExportReplays ==
  jpc = "done" /\ ~failed /\ dropped = {} =>
    LET md == SelectSeq(Readable(file), LAMBDA r : r.type = "Md")
        csv == ReadFile(ExportFeed(Readable(file)))
        ends == {0} \cup {n \in DOMAIN md : md[n].final}
    IN /\ csv # NoValue /\ Msgs(csv) = Msgs(md)
       /\ \A n \in DOMAIN csv :
            csv[n].final /\ n # Len(csv) =>
              \E k \in ends : BookAfter(csv, n) = BookAfter(md, k)

(* "drains the ring to disk until `stop`, then drains the rest"            *)
(* (journal/src/lib.rs:244): when the engine is done by the time the       *)
(* writer leaves its loop, every record is written or counted as dropped;  *)
(* what the last flush may still lose of it is in NothingLost.             *)
DrainsTheRest ==
  [][jpc # "flush" /\ jpc' = "flush" /\ epc = "done" => Complete]_vars

(* After a stop both threads end, for main to join them: a journal whose   *)
(* disk fails, or is slow, does not keep the engine from stopping ("disk   *)
(* speed never affects the engine", docs/src/journal.md).                  *)
ThreadsEnd == stop ~> (epc = "done" /\ jpc = "done")

(* "every market-data message, order and execution report is recorded"     *)
(* (docs/src/journal.md:5): when both threads are done, every record is in *)
(* the file or counted as dropped.                                         *)
JournalComplete ==
  epc = "done" /\ jpc = "done" => Complete

=============================================================================
