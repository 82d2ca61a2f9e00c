------------------------------- MODULE Journal -------------------------------
(***************************************************************************)
(* The return service's journal, service/src/journal.rs, under the store   *)
(* that commits to it, ReturnStore in service/src/store.rs: every event is *)
(* appended to a file and synced before it changes the ledger in memory,   *)
(* and a start replays the file, interrupts what was being proved, and     *)
(* replaces the file with a snapshot.                                      *)
(*                                                                         *)
(* The process may die between any two steps.  An append it dies in leaves *)
(* nothing, part of its line, or the line without its newline; whatever is *)
(* appended next then continues that line.                                 *)
(*                                                                         *)
(* A ledger is the sequence of events that made it.  Of the events, only   *)
(* those that begin and end a proof are told apart, because a start adds   *)
(* an interruption for a proof it finds begun.                             *)
(***************************************************************************)
EXTENDS Naturals, Sequences

CONSTANTS
  MaxEvents,  \* bound: events committed by the running service
  MaxCrashes  \* bound: how often the process dies

ASSUME JournalAssumption == MaxEvents \in Nat /\ MaxCrashes \in Nat

VARIABLES
  file,    \* the lines of journal.jsonl
  ended,   \* the last line has its newline
  ledger,  \* Inner::ledger, in memory
  writing, \* the event being appended, or NoEvent
  phase,   \* what the process does
  served,  \* the ledger last shown to a client, across restarts
  crashes

vars == <<file, ended, ledger, writing, phase, served, crashes>>

Intake == "intake"            \* Accepted, Requeued, ReturnExcluded
Begin == "begin"              \* BatchFormed, BatchRebased
End == "end"                  \* BatchProven, BatchSettled, BatchFailed
Interrupt == "interrupt"      \* BatchInterrupted
NoEvent == "none"
Events == {Intake, Begin, End, Interrupt}

(* A line that parses holds one event or a snapshot; a garbled one does not*)
(* parse.                                                                  *)
EventLine(e) == [kind |-> "event", event |-> e, snapshot |-> <<>>]
SnapshotLine(L) == [kind |-> "snapshot", event |-> NoEvent, snapshot |-> L]
Garbled == [kind |-> "garbled", event |-> NoEvent, snapshot |-> <<>>]

Phases == {"down", "recovering", "compacting", "running", "refused"}

Init ==
  /\ file = <<>> /\ ended = TRUE
  /\ ledger = <<>> /\ writing = NoEvent /\ phase = "down"
  /\ served = <<>> /\ crashes = 0

(***************************************************************************)
(* The file                                                                *)
(***************************************************************************)

(* write_all of a line: a line of its own, or the end of an unended one.   *)
Written(line) ==
  IF ended THEN Append(file, line) ELSE [file EXCEPT ![Len(file)] = Garbled]

(* read_events: every line but the last must parse.                        *)
Readable == \A i \in 1..(Len(file) - 1) : file[i].kind # "garbled"
(* What the ledger is after one more line.                                 *)
(* Mutant: a partial line is read as an event.                             *)
AfterMutant(L, line) ==
  IF line.kind = "snapshot" THEN line.snapshot ELSE Append(L, line.event)
After(L, line) ==
  CASE line.kind = "event"    -> Append(L, line.event)
    [] line.kind = "snapshot" -> line.snapshot
    [] line.kind = "garbled"  -> L

(* The ledgers on the way through the lines, and the last of them.         *)
Replays(lines) ==
  LET replay[i \in 0..Len(lines)] ==
        IF i = 0 THEN <<>> ELSE After(replay[i - 1], lines[i])
  IN  replay
ReplayOf(lines) == Replays(lines)[Len(lines)]
Replay == ReplayOf(file)

(* Ledger::recover finds a batch still proving.                            *)
Proving(L) ==
  \E i \in 1..Len(L) : L[i] = Begin /\ \A j \in (i + 1)..Len(L) : L[j] = Intake

(***************************************************************************)
(* Commits                                                                 *)
(***************************************************************************)
(* One batch is proved at a time; an orderly stop interrupts it.           *)
Committable ==
  {Intake} \cup (IF Proving(ledger) THEN {End, Interrupt} ELSE {Begin})

(* Inner::commit appends under the store's lock, so one at a time.         *)
Commit(e) ==
  /\ phase = "running" /\ writing = NoEvent
  /\ Len(served) < MaxEvents
  /\ writing' = e
  /\ UNCHANGED <<file, ended, ledger, phase, served, crashes>>

(* The line is written and synced, and the event applied; while the API is *)
(* up a client sees it.                                                    *)
Applied ==
  /\ writing # NoEvent
  /\ file' = Written(EventLine(writing)) /\ ended' = TRUE
  /\ ledger' = Append(ledger, writing)
  /\ writing' = NoEvent
  /\ served' = IF phase = "running" THEN ledger' ELSE served
  /\ phase' = IF phase = "recovering" THEN "compacting" ELSE phase
  /\ UNCHANGED crashes

(***************************************************************************)
(* ReturnStore::open                                                       *)
(***************************************************************************)
Open ==
  /\ phase = "down"
  /\ IF Readable
     THEN phase' = "recovering" /\ ledger' = Replay
     ELSE phase' = "refused" /\ UNCHANGED ledger
  /\ UNCHANGED <<file, ended, writing, served, crashes>>

CutOff == Proving(ledger)
Recover ==
  /\ phase = "recovering" /\ writing = NoEvent
  /\ IF CutOff
     THEN writing' = Interrupt /\ UNCHANGED phase
     ELSE phase' = "compacting" /\ UNCHANGED writing
  /\ UNCHANGED <<file, ended, ledger, served, crashes>>

(* The snapshot is written to another file and renamed over the journal:   *)
(* a crash before the rename leaves the journal as it was.                 *)
(* Mutant: the journal is kept, and only appended to.                      *)
CompactedMutant == UNCHANGED <<file, ended>>
(* Mutant: the snapshot is appended to the journal.                        *)
CompactedAtEndMutant == file' = Written(SnapshotLine(ledger)) /\ ended' = TRUE
Compacted == file' = <<SnapshotLine(ledger)>> /\ ended' = TRUE

Compact ==
  /\ phase = "compacting"
  /\ Compacted
  /\ phase' = "running"
  /\ served' = ledger
  /\ UNCHANGED <<ledger, writing, crashes>>

(***************************************************************************)
(* The process dies, or exits because an append failed.                    *)
(***************************************************************************)
Leaves(e) ==
  \/ UNCHANGED <<file, ended>>
  \/ file' = Written(Garbled) /\ ended' = FALSE
  \/ file' = Written(EventLine(e)) /\ ended' = FALSE
  \/ file' = Written(EventLine(e)) /\ ended' = TRUE

Crash ==
  /\ phase \in {"recovering", "compacting", "running"}
  /\ crashes < MaxCrashes
  /\ crashes' = crashes + 1
  /\ phase' = "down" /\ writing' = NoEvent /\ ledger' = <<>>
  /\ IF writing = NoEvent THEN UNCHANGED <<file, ended>> ELSE Leaves(writing)
  /\ UNCHANGED served

Next ==
  \/ \E e \in Events : e \in Committable /\ Commit(e)
  \/ Applied
  \/ Open
  \/ Recover
  \/ Compact
  \/ Crash

Spec == Init /\ [][Next]_vars

(***************************************************************************)
(* Properties                                                              *)
(***************************************************************************)
Lines == [kind : {"event", "snapshot", "garbled"}, event : Events \cup {NoEvent},
          snapshot : Seq(Events)]

TypeOK ==
  /\ file \in Seq(Lines) /\ ended \in BOOLEAN
  /\ ledger \in Seq(Events) /\ writing \in Events \cup {NoEvent}
  /\ phase \in Phases
  /\ served \in Seq(Events)
  /\ crashes \in 0..MaxCrashes

(* Whatever a client was shown survives every crash, in order, a crash in  *)
(* the middle of a start included, and a start brings back at most the one *)
(* event whose commit was under way: the file, as a start would read it,   *)
(* is the log the service was promised.                                    *)
Log == INSTANCE DurableLog WITH log <- Replay, shown <- served, Interruption <- Interrupt
ImplementsDurableLog == Log!Spec

(* While the service runs, the file alone gives the ledger it serves.      *)
FileIsLedger ==
  phase = "running" => Readable /\ Replay = ledger

(* A journal whose last line a crash cut short is tolerated: the service   *)
(* starts, however often it died before.                                   *)
AlwaysStarts == phase # "refused"
==============================================================================
