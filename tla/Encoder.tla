------------------------------- MODULE Encoder -------------------------------
(* pkg/feature/csv.go over runs of the agent: each run opens the same file,   *)
(* writes a header if the file is new, and appends a row per vector through   *)
(* writers that buffer and remember their first error.  A flush may fail after*)
(* any part of the line, a full disk say, and a run may end at any time.      *)
(* The file is a sequence of lines, of which one that was cut short has no    *)
(* end: what the next run writes continues it.                                *)
EXTENDS Naturals, Sequences, SequencesExt

CONSTANTS MaxRuns,     \* bound: runs of the agent
          MaxRows      \* bound: vectors in a run

ASSUME EncoderAssumption == MaxRuns \in Nat /\ MaxRows \in Nat

VARIABLES exists,      \* the file exists
          file,        \* its lines
          run,         \* the latest run
          state,       \* of the run: "down", "stat", "open" or "up"
          newFile,     \* NewEncoder's variable
          failed,      \* the writers of this run have an error
          given,       \* vectors this run was given
          acked,       \* history: rows for which Write returned no error
          badStart     \* history: a run ended before its header was
                       \* written, or could not write it

vars == <<exists, file, run, state, newFile, failed, given, acked, badStart>>

Header == 0

\* A line of a run is its header or its n-th row; whole unless it was cut.
Lines == [run : 1 .. MaxRuns, n : Header .. MaxRows, whole : BOOLEAN]

Line(n) == [run |-> run, n |-> n, whole |-> TRUE]

TypeOK ==
  /\ exists \in BOOLEAN
  /\ file \in Seq(Lines) /\ (file # <<>> => exists)
  /\ run \in 0 .. MaxRuns
  /\ state \in {"down", "stat", "open", "up"}
  /\ newFile \in BOOLEAN /\ failed \in BOOLEAN
  /\ given \in 0 .. MaxRows
  /\ acked \subseteq Lines
  /\ badStart \in BOOLEAN

Init ==
  /\ exists = FALSE /\ file = <<>>
  /\ run = 0 /\ state = "down"
  /\ newFile = FALSE /\ failed = FALSE /\ given = 0
  /\ acked = {}
  /\ badStart = FALSE

-----------------------------------------------------------------------------
(* NewEncoder *)

\* os.Stat
Stat ==
  /\ state = "down"
  /\ run < MaxRuns
  /\ run' = run + 1
  /\ newFile' = ~exists
  /\ state' = "stat" /\ failed' = FALSE /\ given' = 0
  /\ UNCHANGED <<exists, file, acked, badStart>>

NeedsHeaderAlways == TRUE

NeedsHeader == newFile

OpenExisting ==
  /\ state = "stat"
  /\ state' = IF NeedsHeader THEN "open" ELSE "up"
  /\ UNCHANGED <<exists, file, run, newFile, failed, given, acked, badStart>>

\* os.OpenFile creates the file; a file with a header needs no other.
Open ==
  /\ state = "stat"
  /\ exists' = TRUE
  /\ state' = IF NeedsHeader THEN "open" ELSE "up"
  /\ UNCHANGED <<file, run, newFile, failed, given, acked, badStart>>

FlushForgetful(l, ok) ==
  /\ \/ ok /\ file' = Append(file, l)
     \/ ~ok /\ (UNCHANGED file \/ file' = Append(file, [l EXCEPT !.whole = FALSE]))
  /\ UNCHANGED failed

\* Write and Flush of a line: all of it, some of it or none reaches the file.
\* After an error the writers write nothing any more.
Flush(l, ok) ==
  \/ /\ ~failed /\ ok
     /\ file' = Append(file, l)
     /\ UNCHANGED failed
  \/ /\ ~failed /\ ~ok
     /\ UNCHANGED file \/ file' = Append(file, [l EXCEPT !.whole = FALSE])
     /\ failed' = TRUE
  \/ /\ failed /\ ~ok
     /\ UNCHANGED <<file, failed>>

\* NewEncoder does not look at the error of the flush.
WriteHeader(ok) ==
  /\ state = "open"
  /\ Flush(Line(Header), ok)
  /\ badStart' = (badStart \/ ~ok)
  /\ state' = "up"
  /\ UNCHANGED <<exists, run, newFile, given, acked>>

-----------------------------------------------------------------------------
(* Write and Close *)

\* Write returns the error, main logs it and goes on.
Write(ok) ==
  /\ state = "up"
  /\ given < MaxRows
  /\ given' = given + 1
  /\ Flush(Line(given'), ok)
  /\ acked' = IF ok THEN acked \cup {Line(given')} ELSE acked
  /\ UNCHANGED <<exists, run, state, newFile, badStart>>

\* The run ends, with Close or without: no flush is left to do, for what an
\* error left in the buffer is not written any more.
End ==
  /\ state # "down"
  /\ state' = "down"
  /\ badStart' = (badStart \/ state = "open")
  /\ UNCHANGED <<exists, file, run, newFile, failed, given, acked>>

Over == state = "down" /\ run = MaxRuns /\ UNCHANGED vars

Next ==
  \/ Stat
  \/ Open
  \/ \E ok \in BOOLEAN : WriteHeader(ok) \/ Write(ok)
  \/ End
  \/ Over

Spec == Init /\ [][Next]_vars

-----------------------------------------------------------------------------
(* Properties *)

\* "Header is written once": whatever runs end early, no header is ever in the
\* middle of the file, where the detector would read it as a row; and the file
\* has one, whole, unless a run ended or failed to write between the creation
\* of the file and its header.
HeaderOnce ==
  /\ \A i \in DOMAIN file : file[i].n = Header => i = 1
  /\ state = "up" /\ ~badStart => file # <<>> /\ file[1].n = Header /\ file[1].whole

\* A vector for which Write returned no error has a line of its own, unless it
\* was the first of a run and continues a line that an earlier run was cut in.
AckedIsReadable ==
  \A l \in acked : \E i \in DOMAIN file :
    /\ file[i] = l
    /\ i = 1 \/ file[i - 1].whole \/ l.n = 1
=============================================================================
