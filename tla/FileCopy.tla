------------------------------ MODULE FileCopy -------------------------------
(***************************************************************************)
(* The copy program of Assignment6/mycp.c, run again and again: reads may  *)
(* be short or fail, and so may writes.  A file is the sequence of its     *)
(* bytes, and a file that does not exist is NoFile.                        *)
(***************************************************************************)
EXTENDS Integers, Sequences, SequencesExt

CONSTANTS NoFile, BUFFER_SIZE,
          Sources,             \* what file1 may hold
          MaxRuns, MaxFaults

(* Sources are files, and NoFile is none, nor what a copy begins with.     *)
ASSUME CopyAssumption ==
  /\ BUFFER_SIZE \in Nat \ {0}
  /\ \A s \in Sources \ {NoFile} :
       /\ s \in Seq({s[i] : i \in DOMAIN s})
       /\ \A n \in 0..Len(s) : SubSeq(s, 1, n) # NoFile

VARIABLES file1, file2,
          pc, at,              \* where main is, and its place in file1
          buffer, total_bytes,
          copied,              \* the runs that said they had copied
          readFailed,          \* whether a read of this run failed
          runs, faults

copyVars == <<file1, file2, pc, at, buffer, total_bytes, copied, readFailed, runs, faults>>

CopyInit ==
  /\ file1 \in Sources /\ file2 = NoFile
  /\ pc = "out" /\ at = 0 /\ buffer = <<>> /\ total_bytes = 0
  /\ copied = 0 /\ readFailed = FALSE /\ runs = 0 /\ faults = 0

Fault == faults < MaxFaults /\ faults' = faults + 1

(* The files are opened; O_EXCL refuses a file2 that exists. *)
OpenFiles ==
  /\ pc = "out" /\ runs < MaxRuns
  /\ runs' = runs + 1
  /\ IF file1 # NoFile /\ file2 = NoFile
     THEN pc' = "read" /\ file2' = <<>> ELSE UNCHANGED <<pc, file2>>
  /\ at' = 0 /\ total_bytes' = 0 /\ readFailed' = FALSE /\ buffer' = <<>>
  /\ UNCHANGED <<file1, copied, faults>>

(* read returns up to BUFFER_SIZE bytes, 0 at the end of the file. *)
ReadBlock ==
  /\ pc = "read"
  /\ LET left == Len(file1) - at
     IN  \E n \in (IF left = 0 THEN {0} ELSE 1..(IF left < BUFFER_SIZE THEN left ELSE BUFFER_SIZE)) :
           /\ buffer' = SubSeq(file1, at + 1, at + n)
           /\ at' = at + n
           /\ pc' = IF n > 0 THEN "write" ELSE "report"
  /\ UNCHANGED <<file1, file2, total_bytes, copied, readFailed, runs, faults>>

(* The -1 of an error is not above 0, and ends the loop, too. *)
ReadFails ==
  /\ pc = "read" /\ Fault
  /\ pc' = "report" /\ readFailed' = TRUE
  /\ UNCHANGED <<file1, file2, at, buffer, total_bytes, copied, runs>>

WriteBlock ==
  /\ pc = "write"
  /\ file2' = file2 \o buffer
  /\ total_bytes' = total_bytes + Len(buffer)
  /\ pc' = "read"
  /\ UNCHANGED <<file1, at, buffer, copied, readFailed, runs, faults>>

\* Mutant of WriteFails: a short write is taken for a whole one.
WriteFails_GoesOn ==
  /\ pc = "write" /\ Fault
  /\ \E n \in 0..Len(buffer) - 1 : file2' = file2 \o SubSeq(buffer, 1, n)
  /\ pc' = "read"
  /\ total_bytes' = total_bytes + Len(buffer)
  /\ UNCHANGED <<file1, at, buffer, copied, readFailed, runs>>

(* A short write, or an error: the program ends. *)
WriteFails ==
  /\ pc = "write" /\ Fault
  /\ \E n \in 0..Len(buffer) - 1 : file2' = file2 \o SubSeq(buffer, 1, n)
  /\ pc' = "out"
  /\ UNCHANGED <<file1, at, buffer, total_bytes, copied, readFailed, runs>>

Report ==
  /\ pc = "report"
  /\ copied' = copied + 1
  /\ pc' = "out"
  /\ UNCHANGED <<file1, file2, at, buffer, total_bytes, readFailed, runs, faults>>

CopyNext == OpenFiles \/ ReadBlock \/ ReadFails \/ WriteBlock \/ WriteFails \/ Report

CopySpec == CopyInit /\ [][CopyNext]_copyVars

(* file2 never has anything that is not at the same place in file1, and    *)
(* the number that is printed is its length; a copy is complete when it is *)
(* reported, unless a read failed; and no run touches the copy of another. *)
CopiesAreTrue ==
  /\ file2 # NoFile => IsPrefix(file2, file1)
  /\ pc \in {"read", "report"} => total_bytes = Len(file2)
  /\ pc = "report" /\ ~readFailed => file2 = file1
  /\ copied <= 1

=============================================================================
