---------------------------- MODULE FunctionList -----------------------------
(***************************************************************************)
(* The menu of Assignment2/functionlist.c.  A process that is asked for    *)
(* Hello World or the list of files forks a child and waits for it; both   *)
(* read the same standard input.  fork and execlp may fail.  At the end of *)
(* the input fgets leaves userInput as it is, which may be anything.       *)
(***************************************************************************)
EXTENDS Integers, Sequences, FiniteSets

CONSTANTS Selections,          \* what atoi makes of a line: 1, 2, 3 and others
          MaxAnswers, MaxFailures, MaxProcesses

VARIABLES procs,               \* every process: where it is, its selection, its parent
          input,               \* the lines yet to be read
          chosen,              \* the selections made
          hellos, lists,       \* what children have printed
          failures

listVars == <<procs, input, chosen, hellos, lists, failures>>

ListInit ==
  /\ procs = <<[pc |-> "process", selection |-> 0, parent |-> 0]>>
  /\ input \in UNION {[1..n -> Selections] : n \in 0..MaxAnswers}
  /\ chosen = <<>> /\ hellos = 0 /\ lists = 0 /\ failures = 0

Goes(p, there) == procs' = [procs EXCEPT ![p].pc = there]

(* process(): the menu, and an answer. *)
Select(p, selection) ==
  /\ procs[p].pc = "process" /\ Len(chosen) <= MaxAnswers
  /\ IF input = <<>> THEN UNCHANGED input
     ELSE selection = input[1] /\ input' = Tail(input)
  /\ chosen' = Append(chosen, selection)
  /\ procs' = [procs EXCEPT ![p].selection = selection,
                            ![p].pc = CASE selection \in {1, 2} -> "fork"
                                        [] selection = 3 -> "exited"
                                        [] OTHER -> "process"]
  /\ UNCHANGED <<hellos, lists, failures>>

(* fork: the child goes on with its own copy of the selection. *)
Fork(p) ==
  /\ procs[p].pc = "fork" /\ Len(procs) < MaxProcesses
  /\ procs' = Append([procs EXCEPT ![p].pc = "wait"],
                     [pc |-> "child", selection |-> procs[p].selection, parent |-> p])
  /\ UNCHANGED <<input, chosen, hellos, lists, failures>>

(* A fork that fails is tried again for the same selection. *)
ForkFails(p) ==
  /\ procs[p].pc = "fork"
  /\ failures < MaxFailures /\ failures' = failures + 1
  /\ UNCHANGED <<procs, input, chosen, hellos, lists>>

SayHello(p) ==
  /\ procs[p].pc = "child" /\ procs[p].selection = 1
  /\ Goes(p, "exited")
  /\ hellos' = hellos + 1
  /\ UNCHANGED <<input, chosen, lists, failures>>

ListFiles(p) ==
  /\ procs[p].pc = "child" /\ procs[p].selection = 2
  /\ Goes(p, "exited")
  /\ lists' = lists + 1
  /\ UNCHANGED <<input, chosen, hellos, failures>>

\* Mutant of ExecFails: the child asks for a selection of its own.
ExecFails_Asks(p) ==
  /\ procs[p].pc = "child" /\ procs[p].selection = 2
  /\ failures < MaxFailures /\ failures' = failures + 1
  /\ Goes(p, "process")
  /\ UNCHANGED <<input, chosen, hellos, lists>>

(* execlp returns: the child is in the loop of its parent, and forks. *)
ExecFails(p) ==
  /\ procs[p].pc = "child" /\ procs[p].selection = 2
  /\ failures < MaxFailures /\ failures' = failures + 1
  /\ Goes(p, "fork")
  /\ UNCHANGED <<input, chosen, hellos, lists>>

(* wait(NULL): a child has exited; then process() again. *)
Wait(p) ==
  /\ procs[p].pc = "wait"
  /\ \E c \in DOMAIN procs :
       /\ procs[c].parent = p /\ procs[c].pc = "exited"
       /\ procs' = [procs EXCEPT ![c].pc = "reaped", ![p].pc = "process"]
  /\ UNCHANGED <<input, chosen, hellos, lists, failures>>

ListNext ==
  \E p \in DOMAIN procs :
    \/ \E s \in Selections : Select(p, s)
    \/ Fork(p) \/ ForkFails(p) \/ SayHello(p) \/ ListFiles(p) \/ ExecFails(p) \/ Wait(p)

ListSpec == ListInit /\ [][ListNext]_listVars

Count(s, x) == Cardinality({i \in DOMAIN s : s[i] = x})

(* However often fork and execlp fail, and however many processes that     *)
(* leaves, at most one of them asks at a time, and when it does every      *)
(* selection so far has been carried out exactly once.                     *)
OneAsks ==
  \A p, q \in DOMAIN procs :
    procs[p].pc = "process" =>
      /\ q # p => procs[q].pc \in {"wait", "exited", "reaped"}
      /\ hellos = Count(chosen, 1) /\ lists = Count(chosen, 2)

=============================================================================
