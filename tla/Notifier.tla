------------------------------ MODULE Notifier ------------------------------
(***************************************************************************)
(* Notifier::notify of src/src/notifier.rs: an event goes to a log file,   *)
(* to influx and to a webhook at the same time (tokio::join!), and notify  *)
(* returns when the last of them has.  Its caller holds the runner's mutex *)
(* all the while.  No code sets webhook_url, so that notify_webhook        *)
(* returns at once.  One notification is under way at a time.              *)
(***************************************************************************)
EXTENDS Naturals, Sequences

CONSTANTS
  MaxAttempts,      \* influx_max_attempts
  InfluxActive      \* AGENT_NOTIFY_INFLUX is not "false"

ASSUME NotifierAssumption ==
  MaxAttempts \in Nat \ {0} /\ InfluxActive \in BOOLEAN

VARIABLES
  note,             \* the notification under way
  told,             \* history: the events of the current run, in order
  kept              \* history: what the log file has of the run's outcome

notifyVars == <<note, told, kept>>

AgentEvents == {"start", "authorize", "task:skip"}
RunEvents == {"task:start", "task:finish", "task:error"}
Notes == [event : AgentEvents \cup RunEvents \cup {"none"}, task : Nat,
          file : {"todo", "done"}, attempts : 0..MaxAttempts]
NoNote ==
  [event |-> "none", task |-> 0, file |-> "done", attempts |-> MaxAttempts]

(* The notification of an event begins.  Only the runner's has a log path, *)
(* and only the outcome of a task has something to save.                   *)
Notify(event, task) ==
  /\ note' = [event |-> event, task |-> task,
              file |-> IF event \in {"task:finish", "task:error"}
                         THEN "todo" ELSE "done",
              attempts |-> IF InfluxActive THEN 0 ELSE MaxAttempts]
  /\ told' = IF event \in RunEvents THEN Append(told, event) ELSE told

(* save_to_file.  The file has all of the output, or a part, because the   *)
(* reading or the writing of it broke off, or nothing, because there is no *)
(* directory or it does not open.  Each is only logged.                    *)
SaveToFile ==
  /\ note.file = "todo"
  /\ note' = [note EXCEPT !.file = "done"]
  /\ kept' \in {"all", "part", "nothing"}
  /\ UNCHANGED told

(* notify_influx: the request is accepted, or there is a pause and another *)
(* attempt, up to MaxAttempts.  AskForever is a faulty variant that starts *)
(* over after the last attempt.                                            *)
AskForever ==
  /\ note.attempts < MaxAttempts
  /\ \E accepted \in BOOLEAN :
       note' = [note EXCEPT !.attempts =
                  IF accepted THEN MaxAttempts ELSE (@ + 1) % MaxAttempts]
  /\ UNCHANGED <<told, kept>>
AskInflux ==
  /\ note.attempts < MaxAttempts
  /\ \E accepted \in BOOLEAN :
       note' = [note EXCEPT !.attempts = IF accepted THEN MaxAttempts ELSE @ + 1]
  /\ UNCHANGED <<told, kept>>

(* Both have returned.  InfluxReturned is a faulty variant that does not   *)
(* wait for the file.                                                      *)
InfluxReturned == note # NoNote /\ note.attempts = MaxAttempts
NoteReturned ==
  note # NoNote /\ note.file = "done" /\ note.attempts = MaxAttempts

NotifierNext == SaveToFile \/ AskInflux

NotifierType ==
  /\ note \in Notes
  /\ told \in Seq(RunEvents)
  /\ kept \in {"untried", "all", "part", "nothing"}
=============================================================================
