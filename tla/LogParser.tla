----------------------------- MODULE LogParser -----------------------------
(***************************************************************************)
(* How the listener finds the messenger's events in the log of a           *)
(* transaction (src/src/listener.rs).  A log is a list of lines; a line    *)
(* does not say which program wrote it.  The parser follows the lines that *)
(* announce a call, "Program X invoke [n]", and takes what comes after one *)
(* for X's, until the next.                                                *)
(*                                                                         *)
(* The runtime writes the log: programs call one another, return and write *)
(* lines of their own.  The field by of a line is who wrote it, which the  *)
(* parser cannot see; the properties compare it with what it assumes.      *)
(***************************************************************************)
EXTENDS Naturals, Sequences

CONSTANTS
  Messenger,        \* the program the agent listens to
  Others,           \* other programs
  MaxDepth,         \* how deep calls may be nested
  MaxLines          \* lines of a log, after which the runtime cuts it

(* What the parser takes for a program that is none of them: nothing yet,  *)
(* or a piece of a text that looks like a call.                            *)
NoProgram == "no program"

ASSUME LogParserAssumption ==
  /\ MaxDepth \in Nat /\ MaxLines \in Nat
  /\ Messenger \notin Others \cup {NoProgram}

VARIABLES
  stack,            \* the programs that run, the one called last at the end
  log,              \* the lines so far
  phase,            \* the log is "written", then "read"; "done"; "panicked"
  pass,             \* which of the three on::<Event> calls reads the log
  index,            \* Execution.index, from 1
  programId,        \* Execution.program_id
  heard             \* of each kind, the lines that were sent on as events

parserVars == <<pass, index, programId, heard>>
vars == <<stack, log, phase, parserVars>>

Programs == {Messenger} \cup Others

(* The events, in the order in which the listener asks for them.           *)
Passes == <<"new", "delete", "update">>
EventKinds == {"new", "delete", "update"}

(* A line: a call, the end of one, data, or a text.  A "mention" is a text *)
(* that has the word invoke in it; a "short" one happens to be base64 of   *)
(* less than eight bytes.                                                  *)
Texts == {"text", "mention", "short"}
Lines == [what : {"call", "end", "data"} \cup Texts, by : Programs,
          event : EventKinds \cup {"none"}]

Init ==
  /\ stack = <<>> /\ log = <<>> /\ phase = "written"
  /\ pass = 1 /\ index = 1 /\ programId = NoProgram
  /\ heard = [k \in EventKinds |-> <<>>]

-----------------------------------------------------------------------------
(* The runtime.                                                            *)

Running == stack[Len(stack)]

Writes(what, program, event) ==
  /\ phase = "written" /\ Len(log) < MaxLines
  /\ log' = Append(log, [what |-> what, by |-> program, event |-> event])
  /\ UNCHANGED <<phase, parserVars>>

(* A program is called, by the transaction or by the running program.      *)
Call(p) ==
  /\ Len(stack) < MaxDepth
  /\ stack' = Append(stack, p)
  /\ Writes("call", p, "none")

(* The running program ends.                                               *)
End ==
  /\ stack # <<>>
  /\ stack' = SubSeq(stack, 1, Len(stack) - 1)
  /\ Writes("end", Running, "none")

(* The running program emits an event, or other data if it is not the      *)
(* messenger.                                                              *)
Emit(event) ==
  /\ stack # <<>>
  /\ event = "none" => Running # Messenger
  /\ Writes("data", Running, event)
  /\ UNCHANGED stack

(* The running program writes a text.  The messenger's, "Instruction: ..." *)
(* and the like, are neither base64 nor do they mention invoke.            *)
Write(text) ==
  /\ stack # <<>>
  /\ text # "text" => Running # Messenger
  /\ Writes(text, Running, "none")
  /\ UNCHANGED stack

-----------------------------------------------------------------------------
(* The listener: on::<NewMessageEvent>, on::<DeleteMessageEvent> and       *)
(* on::<UpdateMessageEvent> each read the whole log.                       *)

(* The log arrives: whole, cut, or of a transaction that failed.           *)
Receive ==
  /\ phase = "written" /\ log # <<>>
  /\ phase' = "read"
  /\ UNCHANGED <<stack, log, parserVars>>

(* The program of a line, for Execution::next: PROGRAM_INVOKE_RE takes     *)
(* what is between "Program " and " invoke".  FirstProgram is a faulty     *)
(* variant that stays with the first one.                                  *)
FirstProgram(id, line) ==
  IF line.what = "call" /\ id = NoProgram THEN line.by ELSE id
ProgramOf(id, line) ==
  CASE line.what = "call"    -> line.by
    [] line.what = "mention" -> NoProgram
    [] OTHER                 -> id

(* The line is the messenger's, as parse_logs sees it.  AnyProgram is a    *)
(* faulty variant that does not compare.                                   *)
AnyProgram(line) == TRUE
TakenForOurs(line) == ProgramOf(programId, line) = Messenger

(* handle_program_log: the line is data with the discriminator of the      *)
(* event.  AnyData is a faulty variant without the discriminator.          *)
AnyData(line, kind) == line.what = "data"
IsEvent(line, kind) == line.what = "data" /\ line.event = kind

(* The next line; borsh_bytes[..8] panics on a short one.                  *)
ReadLine ==
  /\ phase = "read" /\ index <= Len(log)
  /\ LET line == log[index]
         kind == Passes[pass]
     IN  /\ programId' = ProgramOf(programId, line)
         /\ phase' = IF TakenForOurs(line) /\ line.what = "short"
                     THEN "panicked" ELSE phase
         /\ heard' = IF TakenForOurs(line) /\ IsEvent(line, kind)
                     THEN [heard EXCEPT ![kind] = Append(@, index)] ELSE heard
  /\ index' = index + 1
  /\ UNCHANGED <<stack, log, pass>>

(* The end of a pass; the next one has an Execution of its own.  OnePass-  *)
(* More is a faulty variant that counts the passes from zero.              *)
OnePassMore == pass <= Len(Passes)
MorePasses == pass < Len(Passes)
EndPass ==
  /\ phase = "read" /\ index > Len(log)
  /\ IF MorePasses
     THEN pass' = pass + 1 /\ index' = 1 /\ programId' = NoProgram /\ UNCHANGED phase
     ELSE phase' = "done" /\ UNCHANGED <<pass, index, programId>>
  /\ UNCHANGED <<stack, log, heard>>

Next ==
  \/ \E p \in Programs : Call(p)
  \/ End
  \/ \E event \in EventKinds \cup {"none"} : Emit(event)
  \/ \E text \in Texts : Write(text)
  \/ Receive
  \/ ReadLine
  \/ EndPass

Spec == Init /\ [][Next]_vars

-----------------------------------------------------------------------------
(* The variables have their types.                                         *)
TypeOK ==
  /\ stack \in Seq(Programs) /\ log \in Seq(Lines)
  /\ phase \in {"written", "read", "done", "panicked"}
  /\ pass \in 1..3 /\ index \in Nat \ {0}
  /\ programId \in Programs \cup {NoProgram}
  /\ heard \in [EventKinds -> Seq(Nat \ {0})]

(* Line i comes after the call on line c, and no other call and no end of  *)
(* one is between them.                                                    *)
Follows(i, c) ==
  /\ c < i /\ log[c].what = "call"
  /\ \A j \in (c + 1)..(i - 1) : log[j].what \in {"data"} \cup Texts

(* Line i is written by a program that has not called another one before.  *)
Plain(i) == \E c \in DOMAIN log : Follows(i, c)

(* Up to its first inner call, a program's lines are taken for what they   *)
(* are: the messenger's events are all heard, and no other program's is.   *)
IsHeard(i) == \E n \in DOMAIN heard[log[i].event] : heard[log[i].event][n] = i
PlainEventsAreHeard ==
  phase = "done" =>
    \A i \in DOMAIN log : log[i].what = "data" /\ log[i].event # "none" /\ Plain(i)
      => (IsHeard(i) <=> log[i].by = Messenger)

(* The three passes do not mix: events of each kind are heard in the order *)
(* of the log, each once, and in the pass that asks for them.              *)
HeardInOrder ==
  \A k \in EventKinds :
    /\ \A n \in DOMAIN heard[k] :
         /\ heard[k][n] \in DOMAIN log
         /\ log[heard[k][n]].what = "data" /\ log[heard[k][n]].event = k
    /\ \A m, n \in DOMAIN heard[k] : m < n => heard[k][m] < heard[k][n]

(* "Log emitted from the current program": a line that is handled as the   *)
(* messenger's was written by the messenger.                               *)
HandledIsOwn ==
  phase \in {"read", "panicked"} /\ index > 1 /\ programId = Messenger
    /\ log[index - 1].what \in {"data"} \cup Texts
    => log[index - 1].by = Messenger

(* What goes wrong, an other program's line handled as the messenger's or  *)
(* a text that is base64 by chance and stops the listener, goes wrong only *)
(* where an inner call of the line's program has ended before: no text of  *)
(* another program, one that looks like a call included, is enough.        *)
OnlyInnerCallsMislead == Plain(index - 1) => HandledIsOwn /\ phase # "panicked"

(* So it never happens in the log of programs that do not call each other, *)
(* and of those every event is heard.                                      *)
FlatLogsAreRight ==
  /\ phase # "panicked" /\ HandledIsOwn
  /\ phase = "done" =>
       \A i \in DOMAIN log : log[i].what = "data" /\ log[i].event # "none"
         => (IsHeard(i) <=> log[i].by = Messenger)
=============================================================================
