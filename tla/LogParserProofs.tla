-------------------------- MODULE LogParserProofs --------------------------
(***************************************************************************)
(* What the parser gets right, for logs of any length, calls of any depth  *)
(* and any other programs.                                                 *)
(*                                                                         *)
(* The argument follows the lines after a call, up to the next call or the *)
(* end of one: the program that writes them (WritersInv) is the one of the *)
(* call, and the parser (ReaderInv) takes them for the messenger's if and  *)
(* only if that is the messenger.                                          *)
(***************************************************************************)
EXTENDS LogParser, TLAPS, SequenceTheorems

(* The log: who wrote the lines after a call, who runs after the last one, *)
(* and what the messenger does not write.                                  *)
WritersInv ==
  /\ \A i, c \in DOMAIN log :
       Follows(i, c) /\ log[i].what # "call" => log[i].by = log[c].by
  /\ \A c \in DOMAIN log :
       Follows(Len(log) + 1, c) => stack # <<>> /\ Running = log[c].by
  /\ \A i \in DOMAIN log :
       log[i].what \in {"short", "mention"} => log[i].by # Messenger

(* Line i was read in pass q.                                              *)
WasRead(q, i) == q < pass \/ (q = pass /\ i < index)

(* The reader: where it is, and whom it takes the next line for.           *)
ReaderInv ==
  /\ index <= Len(log) + 1
  /\ phase = "written" => pass = 1 /\ index = 1
  /\ phase = "done" => pass = 3 /\ index = Len(log) + 1
  /\ phase = "panicked" => index > 1 /\ log[index - 1].what = "short"
  /\ \A c \in DOMAIN log :
       Follows(index, c) => (programId = Messenger <=> log[c].by = Messenger)

(* What it has heard: lines it has read, of the pass's kind, in order; and *)
(* of the plain ones among those it has read, exactly the messenger's.     *)
HeardLine(k, i) == \E n \in DOMAIN heard[k] : heard[k][n] = i
HeardInv ==
  \A q \in 1..3 :
    /\ \A n \in DOMAIN heard[Passes[q]] : WasRead(q, heard[Passes[q]][n])
    /\ \A i \in DOMAIN log :
         /\ log[i].what = "data" /\ log[i].event = Passes[q]
         /\ Plain(i) /\ WasRead(q, i)
         => (HeardLine(Passes[q], i) <=> log[i].by = Messenger)

IndInv ==
  /\ TypeOK /\ WritersInv /\ ReaderInv /\ HeardInv
  /\ HeardInOrder /\ OnlyInnerCallsMislead

-----------------------------------------------------------------------------
(* Types.                                                                  *)

LEMMA LineTypes ==
  /\ Programs # {} /\ EventKinds \subseteq EventKinds \cup {"none"}
  /\ \A q \in 1..3 : Passes[q] \in EventKinds
  /\ \A k \in EventKinds : \E q \in 1..3 : k = Passes[q]
  /\ \A q, r \in 1..3 : Passes[q] = Passes[r] => q = r
  /\ Len(Passes) = 3
BY SMT DEF Programs, EventKinds, Passes

(* The program that runs is a program, and the others below it too.        *)
LEMMA StackTypes ==
  ASSUME TypeOK, stack # <<>>
  PROVE  Running \in Programs /\ SubSeq(stack, 1, Len(stack) - 1) \in Seq(Programs)
<1>1. stack \in Seq(Programs) /\ Len(stack) \in Nat \ {0}
  BY EmptySeq, LenProperties DEF TypeOK
<1>2. Running \in Programs
  BY <1>1, ElementOfSeq DEF Running
<1>3. SubSeq(stack, 1, Len(stack) - 1) \in Seq(Programs)
  <2>1. \A i \in 1..(Len(stack) - 1) : stack[i] \in Programs
    BY <1>1, ElementOfSeq
  <2> QED
    BY <1>1, <2>1, SubSeqProperties, SMT
<1> QED
  BY <1>2, <1>3

(* The steps of the runtime, as the reader sees them: a line is added.     *)
LineAdded(l) ==
  /\ phase = "written" /\ l \in Lines /\ log' = Append(log, l)
  /\ UNCHANGED <<phase, pass, index, programId, heard>>

RuntimeLine(l) ==
  /\ LineAdded(l) /\ stack' \in Seq(Programs)
  /\ \/ /\ l.what = "call" /\ stack' # <<>> /\ stack'[Len(stack')] = l.by
        /\ Len(stack) < MaxDepth /\ stack' = Append(stack, l.by)
     \/ /\ l.what = "end" /\ l.by = Running
        /\ stack # <<>> /\ stack' = SubSeq(stack, 1, Len(stack) - 1)
     \/ /\ l.what \in {"data"} \cup Texts /\ stack # <<>> /\ l.by = Running
        /\ stack' = stack
        /\ l.what \in {"short", "mention"} => l.by # Messenger

RuntimeStep ==
  \/ \E p \in Programs : Call(p)
  \/ End
  \/ \E event \in EventKinds \cup {"none"} : Emit(event)
  \/ \E text \in Texts : Write(text)

LEMMA RuntimeAddsLine ==
  ASSUME TypeOK, RuntimeStep
  PROVE  \E l \in Lines : RuntimeLine(l)
<1> USE DEF RuntimeLine, LineAdded, Writes, parserVars
<1>1. ASSUME NEW p \in Programs, Call(p)
      PROVE  \E l \in Lines : RuntimeLine(l)
  <2> DEFINE l == [what |-> "call", by |-> p, event |-> "none"]
  <2>1. l \in Lines
    BY DEF Lines
  <2>2. stack' = Append(stack, p) /\ stack \in Seq(Programs)
    BY <1>1 DEF Call, TypeOK
  <2>3. stack' \in Seq(Programs) /\ stack' # <<>> /\ stack'[Len(stack')] = p
    BY <2>2, AppendProperties, LenProperties
  <2> QED
    BY <1>1, <2>1, <2>3 DEF Call
<1>2. CASE End
  <2> DEFINE l == [what |-> "end", by |-> Running, event |-> "none"]
  <2>1. l \in Lines /\ stack' \in Seq(Programs)
    BY <1>2, StackTypes DEF Lines, End
  <2> QED
    BY <1>2, <2>1 DEF End
<1>3. ASSUME NEW event \in EventKinds \cup {"none"}, Emit(event)
      PROVE  \E l \in Lines : RuntimeLine(l)
  <2> DEFINE l == [what |-> "data", by |-> Running, event |-> event]
  <2>1. l \in Lines /\ stack' = stack /\ stack' \in Seq(Programs)
    BY <1>3, StackTypes DEF Lines, Emit, TypeOK
  <2> QED
    BY <1>3, <2>1 DEF Emit
<1>4. ASSUME NEW text \in Texts, Write(text)
      PROVE  \E l \in Lines : RuntimeLine(l)
  <2> DEFINE l == [what |-> text, by |-> Running, event |-> "none"]
  <2>1. l \in Lines /\ stack' = stack /\ stack' \in Seq(Programs)
    BY <1>4, StackTypes DEF Lines, Write, TypeOK, Texts
  <2> QED
    BY <1>4, <2>1 DEF Write
<1> QED
  BY <1>1, <1>2, <1>3, <1>4 DEF RuntimeStep

(* The lines that were there stay, and what follows what stays so.         *)
LEMMA LogGrows ==
  ASSUME TypeOK, NEW l \in Lines, LineAdded(l)
  PROVE  /\ log' \in Seq(Lines) /\ Len(log) \in Nat /\ Len(log') = Len(log) + 1
         /\ DOMAIN log = 1..Len(log) /\ DOMAIN log' = 1..(Len(log) + 1)
         /\ \A i \in 1..Len(log) : log'[i] = log[i]
         /\ log'[Len(log) + 1] = l
         /\ \A i \in 1..(Len(log) + 1), c \in Nat \ {0} : Follows(i, c)' <=> Follows(i, c)
<1>1. log \in Seq(Lines) /\ log' = Append(log, l)
  BY DEF TypeOK, LineAdded
<1>2. /\ log' \in Seq(Lines) /\ Len(log) \in Nat /\ Len(log') = Len(log) + 1
      /\ DOMAIN log = 1..Len(log) /\ DOMAIN log' = 1..(Len(log) + 1)
      /\ \A i \in 1..Len(log) : log'[i] = log[i]
      /\ log'[Len(log) + 1] = l
  BY <1>1, AppendProperties, LenProperties
<1>3. ASSUME NEW i \in 1..(Len(log) + 1), NEW c \in Nat \ {0}
      PROVE  Follows(i, c)' <=> Follows(i, c)
  <2>1. c < i => log'[c] = log[c]
    BY <1>2
  <2>2. \A j \in (c + 1)..(i - 1) : log'[j] = log[j]
    BY <1>2
  <2> QED
    BY <2>1, <2>2 DEF Follows
<1> QED
  BY <1>2, <1>3

LEMMA TypeStep ==
  ASSUME TypeOK, [Next]_vars
  PROVE  TypeOK'
<1>1. CASE RuntimeStep
  <2>1. PICK l \in Lines : LineAdded(l) /\ stack' \in Seq(Programs)
    BY <1>1, RuntimeAddsLine DEF RuntimeLine
  <2> QED
    BY <2>1, LogGrows DEF LineAdded, TypeOK
<1>2. CASE Receive
  BY <1>2 DEF Receive, parserVars, TypeOK
<1>3. CASE ReadLine
  <2> DEFINE line == log[index]
             kind == Passes[pass]
  <2>1. line \in Lines /\ kind \in EventKinds /\ index \in Nat \ {0}
    BY <1>3, LineTypes, ElementOfSeq, LenProperties DEF ReadLine, TypeOK
  <2>2. programId' \in Programs \cup {NoProgram}
    BY <1>3, <2>1 DEF ReadLine, ProgramOf, TypeOK, Lines
  <2>3. heard' \in [EventKinds -> Seq(Nat \ {0})]
    <3>1. Append(heard[kind], index) \in Seq(Nat \ {0})
      BY <2>1, AppendProperties DEF TypeOK
    <3>2. heard' \in {heard, [heard EXCEPT ![kind] = Append(@, index)]}
      BY <1>3 DEF ReadLine
    <3> QED
      BY <2>1, <3>1, <3>2 DEF TypeOK
  <2> QED
    BY <1>3, <2>1, <2>2, <2>3 DEF ReadLine, TypeOK
<1>4. CASE EndPass
  BY <1>4, LineTypes DEF EndPass, MorePasses, TypeOK
<1>5. CASE UNCHANGED vars
  BY <1>5 DEF vars, parserVars, TypeOK
<1> QED
  BY <1>1, <1>2, <1>3, <1>4, <1>5 DEF Next, RuntimeStep

-----------------------------------------------------------------------------
(* The log.                                                                *)

LEMMA WritersAppend ==
  ASSUME TypeOK, WritersInv,
         RuntimeStep
  PROVE  WritersInv'
<1>1. PICK l \in Lines : RuntimeLine(l)
  BY RuntimeAddsLine
<1>n. PICK n : n = Len(log) + 1
  OBVIOUS
<1>2. /\ n \in Nat \ {0} /\ Len(log') = n /\ DOMAIN log = 1..(n - 1) /\ DOMAIN log' = 1..n
      /\ \A i \in 1..(n - 1) : log'[i] = log[i]
      /\ log'[n] = l
      /\ \A i \in 1..n, c \in Nat \ {0} : Follows(i, c)' <=> Follows(i, c)
  <2>1. /\ Len(log) \in Nat /\ Len(log') = Len(log) + 1
        /\ DOMAIN log = 1..Len(log) /\ DOMAIN log' = 1..(Len(log) + 1)
        /\ \A i \in 1..Len(log) : log'[i] = log[i]
        /\ log'[Len(log) + 1] = l
        /\ \A i \in 1..(Len(log) + 1), c \in Nat \ {0} : Follows(i, c)' <=> Follows(i, c)
    BY <1>1, LogGrows DEF RuntimeLine
  <2>2. n \in Nat \ {0} /\ n - 1 = Len(log)
    BY <1>n, <2>1
  <2> QED
    BY <1>n, <2>1, <2>2
<1>3. \A c \in 1..(n - 1) : Follows(n, c) => stack # <<>> /\ Running = log[c].by
  BY <1>n, <1>2 DEF WritersInv
<1>4. ASSUME NEW i \in 1..n, NEW c \in 1..n, Follows(i, c)', log'[i].what # "call"
      PROVE  log'[i].by = log'[c].by
  <2>1. Follows(i, c) /\ c < i /\ c \in 1..(n - 1)
    BY <1>2, <1>4 DEF Follows
  <2>2. CASE i = n
    <3>1. Running = log[c].by /\ log'[c] = log[c]
      BY <1>2, <1>3, <2>1, <2>2
    <3>2. l.by = Running
      BY <1>1, <1>2, <1>4, <2>2 DEF RuntimeLine
    <3> QED
      BY <1>2, <2>2, <3>1, <3>2
  <2>3. CASE i # n
    <3>1. i \in 1..(n - 1) /\ log'[i] = log[i] /\ log'[c] = log[c]
      BY <1>2, <2>1, <2>3
    <3> QED
      BY <1>2, <1>4, <2>1, <3>1 DEF WritersInv
  <2> QED
    BY <2>2, <2>3
<1>5. ASSUME NEW c \in 1..n, Follows(n + 1, c)'
      PROVE  stack' # <<>> /\ Running' = log'[c].by
  <2>1. CASE c = n
    <3>1. l.what = "call"
      BY <1>2, <1>5, <2>1 DEF Follows
    <3> QED
      BY <1>1, <1>2, <2>1, <3>1 DEF RuntimeLine, Running, Texts
  <2>2. CASE c # n
    <3>1. c \in 1..(n - 1) /\ n \in (c + 1)..((n + 1) - 1)
      BY <1>2, <2>2
    <3>2. l.what \in {"data"} \cup Texts
      BY <1>2, <1>5, <3>1 DEF Follows
    <3>3. Follows(n, c)'
      BY <1>2, <1>5, <3>1 DEF Follows
    <3>4. stack # <<>> /\ Running = log[c].by
      BY <1>2, <1>3, <3>1, <3>3
    <3>5. stack' = stack
      BY <1>1, <3>2 DEF RuntimeLine, Texts
    <3> QED
      BY <1>2, <3>1, <3>4, <3>5 DEF Running
  <2> QED
    BY <2>1, <2>2
<1>6. ASSUME NEW i \in 1..n, log'[i].what \in {"short", "mention"}
      PROVE  log'[i].by # Messenger
  BY <1>1, <1>2, <1>6 DEF WritersInv, RuntimeLine, Texts
<1> QED
  BY <1>2, <1>4, <1>5, <1>6 DEF WritersInv

LEMMA WritersStep ==
  ASSUME TypeOK, WritersInv, [Next]_vars
  PROVE  WritersInv'
<1>1. CASE RuntimeStep
  BY <1>1, WritersAppend
<1>2. CASE Receive \/ ReadLine \/ EndPass \/ UNCHANGED vars
  <2>1. UNCHANGED <<stack, log>>
    BY <1>2 DEF Receive, ReadLine, EndPass, vars
  <2> QED
    BY <2>1 DEF WritersInv, Follows, Running
<1> QED
  BY <1>1, <1>2 DEF Next, RuntimeStep

-----------------------------------------------------------------------------
(* The reader.                                                             *)

LEMMA ReaderStep ==
  ASSUME TypeOK, WritersInv, ReaderInv, [Next]_vars
  PROVE  ReaderInv'
<1>1. CASE RuntimeStep
  <2>1. PICK l \in Lines : LineAdded(l)
    BY <1>1, RuntimeAddsLine DEF RuntimeLine
  <2>2. Len(log) \in Nat /\ Len(log') = Len(log) + 1 /\ DOMAIN log' = 1..(Len(log) + 1)
    BY <2>1, LogGrows
  <2>3. phase' = "written" /\ index' = 1 /\ pass' = 1
    BY <2>1 DEF LineAdded, ReaderInv
  <2>4. \A c \in DOMAIN log' : ~Follows(index, c)'
    BY <2>2, <2>3 DEF Follows
  <2> QED
    BY <2>2, <2>3, <2>4 DEF ReaderInv
<1>2. CASE Receive
  BY <1>2 DEF Receive, parserVars, ReaderInv, Follows
<1>3. CASE ReadLine
  <2>1. /\ index \in Nat \ {0} /\ Len(log) \in Nat /\ index <= Len(log)
        /\ DOMAIN log = 1..Len(log) /\ phase = "read"
        /\ log' = log /\ index' = index + 1 /\ pass' = pass
        /\ programId' = ProgramOf(programId, log[index])
        /\ phase' \in {"read", "panicked"}
        /\ phase' = "panicked" => log[index].what = "short"
    BY <1>3, LenProperties DEF ReadLine, TypeOK
  <2>2. ASSUME NEW c \in DOMAIN log, Follows(index, c)'
        PROVE  programId' = Messenger <=> log[c].by = Messenger
    <3>1. c < index + 1 /\ log[c].what = "call"
          /\ \A j \in (c + 1)..index : log[j].what \in {"data"} \cup Texts
      BY <2>1, <2>2 DEF Follows
    <3>2. CASE c = index
      BY <2>1, <3>1, <3>2 DEF ProgramOf
    <3>3. CASE c # index
      <4>1. c < index /\ Follows(index, c)
        BY <2>1, <3>1, <3>3 DEF Follows
      <4>2. programId = Messenger <=> log[c].by = Messenger
        BY <2>1, <4>1 DEF ReaderInv
      <4>3. log[index].what \in {"data"} \cup Texts
        BY <2>1, <3>1, <4>1
      <4>4. CASE log[index].what = "mention"
        <5>1. log[index].by = log[c].by /\ log[index].by # Messenger
          BY <2>1, <4>1, <4>4 DEF WritersInv
        <5>2. programId' = NoProgram
          BY <2>1, <4>4 DEF ProgramOf
        <5> QED
          BY <5>1, <5>2, LogParserAssumption
      <4>5. CASE log[index].what # "mention"
        BY <2>1, <4>2, <4>3, <4>5 DEF ProgramOf, Texts
      <4> QED
        BY <4>4, <4>5
    <3> QED
      BY <3>2, <3>3
  <2> QED
    BY <2>1, <2>2 DEF ReaderInv
<1>4. CASE EndPass
  <2>1. /\ index \in Nat \ {0} /\ Len(log) \in Nat /\ index > Len(log)
        /\ DOMAIN log = 1..Len(log) /\ phase = "read" /\ log' = log /\ pass \in 1..3
    BY <1>4, LenProperties DEF EndPass, TypeOK
  <2>2. CASE MorePasses
    <3>1. index' = 1 /\ phase' = "read"
      BY <1>4, <2>1, <2>2 DEF EndPass
    <3>2. \A c \in DOMAIN log : ~Follows(index, c)'
      BY <2>1, <3>1 DEF Follows
    <3> QED
      BY <2>1, <3>1, <3>2 DEF ReaderInv
  <2>3. CASE ~MorePasses
    <3>1. phase' = "done" /\ pass' = 3 /\ index' = index /\ programId' = programId
      BY <1>4, <2>1, <2>3, LineTypes DEF EndPass, MorePasses
    <3>2. index = Len(log) + 1
      BY <2>1 DEF ReaderInv
    <3> QED
      BY <2>1, <3>1, <3>2 DEF ReaderInv, Follows
  <2> QED
    BY <2>2, <2>3
<1>5. CASE UNCHANGED vars
  BY <1>5 DEF vars, parserVars, ReaderInv, Follows
<1> QED
  BY <1>1, <1>2, <1>3, <1>4, <1>5 DEF Next, RuntimeStep

(* A plain line that does not announce a call is taken for the messenger's *)
(* if and only if the messenger wrote it.                                  *)
LEMMA PlainIsRight ==
  ASSUME TypeOK, WritersInv, ReaderInv, index <= Len(log), Plain(index),
         log[index].what \in {"data"} \cup Texts
  PROVE  ProgramOf(programId, log[index]) = Messenger
           <=> log[index].by = Messenger
<1>1. PICK c \in DOMAIN log : Follows(index, c)
  BY DEF Plain
<1>2. index \in DOMAIN log
  BY LenProperties DEF TypeOK
<1>3. /\ programId = Messenger <=> log[c].by = Messenger
      /\ log[index].by = log[c].by
  BY <1>1, <1>2 DEF ReaderInv, WritersInv, Texts
<1>4. CASE log[index].what = "mention"
  BY <1>2, <1>4, LogParserAssumption DEF WritersInv, ProgramOf
<1>5. CASE log[index].what # "mention"
  BY <1>3, <1>5 DEF ProgramOf, Texts
<1> QED
  BY <1>4, <1>5

LEMMA MisleadStep ==
  ASSUME TypeOK, WritersInv, ReaderInv, OnlyInnerCallsMislead, [Next]_vars
  PROVE  OnlyInnerCallsMislead'
<1>1. CASE RuntimeStep
  BY <1>1, RuntimeAddsLine
  DEF RuntimeLine, LineAdded, OnlyInnerCallsMislead, HandledIsOwn
<1>2. CASE Receive
  BY <1>2
  DEF Receive, parserVars, ReaderInv, OnlyInnerCallsMislead, HandledIsOwn
<1>3. CASE EndPass
  BY <1>3 DEF EndPass, OnlyInnerCallsMislead, HandledIsOwn
<1>4. CASE ReadLine
  <2> SUFFICES ASSUME Plain(index - 1)'
               PROVE  HandledIsOwn' /\ phase' # "panicked"
    BY DEF OnlyInnerCallsMislead
  <2>1. /\ phase = "read" /\ index \in Nat \ {0} /\ index <= Len(log)
        /\ index' = index + 1 /\ log' = log
        /\ programId' = ProgramOf(programId, log[index])
        /\ phase' = IF TakenForOurs(log[index]) /\ log[index].what = "short"
                    THEN "panicked" ELSE "read"
        /\ index \in DOMAIN log
    BY <1>4, LenProperties DEF ReadLine, TypeOK
  <2>2. Plain(index)
    BY <2>1 DEF Plain, Follows
  <2>3. log[index].what \in {"data"} \cup Texts
          => (programId' = Messenger <=> log[index].by = Messenger)
    BY <2>1, <2>2, PlainIsRight
  <2>4. HandledIsOwn'
    BY <2>1, <2>3 DEF HandledIsOwn
  <2>5. phase' # "panicked"
    BY <2>1, <2>3 DEF TakenForOurs, WritersInv, Texts
  <2> QED
    BY <2>4, <2>5
<1>5. CASE UNCHANGED vars
  BY <1>5
  DEF vars, parserVars, OnlyInnerCallsMislead, HandledIsOwn, Plain, Follows
<1> QED
  BY <1>1, <1>2, <1>3, <1>4, <1>5 DEF Next, RuntimeStep

-----------------------------------------------------------------------------
(* What was heard.                                                         *)

(* The steps that leave the reader's results alone.                        *)
LEMMA HeardKept ==
  ASSUME TypeOK, ReaderInv, HeardInv, HeardInOrder,
         RuntimeStep \/ Receive \/ UNCHANGED vars
  PROVE  HeardInv' /\ HeardInOrder'
<1>1. CASE RuntimeStep
  <2>1. PICK l \in Lines : LineAdded(l)
    BY <1>1, RuntimeAddsLine DEF RuntimeLine
  <2>2. /\ Len(log) \in Nat /\ DOMAIN log = 1..Len(log) /\ DOMAIN log' = 1..(Len(log) + 1)
        /\ \A i \in 1..Len(log) : log'[i] = log[i]
    BY <2>1, LogGrows
  <2>3. /\ pass' = 1 /\ index' = 1 /\ pass = 1 /\ index = 1 /\ heard' = heard
    BY <2>1 DEF LineAdded, ReaderInv
  <2>4. HeardInOrder'
    BY <2>2, <2>3 DEF HeardInOrder
  <2>5. \A q \in 1..3, i \in DOMAIN log' : ~WasRead(q, i)'
    BY <2>2, <2>3 DEF WasRead
  <2>6. \A q \in 1..3 : \A n \in DOMAIN heard'[Passes[q]] : WasRead(q, heard[Passes[q]][n])'
    BY <2>3 DEF HeardInv, WasRead
  <2> QED
    BY <2>4, <2>5, <2>6 DEF HeardInv
<1>2. CASE Receive \/ UNCHANGED vars
  <2>1. UNCHANGED <<log, pass, index, heard>>
    BY <1>2 DEF Receive, vars, parserVars
  <2> QED
    BY <2>1 DEF HeardInv, HeardInOrder, HeardLine, WasRead, Plain, Follows
<1> QED
  BY <1>1, <1>2

LEMMA HeardEndPass ==
  ASSUME TypeOK, ReaderInv, HeardInv, HeardInOrder, EndPass
  PROVE  HeardInv' /\ HeardInOrder'
<1>1. /\ heard' = heard /\ log' = log /\ Len(log) \in Nat /\ DOMAIN log = 1..Len(log)
      /\ pass \in 1..3 /\ index \in Nat \ {0} /\ index > Len(log)
      /\ \/ pass' = pass + 1 /\ index' = 1
         \/ pass' = pass /\ index' = index
  BY LenProperties DEF EndPass, TypeOK
<1>2. HeardInOrder'
  BY <1>1 DEF HeardInOrder
<1>3. \A q \in 1..3, i \in DOMAIN log : WasRead(q, i)' <=> WasRead(q, i)
  BY <1>1 DEF WasRead
<1>4. \A q \in 1..3 : \A n \in DOMAIN heard[Passes[q]] : heard[Passes[q]][n] \in DOMAIN log
  BY LineTypes DEF HeardInOrder
<1>5. \A q \in 1..3 : \A n \in DOMAIN heard'[Passes[q]] : WasRead(q, heard[Passes[q]][n])'
  BY <1>1, <1>3, <1>4 DEF HeardInv
<1>6. \A k \in EventKinds, i \in DOMAIN log : HeardLine(k, i)' <=> HeardLine(k, i)
  BY <1>1 DEF HeardLine
<1>7. \A i \in DOMAIN log : Plain(i)' <=> Plain(i)
  BY <1>1 DEF Plain, Follows
<1> QED
  BY <1>1, <1>2, <1>3, <1>5, <1>6, <1>7, LineTypes DEF HeardInv

LEMMA HeardReadLine ==
  ASSUME TypeOK, WritersInv, ReaderInv, HeardInv, HeardInOrder, ReadLine
  PROVE  HeardInv' /\ HeardInOrder'
<1>p. PICK p \in 1..3 : p = pass
  BY DEF TypeOK
<1>k. PICK kind \in EventKinds : kind = Passes[p]
  BY LineTypes
<1>1. /\ phase = "read" /\ index \in Nat \ {0} /\ index <= Len(log) /\ pass = p
      /\ Len(log) \in Nat /\ DOMAIN log = 1..Len(log) /\ index \in DOMAIN log
      /\ log' = log /\ pass' = pass /\ index' = index + 1
      /\ heard[kind] \in Seq(Nat \ {0})
  BY <1>p, LenProperties DEF ReadLine, TypeOK
<1> DEFINE ours == TakenForOurs(log[index]) /\ IsEvent(log[index], kind)
<1>2. heard' = IF ours THEN [heard EXCEPT ![kind] = Append(@, index)] ELSE heard
  BY <1>p, <1>k DEF ReadLine
<1>3. /\ heard'[kind] = IF ours THEN Append(heard[kind], index) ELSE heard[kind]
      /\ \A k \in EventKinds \ {kind} : heard'[k] = heard[k]
  BY <1>1, <1>2 DEF TypeOK
<1> DEFINE h == heard[kind]
<1>4. /\ DOMAIN h = 1..Len(h) /\ Len(h) \in Nat
      /\ \A n \in DOMAIN h : h[n] \in DOMAIN log /\ h[n] < index
      /\ DOMAIN Append(h, index) = 1..(Len(h) + 1)
      /\ \A n \in 1..Len(h) : Append(h, index)[n] = h[n]
      /\ Append(h, index)[Len(h) + 1] = index
  <2>1. \A n \in DOMAIN h : h[n] \in DOMAIN log /\ h[n] < index
    <3>1. \A n \in DOMAIN h : h[n] \in DOMAIN log
      BY DEF HeardInOrder
    <3>2. \A n \in DOMAIN h : WasRead(p, h[n])
      BY <1>k DEF HeardInv
    <3> QED
      BY <1>1, <3>1, <3>2 DEF WasRead
  <2>2. index \in Nat \ {0} /\ h \in Seq(Nat \ {0})
    BY <1>1
  <2>3. DOMAIN h = 1..Len(h) /\ Len(h) \in Nat
    BY <2>2, LenProperties
  <2>4. /\ DOMAIN Append(h, index) = 1..(Len(h) + 1)
        /\ \A n \in 1..Len(h) : Append(h, index)[n] = h[n]
        /\ Append(h, index)[Len(h) + 1] = index
    BY <2>2, <2>3, AppendProperties, LenProperties
  <2> QED
    BY <2>1, <2>3, <2>4
<1>5. HeardInOrder'
  <2>1. SUFFICES ASSUME NEW k \in EventKinds
                 PROVE  /\ \A n \in DOMAIN heard'[k] :
                             /\ heard'[k][n] \in DOMAIN log
                             /\ log[heard'[k][n]].what = "data"
                             /\ log[heard'[k][n]].event = k
                        /\ \A m, n \in DOMAIN heard'[k] : m < n => heard'[k][m] < heard'[k][n]
    BY <1>1 DEF HeardInOrder
  <2>2. CASE k = kind /\ ours
    <3>1. heard'[k] = Append(h, index)
      BY <1>3, <2>2
    <3>2. log[index].what = "data" /\ log[index].event = kind
      BY <2>2 DEF IsEvent
    <3>3. /\ \A n \in DOMAIN h : log[h[n]].what = "data" /\ log[h[n]].event = kind
          /\ \A m, n \in DOMAIN h : m < n => h[m] < h[n]
      BY <1>1 DEF HeardInOrder
    <3> HIDE DEF h, ours
    <3> QED
      BY <1>1, <1>4, <2>2, <3>1, <3>2, <3>3
  <2>3. CASE ~(k = kind /\ ours)
    BY <1>1, <1>3, <2>3 DEF HeardInOrder
  <2> QED
    BY <2>2, <2>3
<1>6. ASSUME NEW q \in 1..3, NEW n \in DOMAIN heard'[Passes[q]]
      PROVE  WasRead(q, heard[Passes[q]][n])'
  <2>1. CASE Passes[q] = kind
    <3>1. q = p
      BY <1>k, <2>1, LineTypes
    <3>2. heard'[kind][n] < index + 1
      <4>1. n \in DOMAIN heard'[kind]
        BY <1>6, <2>1
      <4>2. CASE ours
        <5>1. heard'[kind] = Append(h, index)
          BY <1>3, <4>2
        <5>2. n = Len(h) + 1 \/ n \in 1..Len(h)
          BY <1>4, <4>1, <5>1
        <5> HIDE DEF h
        <5> QED
          BY <1>1, <1>4, <5>1, <5>2
      <4>3. CASE ~ours
        BY <1>1, <1>3, <1>4, <4>1, <4>3
      <4> QED
        BY <4>2, <4>3
    <3> QED
      BY <1>1, <2>1, <3>1, <3>2 DEF WasRead
  <2>2. CASE Passes[q] # kind
    <3>1. heard'[Passes[q]] = heard[Passes[q]] /\ q # p
      BY <1>3, <1>k, <2>2, LineTypes
    <3> QED
      BY <1>1, <1>6, <3>1 DEF WasRead, HeardInv
  <2> QED
    BY <2>1, <2>2
<1>7. ASSUME NEW q \in 1..3, NEW i \in DOMAIN log,
             log[i].what = "data", log[i].event = Passes[q], Plain(i), WasRead(q, i)'
      PROVE  HeardLine(Passes[q], i)' <=> log[i].by = Messenger
  <2>1. CASE q # p
    <3>1. Passes[q] \in EventKinds \ {kind}
      BY <1>k, <2>1, LineTypes
    <3>2. WasRead(q, i)
      BY <1>1, <1>7, <2>1 DEF WasRead
    <3>3. HeardLine(Passes[q], i)' <=> HeardLine(Passes[q], i)
      BY <1>3, <3>1 DEF HeardLine
    <3> QED
      BY <1>7, <3>2, <3>3 DEF HeardInv
  <2>2. CASE q = p /\ i # index
    <3>1. WasRead(q, i)
      BY <1>1, <1>7, <2>2 DEF WasRead
    <3>2. HeardLine(kind, i)' <=> HeardLine(kind, i)
      <4>1. CASE ours
        <5>1. heard'[kind] = Append(h, index)
          BY <1>3, <4>1
        <5> HIDE DEF h, ours
        <5>2. (\E n \in DOMAIN heard'[kind] : heard'[kind][n] = i)
                <=> \E n \in DOMAIN h : h[n] = i
          BY <1>4, <2>2, <5>1
        <5> QED
          BY <5>2 DEF HeardLine, h
      <4>2. CASE ~ours
        BY <1>3, <4>2 DEF HeardLine
      <4> QED
        BY <4>1, <4>2
    <3> QED
      BY <1>k, <1>7, <2>2, <3>1, <3>2 DEF HeardInv
  <2>3. CASE q = p /\ i = index
    <3>1. HeardLine(kind, i)' <=> ours
      <4>1. CASE ours
        <5>1. heard'[kind] = Append(h, index)
          BY <1>3, <4>1
        <5> HIDE DEF h, ours
        <5>2. \E n \in DOMAIN heard'[kind] : heard'[kind][n] = i
          BY <1>4, <2>3, <5>1
        <5> QED
          BY <4>1, <5>2 DEF HeardLine
      <4>2. CASE ~ours
        <5>1. heard'[kind] = h
          BY <1>3, <4>2
        <5>2. ~\E n \in DOMAIN h : h[n] = index
          BY <1>1, <1>4
        <5> QED
          BY <2>3, <4>2, <5>1, <5>2 DEF HeardLine
      <4> QED
        BY <4>1, <4>2
    <3>2. ours <=> ProgramOf(programId, log[index]) = Messenger
      BY <1>k, <1>7, <2>3 DEF TakenForOurs, IsEvent
    <3>3. ProgramOf(programId, log[index]) = Messenger
            <=> log[index].by = Messenger
      BY <1>1, <1>7, <2>3, PlainIsRight
    <3> QED
      BY <1>k, <2>3, <3>1, <3>2, <3>3
  <2> QED
    BY <2>1, <2>2, <2>3
<1>8. \A i \in DOMAIN log : Plain(i)' <=> Plain(i)
  BY <1>1 DEF Plain, Follows
<1>9. HeardInv'
  BY <1>1, <1>6, <1>7, <1>8 DEF HeardInv
<1> QED
  BY <1>5, <1>9

-----------------------------------------------------------------------------
(* The invariant of the parser: the writers of the log, the reader's       *)
(* position and its idea of the program, and what it has heard.            *)
THEOREM ParserInductive == Spec => []IndInv
<1>1. Init => IndInv
  <2> SUFFICES ASSUME Init PROVE IndInv
    OBVIOUS
  <2>1. TypeOK
    BY EmptySeq DEF Init, TypeOK, EventKinds
  <2>2. DOMAIN log = {} /\ Len(log) = 0 /\ \A k \in EventKinds : DOMAIN heard[k] = {}
    BY DEF Init
  <2>3. WritersInv /\ ReaderInv /\ HeardInOrder /\ OnlyInnerCallsMislead
    BY <2>2 DEF Init, WritersInv, ReaderInv, HeardInOrder,
                OnlyInnerCallsMislead, HandledIsOwn
  <2>4. HeardInv
    BY <2>2, LineTypes DEF HeardInv
  <2> QED
    BY <2>1, <2>3, <2>4 DEF IndInv
<1>2. IndInv /\ [Next]_vars => IndInv'
  <2> SUFFICES ASSUME IndInv, [Next]_vars PROVE IndInv'
    OBVIOUS
  <2>1. TypeOK' /\ WritersInv' /\ ReaderInv' /\ OnlyInnerCallsMislead'
    BY TypeStep, WritersStep, ReaderStep, MisleadStep DEF IndInv
  <2>2. CASE RuntimeStep \/ Receive \/ UNCHANGED vars
    BY <2>1, <2>2, HeardKept DEF IndInv
  <2>3. CASE EndPass
    BY <2>1, <2>3, HeardEndPass DEF IndInv
  <2>4. CASE ReadLine
    BY <2>1, <2>4, HeardReadLine DEF IndInv
  <2> QED
    BY <2>2, <2>3, <2>4 DEF Next, RuntimeStep
<1> QED
  BY <1>1, <1>2, PTL DEF Spec

(* However long the log, the parser's variables have their types.          *)
THEOREM ParserTypeOK == Spec => []TypeOK
<1>1. IndInv => TypeOK
  BY DEF IndInv
<1> QED
  BY <1>1, ParserInductive, PTL

(* Up to its first inner call, a program's lines are taken for what they   *)
(* are, whatever the log: the messenger's events are heard, no other's is. *)
THEOREM ParserPlainEventsAreHeard == Spec => []PlainEventsAreHeard
<1>1. IndInv => PlainEventsAreHeard
  <2> SUFFICES ASSUME IndInv, phase = "done",
                      NEW i \in DOMAIN log,
                      log[i].what = "data", log[i].event # "none", Plain(i)
               PROVE  HeardLine(log[i].event, i) <=> log[i].by = Messenger
    BY DEF PlainEventsAreHeard, IsHeard, HeardLine
  <2>1. log[i] \in Lines /\ DOMAIN log = 1..Len(log) /\ Len(log) \in Nat
    BY ElementOfSeq, LenProperties DEF IndInv, TypeOK
  <2>2. PICK q \in 1..3 : log[i].event = Passes[q]
    BY <2>1, LineTypes DEF Lines
  <2>3. WasRead(q, i)
    BY <2>1 DEF IndInv, ReaderInv, WasRead
  <2> QED
    BY <2>2, <2>3 DEF IndInv, HeardInv
<1> QED
  BY <1>1, ParserInductive, PTL

(* The events of one kind are heard in the order of the log, each once.    *)
THEOREM ParserHeardInOrder == Spec => []HeardInOrder
<1>1. IndInv => HeardInOrder
  BY DEF IndInv
<1> QED
  BY <1>1, ParserInductive, PTL

(* Only after an inner call is a line handled as the messenger's that is   *)
(* not, and can a text stop the listener.                                  *)
THEOREM ParserOnlyInnerCallsMislead == Spec => []OnlyInnerCallsMislead
<1>1. IndInv => OnlyInnerCallsMislead
  BY DEF IndInv
<1> QED
  BY <1>1, ParserInductive, PTL

-----------------------------------------------------------------------------
(* Logs without inner calls: every line that is not a call or the end of   *)
(* one is plain.                                                           *)
FlatInv ==
  /\ Len(stack) <= 1
  /\ stack # <<>> => Plain(Len(log) + 1)
  /\ \A i \in DOMAIN log : log[i].what \in {"data"} \cup Texts => Plain(i)

LEMMA FlatAppend ==
  ASSUME MaxDepth <= 1, TypeOK, FlatInv, RuntimeStep
  PROVE  FlatInv'
<1>1. PICK l \in Lines : RuntimeLine(l)
  BY RuntimeAddsLine
<1>a. PICK n : n = Len(log) + 1
  OBVIOUS
<1>2. /\ n \in Nat \ {0} /\ Len(log') = n /\ Len(log) = n - 1
      /\ DOMAIN log = 1..(n - 1) /\ DOMAIN log' = 1..n
      /\ \A i \in 1..(n - 1) : log'[i] = log[i]
      /\ log'[n] = l
      /\ \A i \in 1..n, c \in Nat \ {0} : Follows(i, c)' <=> Follows(i, c)
  BY <1>1, <1>a, LogGrows DEF RuntimeLine
<1>3. stack \in Seq(Programs) /\ Len(stack) \in Nat
  BY LenProperties DEF TypeOK
<1>4. \A i \in 1..n : Plain(i) => Plain(i)'
  <2> SUFFICES ASSUME NEW i \in 1..n, Plain(i)
               PROVE  Plain(i)'
    OBVIOUS
  <2>1. PICK c \in DOMAIN log : Follows(i, c)
    BY DEF Plain
  <2>2. c \in Nat \ {0} /\ c \in DOMAIN log'
    BY <1>2
  <2> QED
    BY <1>2, <2>1, <2>2 DEF Plain
<1>5. CASE l.what = "call"
  <2>1. Len(stack) = 0 /\ Len(stack') = Len(stack) + 1
    BY <1>1, <1>3, <1>5, AppendProperties, LogParserAssumption
    DEF RuntimeLine, Texts, Lines
  <2>2. Follows(n + 1, n)'
    BY <1>2, <1>5 DEF Follows
  <2>3. Plain(n + 1)'
    BY <1>2, <2>2 DEF Plain
  <2>4. \A i \in DOMAIN log' : log'[i].what \in {"data"} \cup Texts => Plain(i)'
    BY <1>2, <1>4, <1>5 DEF FlatInv, Texts
  <2> QED
    BY <1>2, <2>1, <2>3, <2>4 DEF FlatInv
<1>6. CASE l.what = "end"
  <2>1. stack # <<>> /\ stack' = SubSeq(stack, 1, Len(stack) - 1)
    BY <1>1, <1>6 DEF RuntimeLine, Texts
  <2>2. Len(stack) = 1
    <3>1. Len(stack) # 0
      BY <1>3, <2>1, EmptySeq, Zenon
    <3>2. Len(stack) <= 1
      BY DEF FlatInv
    <3> QED
      BY <1>3, <3>1, <3>2
  <2>3. stack' = <<>>
    BY <2>1, <2>2, SubSeqEmpty
  <2>4. \A i \in DOMAIN log' : log'[i].what \in {"data"} \cup Texts => Plain(i)'
    BY <1>2, <1>4, <1>6 DEF FlatInv, Texts
  <2> QED
    BY <2>3, <2>4 DEF FlatInv
<1>7. CASE l.what \in {"data"} \cup Texts
  <2>1. stack # <<>> /\ stack' = stack
    BY <1>1, <1>7 DEF RuntimeLine, Texts
  <2>2. PICK c \in DOMAIN log : Follows(n, c)
    BY <1>a, <2>1, Zenon DEF FlatInv, Plain
  <2>3. c \in Nat \ {0} /\ c \in DOMAIN log'
    BY <1>2
  <2>4. Follows(n + 1, c)'
    <3>1. Follows(n, c)'
      BY <1>2, <2>2, <2>3
    <3>2. /\ c < n /\ log'[c].what = "call"
          /\ \A j \in (c + 1)..(n - 1) : log'[j].what \in {"data"} \cup Texts
      BY <3>1 DEF Follows
    <3>3. \A j \in (c + 1)..((n + 1) - 1) : j \in (c + 1)..(n - 1) \/ j = n
      BY <1>2, <2>3
    <3>4. c < n + 1
      BY <1>2, <2>3, <3>2
    <3> QED
      BY <1>2, <1>7, <3>2, <3>3, <3>4 DEF Follows
  <2>5. Plain(n)' /\ Plain(n + 1)'
    BY <1>2, <2>2, <2>3, <2>4 DEF Plain
  <2>6. \A i \in DOMAIN log' : log'[i].what \in {"data"} \cup Texts => Plain(i)'
    BY <1>2, <1>4, <2>5 DEF FlatInv
  <2> QED
    BY <1>2, <2>1, <2>5, <2>6 DEF FlatInv
<1> QED
  BY <1>1, <1>5, <1>6, <1>7 DEF RuntimeLine

(* Of programs that do not call each other, every event of the messenger's *)
(* is heard, nothing else is, and nothing stops the listener, whatever the *)
(* others write: the disagreement of the run log_foreign takes an inner    *)
(* call.                                                                   *)
THEOREM ParserFlatLogsAreRight ==
  ASSUME MaxDepth <= 1
  PROVE  Spec => []FlatLogsAreRight
<1>1. Init => FlatInv
  BY DEF Init, FlatInv
<1>2. TypeOK /\ FlatInv /\ [Next]_vars => FlatInv'
  <2> SUFFICES ASSUME TypeOK, FlatInv, [Next]_vars
               PROVE  FlatInv'
    OBVIOUS
  <2>1. CASE RuntimeStep
    BY <2>1, FlatAppend
  <2>2. CASE Receive \/ ReadLine \/ EndPass \/ UNCHANGED vars
    <3>1. UNCHANGED <<stack, log>>
      BY <2>2 DEF Receive, ReadLine, EndPass, vars
    <3> QED
      BY <3>1 DEF FlatInv, Plain, Follows
  <2> QED
    BY <2>1, <2>2 DEF Next, RuntimeStep
<1>3. IndInv /\ PlainEventsAreHeard /\ FlatInv => FlatLogsAreRight
  <2> SUFFICES ASSUME IndInv, PlainEventsAreHeard, FlatInv
               PROVE  FlatLogsAreRight
    OBVIOUS
  <2>1. /\ DOMAIN log = 1..Len(log) /\ Len(log) \in Nat
        /\ index \in Nat \ {0} /\ index <= Len(log) + 1
    BY LenProperties DEF IndInv, TypeOK, ReaderInv
  <2>2. HandledIsOwn
    <3>1. index > 1 => index - 1 \in DOMAIN log
      BY <2>1
    <3> QED
      BY <3>1 DEF HandledIsOwn, FlatInv, IndInv, OnlyInnerCallsMislead
  <2>3. phase # "panicked"
    <3>1. phase = "panicked" => /\ index - 1 \in DOMAIN log
                               /\ log[index - 1].what \in Texts
      BY <2>1 DEF IndInv, ReaderInv, Texts
    <3> QED
      BY <3>1 DEF IndInv, FlatInv, OnlyInnerCallsMislead
  <2> QED
    BY <2>2, <2>3 DEF FlatLogsAreRight, FlatInv, PlainEventsAreHeard
<1> QED
  BY <1>1, <1>2, <1>3, ParserTypeOK, ParserInductive,
     ParserPlainEventsAreHeard, PTL DEF Spec
=============================================================================
