------------------------- MODULE CommandLineProofs -------------------------
(***************************************************************************)
(* Proofs about CommandLine, for any number of invocations and of other    *)
(* programs, whatever they type and send: the application runs what was    *)
(* asked of it, and what an invocation reports is so.  The inductive       *)
(* invariant says where each connection is, what it carries, and what is   *)
(* known once something was reported of it.                                *)
(***************************************************************************)
EXTENDS CommandLine, ProtocolProofs

Requests == [words : Seq(Words), newline : Nat, size : Nat]

Typing ==
  /\ line \in Seq(Clients) /\ current \in Clients \cup {None}
  /\ seen \in [Clients -> Seen] /\ executed \subseteq Clients
  /\ argv \in [Clients -> Typed \cup {None}] /\ earlier \in [Clients -> SUBSET Clients]
  /\ sent \in [Clients -> Requests \cup {None}]
  /\ phase \in Phases /\ got \in Nat
  /\ refused \in [Clients -> {"no", "size", "time", "words"}]
  /\ ran \in Seq([who : Clients, command : Commands])
  /\ DOMAIN reply = Clients /\ DOMAIN exit = Clients

\* A connection is not made, waits in one place, or has had its turn.
Placed ==
  /\ \A c \in Clients : seen[c] = "away" =>
       /\ c # current /\ c \notin executed /\ refused[c] = "no"
       /\ \A i \in DOMAIN line : line[i] # c
  /\ \A i \in DOMAIN line :
       /\ line[i] # current /\ line[i] \notin executed /\ refused[line[i]] = "no"
       /\ \A j \in DOMAIN line : line[j] = line[i] => j = i

\* What has become of the connection being served, and of those that were.
Turn ==
  /\ phase # "close" => current # None
  /\ phase \in {"reading", "received", "dispatching"} =>
       current \notin executed /\ refused[current] = "no"
  /\ phase = "responding" => current \in executed
  /\ \A c \in Clients :
       /\ c \in executed => refused[c] = "no"
       /\ seen[c] = "answered" => c \in executed
       /\ seen[c] = "rejected" => refused[c] # "no"

\* What an invocation sends, once it does.
Request(typed) ==
  [words |-> Serialize(ToCommand(typed)), newline |-> LineSize, size |-> LineSize]

\* What a connection carries, and what the server has found in it.
Carried ==
  /\ \A c \in Clients :
       /\ seen[c] = "away" => sent[c] = None
       /\ argv[c] # None /\ seen[c] # "away" => ToCommand(argv[c]) # NoCommand
       /\ argv[c] # None /\ sent[c] # None => sent[c] = Request(argv[c])
       /\ refused[c] \in {"size", "words"} => sent[c] # None
       /\ refused[c] = "size" => sent[c].newline \notin 1 .. MaxFrame
       /\ refused[c] = "words" => Parse(sent[c].words) = NoCommand
       /\ c \in executed => Covers(reply[c].time, reply[c].left)
  /\ phase \in {"received", "dispatching"} =>
       sent[current] # None /\ sent[current].newline \in 1 .. MaxFrame
  /\ phase = "dispatching" => Parse(sent[current].words) # NoCommand

\* What is known of an invocation that has reported.
Reported ==
  \A c \in Clients : exit[c] # None =>
    /\ argv[c] # None
    /\ exit[c].success => exit[c].what = "done"
    /\ exit[c].what \in {"invalid", "absent"} => seen[c] = "away"
    /\ exit[c].what = "done" => seen[c] = "answered" /\ reply[c].ok
    /\ exit[c].what = "error" =>
         seen[c] = "rejected" \/ (seen[c] = "answered" /\ ~reply[c].ok)

\* What the queue holds of an invocation that ended before another began is ahead.
Ordered ==
  \A d \in Clients :
    /\ argv[d] = None => earlier[d] = {}
    /\ \A c \in earlier[d] :
         /\ c # d /\ exit[c] # None
         /\ \A i, j \in DOMAIN line : line[i] = c /\ line[j] = d => i < j
         /\ d = current \/ d \in executed => \A i \in DOMAIN line : line[i] # c
         /\ d \in executed => c # current

\* What was run is what was asked, in order, each for a client that has had its run.
Asked == RunsAsAsked /\ \A i \in DOMAIN ran : ran[i].who \in executed

Service == Typing /\ Placed /\ Turn
IInv == Service /\ Carried /\ Reported /\ Ordered /\ Asked

-----------------------------------------------------------------------------
(* Commands and lines *)

\* What does not parse is no command.
LEMMA NoCommandIsNone == NoCommand \notin Commands
BY DEF NoCommand, Query, Commands, Queries

\* What a duration's word gives is a session's length, or none.
LEMMA SpecTyping ==
  ASSUME NEW word \in Words
  PROVE  /\ ParseSpec(word) \in Durations \cup {NoDuration}
         /\ ParseSpec(word) # NoDuration =>
              LET unit == IF word.text = "bare" THEN "m" ELSE word.text
              IN  ParseSpec(word) = word.value * Multiplier[unit]
<1>1. word.value \in Nat /\ "m" \in Units
  BY DEF Words, Units, Multiplier
<1>2. CASE word.text = "bare"
  BY <1>1, <1>2, DurationsExact DEF ParseSpec
<1>3. CASE word.text # "bare" /\ word.text \in Units
  BY <1>1, <1>3, DurationsExact DEF ParseSpec
<1>4. CASE word.text # "bare" /\ word.text \notin Units
  BY <1>4 DEF ParseSpec
<1>5. QED
  BY <1>2, <1>3, <1>4

\* A command line that is not refused says what its command does.
LEMMA Understood ==
  ASSUME NEW typed \in Typed, ToCommand(typed) # NoCommand
  PROVE  ToCommand(typed) \in Commands /\ Says(typed, ToCommand(typed))
<1>1. typed \in Lines
  BY TextAssumption
<1>2. typed.spec # Omitted => typed.verb = "START" /\ typed.spec \in Words
  BY <1>1 DEF Lines
<1>3. CASE typed.spec = Omitted
  <2>1. ToCommand(typed) =
          [verb |-> typed.verb, duration |-> Indefinite, display |-> typed.display]
    BY <1>3, IndefiniteAssumption DEF ToCommand, NoDuration
  <2>2. typed.verb \in {"START"} \cup Queries /\ typed.display \in BOOLEAN
          /\ (typed.verb \in Queries => typed.display = FALSE)
    BY <1>1 DEF Lines, Queries
  <2>3. ToCommand(typed) \in Commands
    <3>1. \A display \in BOOLEAN :
            [verb |-> "START", duration |-> Indefinite, display |-> display] \in Commands
      BY DEF Commands
    <3>2. \A verb \in Queries :
            [verb |-> verb, duration |-> Indefinite, display |-> FALSE] \in Commands
      BY DEF Commands
    <3>3. QED
      BY <2>1, <2>2, <3>1, <3>2, Zenon
  <2>4. Says(typed, ToCommand(typed))
    BY <1>3, <2>1 DEF Says
  <2>5. QED
    BY <2>3, <2>4
<1>4. CASE typed.spec # Omitted
  <2>1. ParseSpec(typed.spec) # NoDuration
    BY <1>4 DEF ToCommand
  <2>2. ToCommand(typed) =
          [verb |-> "START", duration |-> ParseSpec(typed.spec), display |-> typed.display]
    BY <1>2, <1>4, <2>1 DEF ToCommand
  <2>3. typed.display \in BOOLEAN
    BY <1>1 DEF Lines
  <2>4. ParseSpec(typed.spec) \in Durations
    BY <1>2, <1>4, <2>1, SpecTyping
  <2>5. ToCommand(typed) \in Commands
    <3> DEFINE d == ParseSpec(typed.spec)
    <3> HIDE DEF d
    <3>1. d \in Durations
      BY <2>4 DEF d
    <3>2. [verb |-> "START", duration |-> d, display |-> typed.display] \in Commands
      BY <2>3, <3>1 DEF Commands
    <3>3. QED
      BY <2>2, <3>2 DEF d
  <2>6. Says(typed, ToCommand(typed))
    BY <1>2, <1>4, <2>1, <2>2, <2>4, SpecTyping DEF Says
  <2>7. QED
    BY <2>5, <2>6
<1>5. QED
  BY <1>3, <1>4

\* Whatever words another program sends, they parse to a command that may be executed,
\* with a duration of 365 days at most, or not at all (ipc.rs, IpcCommand::parse).
THEOREM ParseTyping ==
  ASSUME NEW words \in Seq(Words)
  PROVE  Parse(words) \in Commands \cup {NoCommand}
<1>1. ParseStart(words) \in Commands \cup {NoCommand} \/ words = <<>>
  <2> SUFFICES ASSUME words # <<>> PROVE ParseStart(words) \in Commands \cup {NoCommand}
    OBVIOUS
  <2> DEFINE omitted == Len(words) = 1 \/ words[2].text = "display"
             duration == IF omitted \/ words[2].text = "indefinite" THEN Indefinite
                         ELSE ParseSpec(words[2])
             last == IF omitted THEN 2 ELSE 3
             display == Len(words) = last /\ words[last].text = "display"
  <2>1. duration \in Durations \cup {Indefinite, NoDuration}
    <3>1. omitted \/ words[2] \in Words
      <4>1. Len(words) \in Nat /\ Len(words) # 0
        OBVIOUS
      <4>2. \A n \in Nat : n = 0 \/ n = 1 \/ 2 \in 1 .. n
        OBVIOUS
      <4>3. Len(words) = 1 \/ 2 \in 1 .. Len(words)
        BY <4>1, <4>2
      <4>4. QED
        BY <4>3
    <3>2. QED
      BY <3>1, SpecTyping
  <2>2. display \in BOOLEAN
    OBVIOUS
  <2> HIDE DEF display, duration
  <2>3. duration = NoDuration
          \/ [verb |-> "START", duration |-> duration, display |-> display] \in Commands
    BY <2>1, <2>2 DEF Commands
  <2>4. ParseStart(words) \in
          {NoCommand, [verb |-> "START", duration |-> duration, display |-> display]}
    BY DEF ParseStart, display, duration
  <2>5. duration = NoDuration => ParseStart(words) = NoCommand
    BY DEF ParseStart, duration
  <2>6. QED
    BY <2>3, <2>4, <2>5
<1>2. \A verb \in Queries : Query(verb) \in Commands
  BY DEF Query, Commands
<1>3. QED
  BY <1>1, <1>2 DEF Parse

\* What the client writes are words.
LEMMA SerializeTyping ==
  ASSUME NEW command \in Commands
  PROVE  Serialize(command) \in Seq(Words)
<1>1. \A text \in Texts : Key(text) \in Words
  BY DEF Key, Words
<1>2. command.duration \in Durations \cup {Indefinite}
  BY DEF Commands
<1>3. command.duration = Indefinite \/ command.duration \in Nat
  BY <1>2, MaxFiniteIsNat DEF Durations
<1>4. command.verb \in {"START"} \cup Queries
  BY DEF Commands
<1>5. {"START", "indefinite", "display", "s", command.verb} \subseteq Texts
  BY <1>4 DEF Texts, Units, Multiplier
<1>6. CASE command.verb # "START"
  BY <1>1, <1>5, <1>6 DEF Serialize
<1>7. CASE command.verb = "START"
  <2> DEFINE word == IF command.duration = Indefinite THEN Key("indefinite")
                     ELSE [text |-> "s", value |-> command.duration]
  <2>1. word \in Words
    BY <1>1, <1>3, <1>5 DEF Words
  <2> HIDE DEF word
  <2>2. <<Key("START"), word>> \in Seq(Words) /\ <<Key("display")>> \in Seq(Words)
    BY <1>1, <1>5, <2>1
  <2>3. Serialize(command) =
          <<Key("START"), word>> \o IF command.display THEN <<Key("display")>> ELSE <<>>
    BY <1>7 DEF Serialize, word
  <2>4. QED
    BY <2>2, <2>3
<1>8. QED
  BY <1>6, <1>7

\* Every reply has a time that covers what is left.
LEMMA RepliesCover ==
  ASSUME NEW command, NEW r \in Replies(command)
  PROVE  Covers(r.time, r.left)
<1>1. r \in {Plain} \cup Errors \/ r \in Times
  BY DEF Replies
<1>2. CASE r \in {Plain} \cup Errors
  <2>1. r.time = NoTime /\ r.left = 0
    <3>1. Plain.time = NoTime /\ Plain.left = 0
      BY DEF Plain
    <3>2. r \in Errors => r.time = NoTime /\ r.left = 0
      BY DEF Errors
    <3>3. QED
      BY <1>2, <3>1, <3>2
  <2>2. QED
    BY <2>1 DEF NoTime, Covers, TimeOf
<1>3. CASE r \in Times
  <2>1. PICK s \in Samples, f \in BOOLEAN :
          r = [Plain EXCEPT !.left = IF f THEN s + 1 ELSE s, !.time = Compact(s, f)]
    <3> DEFINE Time(s, f) ==
          [Plain EXCEPT !.left = IF f THEN s + 1 ELSE s, !.time = Compact(s, f)]
    <3>1. Times = {Time(s, f) : s \in Samples, f \in BOOLEAN}
      BY DEF Times
    <3> HIDE DEF Time
    <3>2. \E s \in Samples, f \in BOOLEAN : r = Time(s, f)
      BY <1>3, <3>1
    <3>3. QED
      BY <3>2 DEF Time
  <2>2. r.left = (IF f THEN s + 1 ELSE s) /\ r.time = Compact(s, f)
    BY <2>1 DEF Plain
  <2>3. Covers(Compact(s, f), IF f THEN s + 1 ELSE s)
    BY FrameAssumption, CompactCovers
  <2>4. QED
    BY <2>2, <2>3
<1>4. QED
  BY <1>1, <1>2, <1>3

-----------------------------------------------------------------------------
(* The queue *)

\* Showing clients what became of them changes only those that wait.
LEMMA Shows ==
  ASSUME Typing, NEW S, NEW what \in Seen, Show(S, what)
  PROVE  /\ seen' \in [Clients -> Seen]
         /\ \A c \in Clients : seen'[c] # seen[c] =>
              c \in S /\ seen[c] = "waiting" /\ seen'[c] = what
BY DEF Show, Typing

\* A connection that is made comes last in the queue.
LEMMA Joins ==
  ASSUME Typing, NEW c \in Clients, Join(c)
  PROVE  /\ line' \in Seq(Clients) /\ DOMAIN line' = DOMAIN line \cup {Len(line) + 1}
         /\ line'[Len(line) + 1] = c
         /\ \A i \in DOMAIN line : line'[i] = line[i] /\ i < Len(line) + 1
BY DEF Join, Typing

\* The oldest connection is taken, and the others move up.
LEMMA Takes ==
  ASSUME Typing, Take
  PROVE  /\ current' \in Clients /\ 1 \in DOMAIN line /\ current' = line[1]
         /\ line' \in Seq(Clients)
         /\ \A i \in DOMAIN line' : i + 1 \in DOMAIN line /\ line'[i] = line[i + 1]
BY DEF Take, Typing

\* IInv holds at the start.
LEMMA InitInv == Init => IInv
<1> SUFFICES ASSUME Init PROVE IInv
  OBVIOUS
<1> USE DEF Init, QueueInit
<1>1. Typing
  BY DEF Typing, Seen, Phases
<1>2. Placed /\ Turn
  BY NoneAssumption DEF Placed, Turn
<1>3. Carried /\ Reported /\ Ordered
  BY NoneAssumption DEF Carried, Reported, Ordered
<1>4. Asked
  BY DEF Asked, RunsAsAsked
<1>5. QED
  BY <1>1, <1>2, <1>3, <1>4 DEF IInv, Service

\* Every step keeps types, places and turns.
LEMMA ServiceStep == IInv /\ [Next]_lineVars => Service'
<1> SUFFICES ASSUME IInv, [Next]_lineVars PROVE Service'
  OBVIOUS
<1> USE NoneAssumption DEF IInv, Service, Typing, Placed, Turn, Seen, Phases,
      server, client, outcome, queueVars
<1>1. CASE Accepts
  BY <1>1, Takes DEF Accepts, Take
<1>2. CASE ReadChunk
  <2>1. got' \in Nat
    BY <1>2, FrameAssumption DEF ReadChunk
  <2>2. /\ phase = "reading" /\ UNCHANGED <<client, ran, reply>>
        /\ \/ phase' \in {"reading", "received"} /\ UNCHANGED <<queueVars, refused>>
           \/ Refuses("size")
    BY <1>2 DEF ReadChunk
  <2>3. CASE Refuses("size")
    BY <2>1, <2>2, <2>3, Shows DEF Refuses, Refuse
  <2>4. CASE phase' \in {"reading", "received"} /\ UNCHANGED <<queueVars, refused>>
    BY <2>1, <2>2, <2>4
  <2>5. QED
    BY <2>2, <2>3, <2>4
<1>3. CASE ReadExpires
  BY <1>3, Shows DEF ReadExpires, Refuses, Refuse
<1>4. CASE ParseFrame
  <2>1. /\ phase = "received" /\ UNCHANGED <<client, got, ran, reply>>
        /\ \/ phase' \in {"close", "dispatching"} /\ UNCHANGED <<queueVars, refused>>
           \/ Refuses("words")
    BY <1>4 DEF ParseFrame
  <2>2. CASE phase' \in {"close", "dispatching"} /\ UNCHANGED <<queueVars, refused>>
    BY <2>1, <2>2
  <2>3. CASE Refuses("words")
    BY <2>1, <2>3, Shows DEF Refuses, Refuse
  <2>4. QED
    BY <2>1, <2>2, <2>3
<1>5. CASE Executes
  <2>1. sent[current] \in Requests /\ Parse(sent[current].words) # NoCommand
    BY <1>5 DEF Executes, Run, Carried
  <2>2. Parse(sent[current].words) \in Commands
    BY <2>1, ParseTyping DEF Requests
  <2>3. ran' \in Seq([who : Clients, command : Commands]) /\ DOMAIN reply' = Clients
    BY <1>5, <2>2 DEF Executes, Run
  <2>4. /\ phase = "dispatching" /\ phase' = "responding"
        /\ current \in Clients /\ executed' = executed \cup {current}
        /\ UNCHANGED <<line, current, seen, client, got, refused>>
    BY <1>5 DEF Executes, Run
  <2>5. QED
    BY <2>3, <2>4
<1>6. CASE Responds
  BY <1>6, Shows DEF Responds, Answer
<1>7. CASE Closes
  BY <1>7, Shows DEF Closes, Close
<1>8. CASE Stops
  <2>1. CASE Cut /\ UNCHANGED server
    BY <1>8, <2>1, Shows DEF Stops, Cut
  <2>2. CASE CloseAll /\ UNCHANGED <<phase, got>>
    BY <1>8, <2>2, Shows DEF Stops, CloseAll
  <2>3. CASE End /\ phase' = "close" /\ UNCHANGED got
    BY <1>8, <2>3, Shows DEF Stops, End
  <2>4. QED
    BY <1>8, <2>1, <2>2, <2>3 DEF Stops
<1>9. ASSUME NEW c \in Clients, NEW typed \in Typed, Invoke(c, typed)
      PROVE  Service'
  <2>1. /\ argv' \in [Clients -> Typed \cup {None}]
        /\ earlier' \in [Clients -> SUBSET Clients] /\ DOMAIN exit' = Clients
        /\ UNCHANGED <<sent, server, outcome>>
    BY <1>9 DEF Invoke, Ends
  <2>2. CASE UNCHANGED queueVars
    BY <2>1, <2>2
  <2>3. CASE Join(c)
    BY <2>1, <2>3, Joins DEF Join
  <2>4. QED
    BY <1>9, <2>2, <2>3 DEF Invoke
<1>10. ASSUME NEW c \in Clients, WriteLine(c)
       PROVE  Service'
  <2>1. argv[c] \in Typed /\ ToCommand(argv[c]) \in Commands
    BY <1>10, Understood DEF WriteLine, Carried
  <2>2. sent'[c] \in Requests
    BY <1>10, <2>1, SerializeTyping, FrameAssumption DEF WriteLine, Requests
  <2>3. sent' \in [Clients -> Requests \cup {None}]
    BY <1>10, <2>2 DEF WriteLine
  <2>4. QED
    BY <1>10, <2>3 DEF WriteLine
<1>11. ASSUME NEW c \in Clients, ReadReply(c) \/ LoseConnection(c)
       PROVE  Service'
  BY <1>11 DEF ReadReply, LoseConnection, Ends
<1>12. ASSUME NEW c \in Clients, TimeOut(c) \/ HangUp(c)
       PROVE  Service'
  BY <1>12 DEF TimeOut, HangUp, GiveUp, Ends
<1>13. ASSUME NEW c \in Clients, Intrude(c)
       PROVE  Service'
  BY <1>13, Joins, TextAssumption DEF Intrude, Join, Requests
<1>14. CASE UNCHANGED lineVars
  BY <1>14 DEF lineVars
<1>15. QED
  BY <1>1, <1>2, <1>3, <1>4, <1>5, <1>6, <1>7, <1>8, <1>9, <1>10, <1>11, <1>12, <1>13,
     <1>14 DEF Next, ServerStep, ClientStep

\* ... what the connections carry,
LEMMA CarriedStep == IInv /\ [Next]_lineVars => Carried'
<1> SUFFICES ASSUME IInv, [Next]_lineVars PROVE Carried'
  OBVIOUS
<1> USE NoneAssumption DEF IInv, Service, Typing, Placed, Turn, Carried, Phases,
      server, client, outcome, queueVars
<1>1. CASE Accepts
  BY <1>1, Takes DEF Accepts, Take
<1>2. CASE ReadChunk
  <2> DEFINE message == sent[current]
             complete == message.newline \in 1 .. got' /\ message.newline <= MaxFrame
  <2>1. /\ phase = "reading" /\ current \in Clients /\ message # None
        /\ got' \in Nat /\ UNCHANGED <<client, ran, reply>>
        /\ \/ complete /\ UNCHANGED <<queueVars, refused>>
           \/ ~complete /\ phase' = "reading" /\ UNCHANGED <<queueVars, refused>>
           \/ ~complete /\ got' > MaxFrame /\ Refuses("size")
    BY <1>2, FrameAssumption DEF ReadChunk
  <2>2. message.newline \in Nat
    BY <2>1 DEF Requests
  <2>3. CASE complete /\ UNCHANGED <<queueVars, refused>>
    <3>1. message.newline \in 1 .. MaxFrame /\ phase' = "received"
      BY <1>2, <2>1, <2>2, <2>3, FrameAssumption DEF ReadChunk
    <3>2. QED
      BY <2>1, <2>3, <3>1
  <2>4. CASE phase' = "reading" /\ UNCHANGED <<queueVars, refused>>
    BY <2>1, <2>4
  <2>5. CASE ~complete /\ got' > MaxFrame /\ Refuses("size")
    <3>1. message.newline \notin 1 .. MaxFrame
      BY <2>1, <2>2, <2>5, FrameAssumption
    <3>2. QED
      BY <2>1, <2>5, <3>1, Shows DEF Refuses, Refuse, Seen
  <2>6. QED
    BY <2>1, <2>3, <2>4, <2>5
<1>3. CASE ReadExpires
  BY <1>3, Shows DEF ReadExpires, Refuses, Refuse, Seen
<1>4. CASE ParseFrame
  BY <1>4, Shows DEF ParseFrame, Refuses, Refuse, Seen
<1>5. CASE Executes
  <2>1. \A r \in Replies(Parse(sent[current].words)) : Covers(r.time, r.left)
    BY RepliesCover
  <2>2. QED
    BY <1>5, <2>1 DEF Executes, Run
<1>6. CASE Responds
  BY <1>6, Shows DEF Responds, Answer, Seen
<1>7. CASE Closes
  BY <1>7, Shows DEF Closes, Close, Seen
<1>8. CASE Stops
  BY <1>8, Shows DEF Stops, Cut, CloseAll, End, Seen
<1>9. ASSUME NEW c \in Clients, NEW typed \in Typed, Invoke(c, typed)
      PROVE  Carried'
  <2>1. argv' = [argv EXCEPT ![c] = typed] /\ seen[c] = "away" /\ UNCHANGED <<sent, server, outcome>>
    BY <1>9 DEF Invoke
  <2>2. CASE UNCHANGED queueVars
    BY <2>1, <2>2
  <2>3. CASE Join(c) /\ ToCommand(typed) # NoCommand
    BY <2>1, <2>3 DEF Join
  <2>4. QED
    BY <1>9, <2>2, <2>3 DEF Invoke
<1>10. ASSUME NEW c \in Clients, WriteLine(c)
       PROVE  Carried'
  BY <1>10 DEF WriteLine, Request
<1>11. ASSUME NEW c \in Clients, ReadReply(c) \/ LoseConnection(c)
       PROVE  Carried'
  BY <1>11 DEF ReadReply, LoseConnection
<1>12. ASSUME NEW c \in Clients, TimeOut(c) \/ HangUp(c)
       PROVE  Carried'
  BY <1>12 DEF TimeOut, HangUp, GiveUp
<1>13. ASSUME NEW c \in Clients, Intrude(c)
       PROVE  Carried'
  BY <1>13 DEF Intrude, Join
<1>14. CASE UNCHANGED lineVars
  BY <1>14 DEF lineVars
<1>15. QED
  BY <1>1, <1>2, <1>3, <1>4, <1>5, <1>6, <1>7, <1>8, <1>9, <1>10, <1>11, <1>12, <1>13,
     <1>14 DEF Next, ServerStep, ClientStep

\* An invocation that reports has seen what it reports.
LEMMA Ended ==
  ASSUME Typing, NEW c \in Clients, NEW what, Ends(c, what)
  PROVE  /\ exit'[c].what = what /\ (exit'[c].success => what = "done")
         /\ \A d \in Clients : d # c => exit'[d] = exit[d]
<1>1. PICK success \in {FALSE, what = "done"} :
        exit' = [exit EXCEPT ![c] = [what |-> what, success |-> success]]
  BY DEF Ends
<1>2. exit'[c] = [what |-> what, success |-> success]
  BY <1>1 DEF Typing
<1>3. exit'[c].what = what /\ exit'[c].success = success
  BY <1>2
<1>4. \A d \in Clients : d # c => exit'[d] = exit[d]
  BY <1>1 DEF Typing
<1>5. success => what = "done"
  BY <1>1
<1>6. QED
  BY <1>3, <1>4, <1>5

\* ... what is known of those that have reported,
LEMMA ReportedStep == IInv /\ [Next]_lineVars => Reported'
<1> SUFFICES ASSUME IInv, [Next]_lineVars PROVE Reported'
  OBVIOUS
<1> USE NoneAssumption DEF IInv, Service, Typing, Placed, Turn, Reported,
      server, client, outcome, queueVars
<1>1. CASE Accepts
  BY <1>1 DEF Accepts, Take
<1>2. CASE ReadChunk
  BY <1>2, Shows DEF ReadChunk, Refuses, Refuse, Seen
<1>3. CASE ReadExpires
  BY <1>3, Shows DEF ReadExpires, Refuses, Refuse, Seen
<1>4. CASE ParseFrame
  BY <1>4, Shows DEF ParseFrame, Refuses, Refuse, Seen
<1>5. CASE Executes
  <2>1. /\ current \in Clients \ executed /\ refused[current] = "no"
        /\ \A c \in Clients : c # current => reply'[c] = reply[c]
        /\ UNCHANGED <<seen, client>>
    BY <1>5 DEF Executes, Run
  <2>2. QED
    BY <2>1
<1>6. CASE Responds
  BY <1>6, Shows DEF Responds, Answer, Seen
<1>7. CASE Closes
  BY <1>7, Shows DEF Closes, Close, Seen
<1>8. CASE Stops
  BY <1>8, Shows DEF Stops, Cut, CloseAll, End, Seen
<1>9. ASSUME NEW c \in Clients, NEW typed \in Typed, Invoke(c, typed)
      PROVE  Reported'
  <2>1. /\ argv' = [argv EXCEPT ![c] = typed] /\ typed # None
        /\ seen[c] = "away" /\ argv[c] = None /\ UNCHANGED reply
    BY <1>9, TextAssumption DEF Invoke, outcome
  <2>2. CASE UNCHANGED queueVars /\ \E what \in {"invalid", "absent"} : Ends(c, what)
    BY <2>1, <2>2, Ended
  <2>3. CASE Join(c) /\ UNCHANGED exit
    BY <2>1, <2>3 DEF Join
  <2>4. QED
    BY <1>9, <2>2, <2>3 DEF Invoke
<1>10. ASSUME NEW c \in Clients, WriteLine(c)
       PROVE  Reported'
  BY <1>10 DEF WriteLine
<1>11. ASSUME NEW c \in Clients, ReadReply(c) \/ LoseConnection(c)
       PROVE  Reported'
  <2>1. /\ argv[c] # None /\ UNCHANGED <<queueVars, argv, outcome>>
        /\ \/ seen[c] = "rejected" /\ Ends(c, "error")
           \/ seen[c] = "answered" /\ ~reply[c].ok /\ Ends(c, "error")
           \/ seen[c] = "answered" /\ reply[c].ok /\ Ends(c, "done")
           \/ Ends(c, "unexpected") \/ Ends(c, "broken")
    BY <1>11 DEF ReadReply, LoseConnection
  <2>2. QED
    BY <2>1, Ended
<1>12. ASSUME NEW c \in Clients, TimeOut(c) \/ HangUp(c)
       PROVE  Reported'
  <2>1. /\ seen[c] = "waiting" /\ seen' = [seen EXCEPT ![c] = "gaveUp"]
        /\ UNCHANGED <<argv, reply>>
        /\ (argv[c] # None /\ Ends(c, "slow")) \/ (argv[c] = None /\ UNCHANGED exit)
    BY <1>12 DEF TimeOut, HangUp, GiveUp
  <2>2. QED
    BY <2>1, Ended
<1>13. ASSUME NEW c \in Clients, Intrude(c)
       PROVE  Reported'
  BY <1>13 DEF Intrude, Join
<1>14. CASE UNCHANGED lineVars
  BY <1>14 DEF lineVars
<1>15. QED
  BY <1>1, <1>2, <1>3, <1>4, <1>5, <1>6, <1>7, <1>8, <1>9, <1>10, <1>11, <1>12, <1>13,
     <1>14 DEF Next, ServerStep, ClientStep

\* ... the order of the queue,
LEMMA OrderedStep == IInv /\ [Next]_lineVars => Ordered'
<1> SUFFICES ASSUME IInv, [Next]_lineVars PROVE Ordered'
  OBVIOUS
<1> USE NoneAssumption DEF IInv, Service, Typing, Placed, Ordered,
      server, client, outcome, queueVars
<1>1. CASE Accepts
  <2>1. UNCHANGED <<client, executed>> /\ current = None
    BY <1>1 DEF Accepts, Take
  <2>2. current' = line[1] /\ 1 \in DOMAIN line /\ line' \in Seq(Clients)
    BY <1>1, Takes DEF Accepts
  <2>3. \A i \in DOMAIN line' :
          i + 1 \in DOMAIN line /\ line'[i] = line[i + 1] /\ i \in Nat \ {0}
    BY <1>1, <2>2, Takes DEF Accepts
  <2>4. \A i, j \in DOMAIN line' : i + 1 < j + 1 => i < j
    BY <2>2
  <2>5. \A i \in DOMAIN line' : ~(i + 1 < 1)
    BY <2>3
  <2>6. QED
    BY <2>1, <2>2, <2>3, <2>4, <2>5
<1>2. CASE \/ ReadChunk \/ ReadExpires \/ ParseFrame \/ Responds
  BY <1>2 DEF ReadChunk, ReadExpires, ParseFrame, Responds, Refuses, Refuse, Answer
<1>3. CASE Executes
  BY <1>3 DEF Executes, Run
<1>4. CASE Closes
  BY <1>4 DEF Closes, Close
<1>5. CASE Stops
  BY <1>5 DEF Stops, Cut, CloseAll, End
<1>6. ASSUME NEW c \in Clients, NEW typed \in Typed, Invoke(c, typed)
      PROVE  Ordered'
  <2>1. /\ argv' = [argv EXCEPT ![c] = typed] /\ typed # None
        /\ seen[c] = "away" /\ argv[c] = None
        /\ earlier' = [earlier EXCEPT ![c] = {d \in Clients : exit[d] # None}]
        /\ exit[c] = None
    BY <1>6, TextAssumption DEF Invoke, Reported
  <2>2. CASE UNCHANGED queueVars /\ \E what \in {"invalid", "absent"} : Ends(c, what)
    BY <2>1, <2>2 DEF Ends
  <2>3. CASE Join(c) /\ UNCHANGED exit
    BY <2>1, <2>3, Joins DEF Join
  <2>4. QED
    BY <1>6, <2>2, <2>3 DEF Invoke
<1>7. ASSUME NEW c \in Clients, WriteLine(c)
      PROVE  Ordered'
  BY <1>7 DEF WriteLine
<1>8. ASSUME NEW c \in Clients, ReadReply(c) \/ LoseConnection(c)
      PROVE  Ordered'
  BY <1>8 DEF ReadReply, LoseConnection, Ends
<1>9. ASSUME NEW c \in Clients, TimeOut(c) \/ HangUp(c)
      PROVE  Ordered'
  BY <1>9 DEF TimeOut, HangUp, GiveUp, Ends
<1>10. ASSUME NEW c \in Clients, Intrude(c)
       PROVE  Ordered'
  <2>1. Join(c) /\ argv[c] = None /\ UNCHANGED <<argv, earlier, exit>>
    BY <1>10 DEF Intrude
  <2>2. \A d \in Clients : c \notin earlier[d]
    BY <2>1 DEF Reported
  <2>3. QED
    BY <2>1, <2>2, Joins DEF Join
<1>11. CASE UNCHANGED lineVars
  BY <1>11 DEF lineVars
<1>12. QED
  BY <1>1, <1>2, <1>3, <1>4, <1>5, <1>6, <1>7, <1>8, <1>9, <1>10, <1>11
     DEF Next, ServerStep, ClientStep

\* ... and that what was run is what was asked.
LEMMA AskedStep == IInv /\ [Next]_lineVars => Asked'
<1> SUFFICES ASSUME IInv, [Next]_lineVars PROVE Asked'
  OBVIOUS
<1> USE NoneAssumption DEF IInv, Service, Typing, Placed, Turn, Ordered, Asked, RunsAsAsked,
      server, client, outcome, queueVars
<1>1. CASE \/ Accepts \/ ReadChunk \/ ReadExpires \/ ParseFrame \/ Responds \/ Closes \/ Stops
  <2>1. UNCHANGED <<client, executed, ran>>
    BY <1>1 DEF Accepts, ReadChunk, ReadExpires, ParseFrame, Responds, Closes, Stops,
                Take, Refuses, Refuse, Answer, Close, Cut, CloseAll, End
  <2>2. QED
    BY <2>1
<1>2. CASE Executes
  <2> DEFINE entry == [who |-> current, command |-> Parse(sent[current].words)]
  <2>1. /\ current \in Clients \ executed /\ executed' = executed \cup {current}
        /\ ran' = Append(ran, entry) /\ phase = "dispatching" /\ UNCHANGED client
    BY <1>2 DEF Executes, Run
  <2>2. seen[current] # "away"
    BY <2>1
  <2>3. IF argv[current] # None THEN Says(argv[current], entry.command)
        ELSE sent[current].newline \in 1 .. MaxFrame
    <3>1. CASE argv[current] = None
      BY <2>1, <3>1 DEF Carried
    <3>2. CASE argv[current] # None
      <4>1. ToCommand(argv[current]) # NoCommand /\ sent[current] = Request(argv[current])
        BY <2>1, <2>2, <3>2 DEF Carried
      <4>2. /\ ToCommand(argv[current]) \in Commands
            /\ Says(argv[current], ToCommand(argv[current]))
        BY <2>1, <3>2, <4>1, Understood
      <4>3. entry.command = ToCommand(argv[current])
        BY <4>1, <4>2, RoundTrip DEF Request
      <4>4. QED
        BY <3>2, <4>2, <4>3
    <3>3. QED
      BY <3>1, <3>2
  <2>4. entry.who = current
    OBVIOUS
  <2> HIDE DEF entry
  <2>5. /\ DOMAIN ran' = DOMAIN ran \cup {Len(ran) + 1} /\ ran'[Len(ran) + 1] = entry
        /\ \A i \in DOMAIN ran : ran'[i] = ran[i] /\ i < Len(ran) + 1
    BY <2>1
  <2>6. \A i \in DOMAIN ran : current \notin earlier[ran[i].who] /\ current \notin earlier[current]
    BY <2>1
  <2>7. QED
    BY <2>1, <2>3, <2>4, <2>5, <2>6
<1>3. ASSUME NEW c \in Clients, ClientStep(c)
      PROVE  Asked'
  <2>1. UNCHANGED <<executed, ran>>
    BY <1>3 DEF ClientStep, Invoke, WriteLine, ReadReply, LoseConnection, TimeOut, Intrude,
                HangUp, Join, GiveUp
  <2>2. \A d \in executed : argv'[d] = argv[d] /\ earlier'[d] = earlier[d]
    BY <1>3 DEF ClientStep, Invoke, WriteLine, ReadReply, LoseConnection, TimeOut, Intrude,
                HangUp
  <2>3. \A d \in executed : argv[d] = None => sent'[d] = sent[d]
    BY <1>3 DEF ClientStep, Invoke, WriteLine, ReadReply, LoseConnection, TimeOut, Intrude,
                HangUp, Join
  <2>4. QED
    BY <2>1, <2>2, <2>3
<1>4. CASE UNCHANGED lineVars
  BY <1>4 DEF lineVars
<1>5. QED
  BY <1>1, <1>2, <1>3, <1>4 DEF Next, ServerStep

\* IInv is an invariant.
LEMMA Invariant == Spec => []IInv
<1>1. IInv /\ [Next]_lineVars => IInv'
  BY ServiceStep, CarriedStep, ReportedStep, OrderedStep, AskedStep DEF IInv
<1>2. QED
  BY InitInv, <1>1, PTL DEF Spec

-----------------------------------------------------------------------------
\* Each command that is run is what its user typed, computed without overflow; another
\* program's only if its line fits a frame; and what came too late for its user runs
\* before what the user typed next.
THEOREM Obeys == Spec => []RunsAsAsked
<1>1. IInv => RunsAsAsked
  BY DEF IInv, Asked
<1>2. QED
  BY Invariant, <1>1, PTL

\* What an invocation reports is so and stays so, and no line is refused that should not
\* be, for any limit of a frame and however its bytes arrive.
THEOREM Truthful == Spec => []ExitTruthful
<1>1. IInv => ExitTruthful
  <2> SUFFICES ASSUME IInv, NEW c \in Clients PROVE ReportsTruly(c) /\ RefusedRightly(c)
    BY DEF ExitTruthful
  <2> USE DEF IInv, Service, Typing, Turn
  <2>1. RefusedRightly(c)
    BY DEF Carried, RefusedRightly
  <2>2. refused[c] # "no" /\ argv[c] # None /\ seen[c] # "away" => refused[c] = "time"
    <3> SUFFICES ASSUME refused[c] \in {"size", "words"}, argv[c] # None, seen[c] # "away"
                 PROVE  FALSE
      OBVIOUS
    <3>1. sent[c] = Request(argv[c]) /\ ToCommand(argv[c]) # NoCommand
      BY DEF Carried
    <3>2. CASE refused[c] = "size"
      BY <3>1, <3>2, FrameAssumption DEF Carried, Request
    <3>3. CASE refused[c] = "words"
      <4>1. Parse(sent[c].words) = ToCommand(argv[c])
        BY <3>1, Understood, RoundTrip DEF Request
      <4>2. QED
        BY <3>1, <3>3, <4>1 DEF Carried
    <3>4. QED
      BY <3>2, <3>3
  <2>3. ReportsTruly(c)
    BY <2>2 DEF ReportsTruly, Reported, Carried, Placed
  <2>4. QED
    BY <2>1, <2>3
<1>2. QED
  BY Invariant, <1>1, PTL

-----------------------------------------------------------------------------
(* CommandLine stays within CommandQueue *)

\* A connection moves as the queue moves it, whatever is typed, sent or replied.
LEMMA QueueStep == [Next]_lineVars => [QueueNext]_queueVars
<1> SUFFICES ASSUME [Next]_lineVars PROVE [QueueNext]_queueVars
  OBVIOUS
<1>1. CASE Accepts \/ Executes \/ Responds \/ Closes
  <2>1. Take \/ Run \/ Answer \/ Close \/ UNCHANGED queueVars
    BY <1>1 DEF Accepts, Executes, Responds, Closes
  <2> QED
    BY <2>1 DEF QueueNext
<1>2. CASE ReadChunk \/ ReadExpires \/ ParseFrame
  <2>1. Refuse \/ UNCHANGED queueVars
    BY <1>2 DEF ReadChunk, ReadExpires, ParseFrame, Refuses
  <2> QED
    BY <2>1 DEF QueueNext
<1>3. CASE Stops
  <2>1. Cut \/ CloseAll \/ End
    BY <1>3 DEF Stops
  <2> QED
    BY <2>1 DEF QueueNext
<1>4. ASSUME NEW c \in Clients, ClientStep(c)
      PROVE  [QueueNext]_queueVars
  <2>1. Join(c) \/ GiveUp(c) \/ UNCHANGED queueVars
    BY <1>4 DEF ClientStep, Invoke, WriteLine, ReadReply, LoseConnection, TimeOut, Intrude,
                HangUp
  <2> QED
    BY <2>1 DEF QueueNext
<1>5. CASE UNCHANGED lineVars
  BY <1>5 DEF lineVars
<1> QED
  BY <1>1, <1>2, <1>3, <1>4, <1>5 DEF Next, ServerStep

\* CommandLine asks nothing of the server but to be the queue IpcServer is proved to be:
\* every one of its behaviours is a behaviour of CommandQueue.
THEOREM Queues == Spec => QueueSpec
<1>1. Init => QueueInit
  BY DEF Init
<1> QED
  BY <1>1, QueueStep, PTL DEF Spec, QueueSpec
=============================================================================
