---------------------------- MODULE CommandLine ----------------------------
(***************************************************************************)
(* What becomes of a command: the invocation that a user types             *)
(* (cli/main.rs), the line it sends (ipc.rs), the frame the server reads   *)
(* (ipc_server.rs), the command the application runs, the reply, and what  *)
(* the invocation reports in the end.  Any other program may connect too,  *)
(* and send what it likes.                                                 *)
(*                                                                         *)
(* The server is the queue of CommandQueue, which IpcServer implements:    *)
(* each step on a connection is one of the queue's, with the data that     *)
(* goes with it.  An invocation gives up after five seconds, and its user  *)
(* may then try again while the first command is still in the queue.       *)
(***************************************************************************)
EXTENDS CommandQueue, Protocol

CONSTANTS Typed,      \* the command lines a user types
          Messages,   \* what other programs send
          MaxFrame,   \* MAX_FRAME_BYTES
          Chunk,      \* the most a single read returns
          LineSize,   \* bytes of a line the client sends
          Samples,    \* seconds that may be left of a session
          ReplySizes  \* bytes of the first line of a reply

\* A line of the client fits a frame.
ASSUME FrameAssumption ==
  /\ MaxFrame \in Nat /\ Chunk \in Nat /\ LineSize \in 1 .. MaxFrame
  /\ Samples \subseteq 0 .. MaxFinite /\ ReplySizes \subseteq Nat

ASSUME NoneAssumption == None \notin Clients

\* No duration, or --indefinite; clap admits not both, nor either for the others.
Omitted == Key("none")
Texts == Units \cup Queries \cup {"START", "indefinite", "display", "bare", "junk"}
Words == [text : Texts, value : Nat]
Lines == [verb : {"START"}, spec : Words \cup {Omitted}, display : BOOLEAN]
           \cup [verb : Queries, spec : {Omitted}, display : {FALSE}]

ASSUME TextAssumption ==
  /\ Typed \subseteq Lines /\ None \notin Typed
  /\ Messages \subseteq [words : Seq(Words), newline : Nat, size : Nat]
  /\ None \notin Messages

VARIABLES
  argv,       \* what each invocation was typed, None for other programs
  earlier,    \* history: the invocations that had ended when it began
  sent,       \* what each connection carries, None as long as nothing is sent
  listening,  \* somebody may connect
  phase,      \* where serve_connection_with is
  got,        \* bytes it has read
  refused,    \* history: why each connection was refused
  ran,        \* history: the commands run, in order, and for whom
  reply,      \* what was replied, or None
  exit        \* what the invocation has reported, or None

server == <<listening, phase, got>>
client == <<argv, earlier, sent, exit>>
outcome == <<refused, ran, reply>>
lineVars == <<queueVars, client, server, outcome>>

Phases == {"reading", "received", "dispatching", "responding", "close"}

Init ==
  /\ QueueInit
  /\ argv = [c \in Clients |-> None] /\ earlier = [c \in Clients |-> {}]
  /\ sent = [c \in Clients |-> None]
  /\ listening = TRUE /\ phase = "close" /\ got = 0
  /\ refused = [c \in Clients |-> "no"]
  /\ ran = <<>> /\ reply = [c \in Clients |-> None]
  /\ exit = [c \in Clients |-> None]

-----------------------------------------------------------------------------
(* The invocation: run_cli, send_command *)

\* The command line as a command: a duration that does not parse ends it here.
ToCommand(typed) ==
  LET duration == IF typed.spec = Omitted THEN Indefinite ELSE ParseSpec(typed.spec)
  IN  IF duration = NoDuration THEN NoCommand
      ELSE [verb |-> typed.verb, duration |-> duration, display |-> typed.display]

\* write_output: success is reported only for a reply that is not an error, and only
\* if it can be written.
Ends(c, what) ==
  \E success \in {FALSE, what = "done"} :
    exit' = [exit EXCEPT ![c] = [what |-> what, success |-> success]]

\* Refused by the parser before the application is contacted, by a socket that is
\* not there, or connected.
Invoke(c, typed) ==
  /\ seen[c] = "away" /\ argv[c] = None
  /\ argv' = [argv EXCEPT ![c] = typed]
  /\ earlier' = [earlier EXCEPT ![c] = {d \in Clients : exit[d] # None}]
  /\ \/ ToCommand(typed) = NoCommand /\ Ends(c, "invalid") /\ UNCHANGED queueVars
     \/ ToCommand(typed) # NoCommand /\ Ends(c, "absent") /\ UNCHANGED queueVars
     \/ ToCommand(typed) # NoCommand /\ listening /\ Join(c) /\ UNCHANGED exit
  /\ UNCHANGED <<sent, server, outcome>>

\* write_all.
WriteLine(c) ==
  /\ argv[c] # None /\ sent[c] = None /\ exit[c] = None
  /\ seen[c] = "waiting"
  /\ sent' = [sent EXCEPT ![c] = [words |-> Serialize(ToCommand(argv[c])),
                                  newline |-> LineSize, size |-> LineSize]]
  /\ UNCHANGED <<queueVars, argv, earlier, server, outcome, exit>>

\* The first line of the reply, unless it is too long.
ReadReply(c) ==
  /\ argv[c] # None /\ exit[c] = None
  /\ \/ seen[c] = "rejected" /\ Ends(c, "error")
     \/ /\ seen[c] = "answered"
        /\ Ends(c, IF reply[c].size > MaxFrame THEN "unexpected"
                   ELSE IF reply[c].ok THEN "done" ELSE "error")
  /\ UNCHANGED <<queueVars, argv, earlier, sent, server, outcome>>

\* The connection is at its end, or breaks, also before a refusal can be read.
LoseConnection(c) ==
  /\ argv[c] # None /\ exit[c] = None
  /\ \/ seen[c] = "closed" /\ Ends(c, "unexpected")
     \/ seen[c] \in {"closed", "rejected"} /\ Ends(c, "broken")
  /\ UNCHANGED <<queueVars, argv, earlier, sent, server, outcome>>

\* Five seconds have passed, or the user has interrupted it.
TimeOut(c) ==
  /\ argv[c] # None /\ exit[c] = None
  /\ GiveUp(c)
  /\ Ends(c, "slow")
  /\ UNCHANGED <<argv, earlier, sent, server, outcome>>

\* Another program connects, sends, and perhaps hangs up.
Intrude(c) ==
  /\ seen[c] = "away" /\ argv[c] = None /\ listening
  /\ Join(c)
  /\ \E message \in Messages : sent' = [sent EXCEPT ![c] = message]
  /\ UNCHANGED <<argv, earlier, exit, server, outcome>>

HangUp(c) == argv[c] = None /\ GiveUp(c) /\ UNCHANGED <<client, server, outcome>>

-----------------------------------------------------------------------------
(* The server: serve_connection_with, read_frame_with *)

Accepts ==
  /\ Take
  /\ phase' = "reading" /\ got' = 0
  /\ UNCHANGED <<client, listening, outcome>>

Refuses(why) ==
  /\ Refuse
  /\ refused' = [refused EXCEPT ![current] = why]
  /\ phase' = "close"

\* Mutant: a newline as the last byte of a frame of full size is one too many.
ReadChunkShort ==
  /\ phase = "reading" /\ current \in Clients /\ sent[current] # None
  /\ LET message == sent[current]
     IN  \E n \in 1 .. Chunk :
           /\ n <= MaxFrame + 1 - got /\ n <= message.size - got
           /\ got' = got + n
           /\ \/ /\ message.newline \in 1 .. got' /\ message.newline < MaxFrame
                 /\ phase' = "received" /\ UNCHANGED <<queueVars, refused>>
              \/ /\ ~(message.newline \in 1 .. got' /\ message.newline < MaxFrame)
                 /\ IF got' > MaxFrame - 1 THEN Refuses("size")
                    ELSE UNCHANGED <<phase, queueVars, refused>>
  /\ UNCHANGED <<client, listening, ran, reply>>

\* One read and the loop over its bytes: a newline within the limit completes the
\* frame, a byte past the limit ends it.
ReadChunk ==
  /\ phase = "reading" /\ current \in Clients /\ sent[current] # None
  /\ LET message == sent[current]
         complete == message.newline \in 1 .. got' /\ message.newline <= MaxFrame
     IN  \E n \in 1 .. Chunk :
           /\ n <= MaxFrame + 1 - got /\ n <= message.size - got
           /\ got' = got + n
           /\ \/ complete /\ phase' = "received" /\ UNCHANGED <<queueVars, refused>>
              \/ ~complete /\ got' > MaxFrame /\ Refuses("size")
              \/ ~complete /\ got' <= MaxFrame /\ UNCHANGED <<phase, queueVars, refused>>
  /\ UNCHANGED <<client, listening, ran, reply>>

\* The end of the stream, or the end of the budget of one second.
ReadExpires ==
  /\ phase = "reading"
  /\ Refuses("time")
  /\ UNCHANGED <<client, listening, got, ran, reply>>

\* What parses is dispatched, unless the server is stopping.
ParseFrame ==
  /\ phase = "received"
  /\ \/ phase' = "close" /\ UNCHANGED <<queueVars, refused>>
     \/ Parse(sent[current].words) = NoCommand /\ Refuses("words")
     \/ /\ Parse(sent[current].words) # NoCommand
        /\ phase' = "dispatching" /\ UNCHANGED <<queueVars, refused>>
  /\ UNCHANGED <<client, listening, got, ran, reply>>

\* What the application may reply: `left` seconds, begun ones included, and the text
\* for them.  An error carries the diagnostics of a guardian, of any size and number
\* of lines; STATUS does not fail.
NoTime == [days |-> 0, hours |-> 0, minutes |-> 0]
Plain == [ok |-> TRUE, size |-> 1, lines |-> 1, left |-> 0, time |-> NoTime]
Errors == [ok : {FALSE}, size : ReplySizes, lines : 1 .. 2, left : {0}, time : {NoTime}]
Times == {[Plain EXCEPT !.left = IF f THEN s + 1 ELSE s, !.time = Compact(s, f)] :
            s \in Samples, f \in BOOLEAN}
Replies(command) == {Plain} \cup IF command.verb = "STATUS" THEN Times ELSE Errors

\* execute_ipc_command, on the main thread.
Executes ==
  /\ phase = "dispatching"
  /\ Run
  /\ LET command == Parse(sent[current].words)
     IN  /\ ran' = Append(ran, [who |-> current, command |-> command])
         /\ \E r \in Replies(command) : reply' = [reply EXCEPT ![current] = r]
  /\ phase' = "responding"
  /\ UNCHANGED <<client, listening, got, refused>>

\* The reply is written, or the write fails.
Responds ==
  /\ phase = "responding"
  /\ Answer \/ UNCHANGED queueVars
  /\ phase' = "close"
  /\ UNCHANGED <<client, listening, got, outcome>>

\* The turn is over, or the connection could not be set up.
Closes ==
  /\ current # None
  /\ phase = "close" \/ (phase = "reading" /\ got = 0)
  /\ Close
  /\ phase' = "close"
  /\ UNCHANGED <<client, listening, got, outcome>>

\* The application stops the server, or ends.
Stops ==
  /\ \/ Cut /\ UNCHANGED server
     \/ CloseAll /\ listening' = FALSE /\ UNCHANGED <<phase, got>>
     \/ End /\ listening' = FALSE /\ phase' = "close" /\ UNCHANGED got
  /\ UNCHANGED <<client, outcome>>

-----------------------------------------------------------------------------
ServerStep ==
  Accepts \/ ReadChunk \/ ReadExpires \/ ParseFrame \/ Executes \/ Responds \/ Closes \/ Stops

ClientStep(c) ==
  \/ \E typed \in Typed : Invoke(c, typed)
  \/ WriteLine(c) \/ ReadReply(c) \/ LoseConnection(c) \/ TimeOut(c)
  \/ Intrude(c) \/ HangUp(c)

Next == ServerStep \/ \E c \in Clients : ClientStep(c)

Spec == Init /\ [][Next]_lineVars

-----------------------------------------------------------------------------
(* Properties *)

\* What a command line says, by arithmetic alone: its number of seconds, minutes,
\* hours or days, from the second to 365 days.
Says(typed, command) ==
  /\ command.verb = typed.verb /\ command.display = typed.display
  /\ IF typed.spec = Omitted THEN command.duration = Indefinite
     ELSE LET unit == IF typed.spec.text = "bare" THEN "m" ELSE typed.spec.text
          IN  /\ command.duration \in Durations
              /\ command.duration = typed.spec.value * Multiplier[unit]

\* The application runs what was asked of it: each command is what its user typed,
\* through parsing, the wire and parsing again, with no product that wrapped
\* (duration.rs:51); another program's only if its line fits a frame
\* (ipc_server.rs:167).  A command that came late to its user, who has given up and
\* typed another, runs before the other (cli/main.rs:104).
RunsAsAsked ==
  \A i \in DOMAIN ran :
    LET who == ran[i].who
    IN  /\ IF argv[who] # None THEN Says(argv[who], ran[i].command)
           ELSE sent[who].newline \in 1 .. MaxFrame
        /\ \A j \in DOMAIN ran : who \in earlier[ran[j].who] => i < j

\* What an invocation reports in the end is so, and stays so: success only for a
\* command that was run and not answered with an error, with a time that covers what
\* was left; "invalid" and "not running" only for one that never is run; an error
\* only from the command itself or for want of time, never for the form of the line
\* the client sent.
ReportsTruly(c) ==
  exit[c] # None =>
    /\ exit[c].success =>
         c \in executed /\ reply[c].ok /\ Covers(reply[c].time, reply[c].left)
    /\ exit[c].what \in {"invalid", "absent"} => c \notin executed
    /\ exit[c].what = "error" => IF c \in executed THEN ~reply[c].ok ELSE refused[c] = "time"

\* A line is refused for its size only if its newline is not within the limit,
\* however its bytes arrive, and for its words only if they do not parse.
RefusedRightly(c) ==
  /\ refused[c] = "size" => sent[c].newline \notin 1 .. MaxFrame
  /\ refused[c] = "words" => Parse(sent[c].words) = NoCommand
  /\ refused[c] # "no" => c \notin executed

ExitTruthful == \A c \in Clients : ReportsTruly(c) /\ RefusedRightly(c)

\* The client has the whole reply (ipc.rs:283, "parses the single-line response"):
\* what the application has to say fits the line and the frame the client reads.
ReplyIsWhole ==
  \A c \in Clients :
    seen[c] = "answered" => reply[c].lines = 1 /\ reply[c].size <= MaxFrame
=============================================================================
