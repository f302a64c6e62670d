------------------------------ MODULE Protocol ------------------------------
(***************************************************************************)
(* Durations (duration.rs) and the text protocol between the command-line  *)
(* client and the application (ipc.rs).                                    *)
(*                                                                         *)
(* Text is a sequence of words, and a word is a keyword or a number with a *)
(* suffix.  Splitting at white space and ignoring case are left out: a     *)
(* word stands for every way to write it.  Numbers are unbounded and Word  *)
(* is where u64 ends, so that what would overflow can be told.             *)
(***************************************************************************)
EXTENDS Integers, Sequences

CONSTANTS Word,        \* u64::MAX
          Indefinite   \* no duration: until it is stopped

MaxFinite == 31536000

ASSUME WordAssumption == Word \in Nat /\ Word > MaxFinite

Durations == 1 .. MaxFinite
Multiplier == [s |-> 1, m |-> 60, h |-> 3600, d |-> 86400]
Units == DOMAIN Multiplier
Queries == {"STOP", "TOGGLE", "STATUS", "QUIT"}

\* A command; only START carries anything.
Commands ==
  [verb : {"START"}, duration : Durations \cup {Indefinite}, display : BOOLEAN]
    \cup [verb : Queries, duration : {Indefinite}, display : {FALSE}]

ASSUME IndefiniteAssumption == Indefinite \notin Int

\* Keywords have no value; "bare" is a number without a suffix, "junk" anything else.
Key(text) == [text |-> text, value |-> 0]
Query(verb) == [verb |-> verb, duration |-> Indefinite, display |-> FALSE]

\* What the parsers return for text that does not parse.
NoDuration == 0
NoCommand == Query("none")

-----------------------------------------------------------------------------
(* Durations *)

\* parse_duration: the number must fit a u64, the product must not overflow one.
ParseDuration(value, unit) ==
  LET multiplier == Multiplier[unit]
  IN  IF \/ value > Word \/ value < 1
         \/ value > Word \div multiplier
         \/ value * multiplier > MaxFinite
      THEN NoDuration ELSE value * multiplier

\* parse_duration_spec: the suffix gives the unit, and none means minutes.
ParseSpec(word) ==
  IF word.text = "bare" THEN ParseDuration(word.value, "m")
  ELSE IF word.text \in Units THEN ParseDuration(word.value, word.text)
  ELSE NoDuration

\* format_compact_duration for so many seconds and a fraction of one: what is shown
\* of days, hours and minutes, nothing of which is "<1m".
Compact(whole, fraction) ==
  LET seconds == IF fraction /\ whole < Word THEN whole + 1 ELSE whole
      minutes == (seconds + 59) \div 60
      days == minutes \div 1440
  IN  [days |-> days,
       hours |-> (minutes \div 60) % 24,
       minutes |-> IF days > 0 THEN 0 ELSE minutes % 60]

TimeOf(text) == text.days * 86400 + text.hours * 3600 + text.minutes * 60

\* The text errs by less than a minute, and never below what is left; from a day on
\* it drops the minutes, and errs by less than an hour.
Covers(text, seconds) ==
  /\ TimeOf(text) < seconds + 60
  /\ seconds <= IF text.days = 0 THEN TimeOf(text) ELSE TimeOf(text) + 3599

-----------------------------------------------------------------------------
(* Commands *)

\* IpcCommand::serialize.
Serialize(command) ==
  IF command.verb # "START" THEN <<Key(command.verb)>>
  ELSE <<Key("START"),
         IF command.duration = Indefinite THEN Key("indefinite")
         ELSE [text |-> "s", value |-> command.duration]>>
       \o IF command.display THEN <<Key("display")>> ELSE <<>>

\* START: the duration may be left out, "display" comes last and only once.
ParseStart(words) ==
  LET omitted == Len(words) = 1 \/ words[2].text = "display"
      duration == IF omitted \/ words[2].text = "indefinite" THEN Indefinite
                  ELSE ParseSpec(words[2])
      last == IF omitted THEN 2 ELSE 3
      display == Len(words) = last /\ words[last].text = "display"
  IN  IF duration = NoDuration \/ (Len(words) >= last /\ ~display) THEN NoCommand
      ELSE [verb |-> "START", duration |-> duration, display |-> display]

\* IpcCommand::parse.
Parse(words) ==
  IF words = <<>> THEN NoCommand
  ELSE IF words[1].text = "START" THEN ParseStart(words)
  ELSE IF words[1].text \in Queries /\ Len(words) = 1 THEN Query(words[1].text)
  ELSE NoCommand
=============================================================================
