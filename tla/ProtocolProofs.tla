--------------------------- MODULE ProtocolProofs ---------------------------
(***************************************************************************)
(* Facts about the operators of Protocol, for every number a user may type *)
(* and whatever the width of u64: durations are computed exactly or        *)
(* refused, the text of a duration covers it, and what is serialized       *)
(* parses to the same command.                                             *)
(***************************************************************************)
EXTENDS Protocol, TLAPS

\* What the proofs need of 365 days.
LEMMA MaxFiniteIsNat == MaxFinite \in Nat /\ MaxFinite > 0
BY SMT DEF MaxFinite

\* A number and its unit give their product, if that is a session's length, and are
\* refused otherwise: neither check of parse_duration refuses more, none less.
THEOREM DurationsExact ==
  ASSUME NEW value \in Nat, NEW unit \in Units
  PROVE  ParseDuration(value, unit) =
           IF value * Multiplier[unit] \in Durations THEN value * Multiplier[unit]
           ELSE NoDuration
<1> USE WordAssumption, MaxFiniteIsNat DEF ParseDuration, Durations, NoDuration
<1>1. Units = {"s", "m", "h", "d"}
  BY DEF Units, Multiplier
<1>2. /\ Multiplier["s"] = 1 /\ Multiplier["m"] = 60
      /\ Multiplier["h"] = 3600 /\ Multiplier["d"] = 86400
  BY DEF Multiplier
<1>3. CASE unit = "s"
  BY <1>2, <1>3
<1>4. CASE unit = "m"
  BY <1>2, <1>4
<1>5. CASE unit = "h"
  BY <1>2, <1>5
<1>6. CASE unit = "d"
  BY <1>2, <1>6
<1> QED
  BY <1>1, <1>3, <1>4, <1>5, <1>6

\* The text of what is left of a session covers it.
THEOREM CompactCovers ==
  ASSUME NEW whole \in 0 .. MaxFinite, NEW fraction \in BOOLEAN
  PROVE  Covers(Compact(whole, fraction), IF fraction THEN whole + 1 ELSE whole)
<1> DEFINE seconds == IF fraction THEN whole + 1 ELSE whole
           minutes == (seconds + 59) \div 60
           days == minutes \div 1440
           hours == (minutes \div 60) % 24
<1>1. seconds \in Nat /\ seconds = IF fraction /\ whole < Word THEN whole + 1 ELSE whole
  BY WordAssumption, MaxFiniteIsNat
<1>2. Compact(whole, fraction) =
        [days |-> days, hours |-> hours, minutes |-> IF days > 0 THEN 0 ELSE minutes % 60]
  BY <1>1 DEF Compact
<1> HIDE DEF seconds
<1>3. minutes \in Nat /\ 60 * minutes < seconds + 60 /\ seconds <= 60 * minutes
  BY <1>1
<1> HIDE DEF minutes
<1>4. CASE days > 0
  <2>1. minutes - 60 < days * 1440 + hours * 60 /\ days * 1440 + hours * 60 <= minutes
    BY <1>3
  <2> QED
    BY <1>1, <1>2, <1>3, <1>4, <2>1 DEF Covers, TimeOf, seconds
<1>5. CASE ~(days > 0)
  <2>1. days = 0 /\ minutes \div 60 \in 0 .. 23
    BY <1>3, <1>5
  <2>2. hours = minutes \div 60 /\ minutes = 60 * (minutes \div 60) + (minutes % 60)
    BY <1>3, <2>1
  <2> QED
    BY <1>1, <1>2, <1>3, <2>1, <2>2 DEF Covers, TimeOf, seconds
<1> QED
  BY <1>4, <1>5

\* As time passes the text never shows more than it did before, though it is rounded
\* twice and drops its minutes from a day on.
THEOREM CountdownNeverRises ==
  ASSUME NEW before \in 0 .. MaxFinite, NEW f \in BOOLEAN,
         NEW after \in 0 .. MaxFinite, NEW g \in BOOLEAN,
         after < before \/ (after = before /\ (g => f))
  PROVE  TimeOf(Compact(after, g)) <= TimeOf(Compact(before, f))
<1> DEFINE Minutes(s) == (s + 59) \div 60
           Shown(m) == IF m \div 1440 > 0 THEN 60 * (m \div 60) ELSE m
<1>1. ASSUME NEW whole \in 0 .. MaxFinite, NEW fraction \in BOOLEAN
      PROVE  TimeOf(Compact(whole, fraction)) =
               60 * Shown(Minutes(IF fraction THEN whole + 1 ELSE whole))
  <2> DEFINE seconds == IF fraction THEN whole + 1 ELSE whole
             minutes == Minutes(seconds)
             days == minutes \div 1440
             hours == (minutes \div 60) % 24
  <2>1. seconds \in Nat /\ seconds = IF fraction /\ whole < Word THEN whole + 1 ELSE whole
    BY WordAssumption, MaxFiniteIsNat
  <2>2. Compact(whole, fraction) =
          [days |-> days, hours |-> hours, minutes |-> IF days > 0 THEN 0 ELSE minutes % 60]
    BY <2>1 DEF Compact
  <2> HIDE DEF seconds
  <2>3. minutes \in Nat
    BY <2>1
  <2> HIDE DEF minutes
  <2>4. CASE days > 0
    <3>1. days * 24 + hours = minutes \div 60
      BY <2>3
    <3> QED
      BY <2>2, <2>3, <2>4, <3>1 DEF TimeOf, minutes, seconds
  <2>5. CASE ~(days > 0)
    <3>1. days = 0 /\ minutes \div 60 \in 0 .. 23
      BY <2>3, <2>5
    <3>2. hours = minutes \div 60 /\ minutes = 60 * (minutes \div 60) + (minutes % 60)
      BY <2>3, <3>1
    <3> QED
      BY <2>2, <2>3, <2>5, <3>1, <3>2 DEF TimeOf, minutes, seconds
  <2> QED
    BY <2>4, <2>5
<1>2. ASSUME NEW s \in Nat, NEW t \in Nat, s <= t
      PROVE  Minutes(s) \in Nat /\ Minutes(t) \in Nat /\ Minutes(s) <= Minutes(t)
  BY <1>2
<1>3. ASSUME NEW m \in Nat, NEW n \in Nat, m <= n
      PROVE  Shown(m) \in Nat /\ Shown(n) \in Nat /\ Shown(m) <= Shown(n)
  <2>1. CASE m \div 1440 > 0
    BY <1>3, <2>1
  <2>2. CASE ~(m \div 1440 > 0)
    BY <1>3, <2>2
  <2> QED
    BY <2>1, <2>2
<1> HIDE DEF Minutes, Shown
<1> DEFINE s == IF g THEN after + 1 ELSE after
           t == IF f THEN before + 1 ELSE before
<1>4. s \in Nat /\ t \in Nat /\ s <= t
  BY MaxFiniteIsNat
<1> HIDE DEF s, t
<1>5. Shown(Minutes(s)) \in Nat /\ Shown(Minutes(t)) \in Nat
        /\ Shown(Minutes(s)) <= Shown(Minutes(t))
  BY <1>2, <1>3, <1>4
<1> QED
  BY <1>1, <1>5 DEF s, t

\* A command survives the wire, whatever its duration: the seconds that are written
\* are accepted again, and mean the same.
THEOREM RoundTrip ==
  ASSUME NEW command \in Commands
  PROVE  Parse(Serialize(command)) = command
<1> USE IndefiniteAssumption
<1>1. CASE command.verb \in Queries
  BY <1>1 DEF Commands, Serialize, Parse, Query, Queries, Key
<1>2. CASE command.verb = "START"
  <2> DEFINE word == IF command.duration = Indefinite THEN Key("indefinite")
                     ELSE [text |-> "s", value |-> command.duration]
             words == Serialize(command)
  <2>1. /\ command.duration \in Durations \cup {Indefinite} /\ command.display \in BOOLEAN
        /\ command = [verb |-> "START", duration |-> command.duration,
                      display |-> command.display]
    BY <1>2 DEF Commands, Queries
  <2>2. /\ words[1] = Key("START") /\ words[2] = word /\ words # <<>>
        /\ Len(words) = IF command.display THEN 3 ELSE 2
        /\ command.display => words[3] = Key("display")
    <3>1. words = <<Key("START"), word>> \o IF command.display THEN <<Key("display")>> ELSE <<>>
      BY <1>2 DEF Serialize
    <3>2. ASSUME NEW S, NEW a \in S, NEW b \in S, NEW c \in S, NEW d, d = <<a, b>> \o <<c>>
          PROVE  Len(d) = 3 /\ d[1] = a /\ d[2] = b /\ d[3] = c
      BY <3>2
    <3> HIDE DEF word, words
    <3>3. CASE command.display
      BY <3>1, <3>3, <3>2
    <3>4. CASE ~command.display
      BY <3>1, <3>4
    <3> QED
      BY <2>1, <3>3, <3>4
  <2>3. CASE command.duration = Indefinite
    <3>1. word = Key("indefinite")
      BY <2>3
    <3> HIDE DEF word, words
    <3>2. Parse(words) = command
      BY <2>1, <2>2, <2>3, <3>1 DEF Parse, ParseStart, Key, NoDuration
    <3> QED
      BY <3>2 DEF words
  <2>4. CASE command.duration \in Durations
    <3>1. command.duration \in Nat /\ command.duration # Indefinite
          /\ command.duration # NoDuration
      BY <2>4 DEF Durations, NoDuration
    <3>2. ParseSpec(word) = command.duration
      <4>1. "s" \in Units /\ Multiplier["s"] = 1
        BY DEF Units, Multiplier
      <4> QED
        BY <2>4, <3>1, <4>1, DurationsExact DEF ParseSpec
    <3>3. word.text = "s"
      BY <3>1
    <3> HIDE DEF word, words
    <3>4. Parse(words) = command
      BY <2>1, <2>2, <3>1, <3>2, <3>3 DEF Parse, ParseStart, Key
    <3> QED
      BY <3>4 DEF words
  <2> QED
    BY <2>1, <2>3, <2>4
<1> QED
  BY <1>1, <1>2 DEF Commands
=============================================================================
