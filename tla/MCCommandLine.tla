--------------------------- MODULE MCCommandLine ---------------------------
(* CommandLine with a few command lines and messages, for TLC. *)
EXTENDS CommandLine, TLC

Number(value, unit) == [text |-> unit, value |-> value]

\* The boundaries: nothing, 365 days and one more of each unit, what does not fit a
\* product or a number, and a number without a suffix.
Specs == {Number(0, "m"), Number(1, "bare"), Number(366, "d"), Number(365, "d"),
          Number(31536000, "s"), Number(1000, "d"), Number(40000001, "s"), Key("junk"),
          Omitted}
Invocations == [verb : {"START"}, spec : Specs, display : {FALSE}]
  \cup {[verb |-> "START", spec |-> Number(8760, "h"), display |-> TRUE],
        [verb |-> "TOGGLE", spec |-> Omitted, display |-> FALSE],
        [verb |-> "STATUS", spec |-> Omitted, display |-> FALSE]}

\* A line that fits, one that does not, one that never ends, and words in disorder.
Others == {[words |-> <<Key("STOP")>>, newline |-> 1, size |-> 2],
           [words |-> <<Key("STOP")>>, newline |-> 4, size |-> 4],
           [words |-> <<Key("STOP")>>, newline |-> 0, size |-> 5],
           [words |-> <<Key("START"), Key("display"), Number(2, "h")>>, newline |-> 3, size |-> 3]}

Symmetry == Permutations(Clients)
=============================================================================
