-------------------------------- MODULE Json --------------------------------
(***************************************************************************)
(* What src/util/json.rs makes of JSON values, and the request body of     *)
(* examples/basic.rs that is read with it.  An Option is a sequence of at  *)
(* most one element.  A string is the text of a value, or no value's.      *)
(***************************************************************************)
EXTENDS Integers, Sequences

Null == [json |-> "null"]
Absent == [json |-> "absent"]               \* a field that is not there
Text(v) == [json |-> "string", of |-> <<v>>]
Empty == [json |-> "string", of |-> <<>>]
Junk == [json |-> "junk"]                   \* a string that is no value's text
Raw(v) == [json |-> "raw", of |-> <<v>>]    \* true, 3: JSON's own form

Ok(v) == [ok |-> TRUE, value |-> v]
Err == [ok |-> FALSE, value |-> <<>>]

-----------------------------------------------------------------------------
(* StupidValue: written as a string, read from a string or from the value. *)

WriteStupid(v) == Text(v)

\* The untagged enum, then str::parse; a field that is missing takes the
\* default, one that is null does not.
ReadStupid(j, default) ==
    IF j.json \in {"string", "raw"} /\ j # Empty THEN Ok(j.of[1])
    ELSE IF j = Absent THEN Ok(default)
    ELSE Err

-----------------------------------------------------------------------------
(* Dates: minutes, seconds (60 in a leap second) and a fraction of one.    *)

\* The format has seconds and no fractions.
Printed(d) == [min |-> d.min, sec |-> d.sec]

WriteDate(d) == Text(Printed(d))

ReadDate(j) ==
    IF j.json = "string" /\ j # Empty
    THEN Ok([min |-> j.of[1].min, sec |-> j.of[1].sec, frac |-> 0])
    ELSE Err

WriteDateOption(o) == IF o = <<>> THEN Null ELSE WriteDate(o[1])

\* With the attribute `default`, a missing field is None.
ReadDateOption(j) ==
    IF j \in {Null, Absent} THEN Ok(<<>>)
    ELSE IF ReadDate(j).ok THEN Ok(<<ReadDate(j).value>>)
    ELSE Err

-----------------------------------------------------------------------------
\* DataRequest: startTime, endTime and distinctCode.
ReadRequest(o) ==
    LET start == ReadDateOption(o.start)
        end == ReadDateOption(o.end)
        distinct == ReadStupid(o.distinct, FALSE)
    IN  IF start.ok /\ end.ok /\ distinct.ok
        THEN Ok([start |-> start.value, end |-> end.value, distinct |-> distinct.value])
        ELSE Err

\* How a client may write an optional date, and a flag.
DateSpellings(o) == IF o = <<>> THEN {Null, Absent} ELSE {WriteDateOption(o)}
FlagSpellings(b) == {Raw(b), Text(b), WriteStupid(b)} \cup IF b THEN {} ELSE {Absent}
=============================================================================
