------------------------------- MODULE MCChecks -------------------------------
(***************************************************************************)
(* A command with two background children, or one for a target with up to  *)
(* three hosts, of which some repeat; texts of up to three lines; and one  *)
(* file, possibly configured twice, that two processes may hold.           *)
(***************************************************************************)
EXTENDS Checks

CONSTANTS c1, c2, h1, h2, h3, v1, v2, app, python   \* model values

SomeCodes == {-1, 0, 1, 255}

Targets == {<<>>, <<h1>>, <<h1, h1, h2>>, <<h1, h2, h1>>, <<h1, h2, h3>>}

Line(at, failure, success, value) ==
    [at |-> at, long |-> FALSE, failure |-> failure, success |-> success, value |-> value]

All == {"line", "message"}

SomeLines ==
    {Line(t, All, {}, v1) : t \in {0, 1, 2}} \cup {Line(t, {}, All, NoValue) : t \in {1, 2}}
    \cup {Line(1, {"line"}, All, v2), [Line(2, {"message"}, {}, NoValue) EXCEPT !.long = TRUE]}

SomeLogs == UNION {[1 .. m -> SomeLines] : m \in 0 .. 3}

SomeRules ==
    {[count |-> 0, distinct |-> 0, success |-> TRUE], [count |-> 2, distinct |-> 2, success |-> FALSE],
     [count |-> 2, distinct |-> 0, success |-> TRUE]}

SomeOutputs ==
    {[expected |-> "unset", forbidden |-> "unset"], [expected |-> "kept", forbidden |-> "cut"],
     [expected |-> "cut", forbidden |-> "nowhere"], [expected |-> "unset", forbidden |-> "kept"]}

Names == [c \in {app, python} |-> python]

OnceOrTwice == {<<"device">>, <<"device", "device">>}

=============================================================================
