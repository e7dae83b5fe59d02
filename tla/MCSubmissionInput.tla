------------------------- MODULE MCSubmissionInput -------------------------
(* SubmissionInput for TLC: one part of the request varies at a time, over *)
(* every way to write it.                                                  *)
EXTENDS SubmissionInput

Text(chars, length, units, nul, pad) ==
    [word |-> [chars |-> chars, length |-> length, units |-> units, nul |-> nul], pad |-> pad]

\* A header has one UTF-16 unit for each character, and no NUL.
Headers == {Text("", 0, 0, FALSE, pad) : pad \in 0 .. 1} \cup {Absent} \cup
    {Text(chars, length, length, FALSE, pad) :
        chars \in {"a", "b"}, length \in 1 .. MaxLength + 1, pad \in 0 .. 1}
Texts == Headers \cup
    {Text("emoji", length, 2 * length, FALSE, pad) : length \in 1 .. MaxLength, pad \in 0 .. 1}
    \cup {Text("nul", 1, 1, TRUE, 0)}

\* Doubles with a mantissa of three digits; in the middle between two the even
\* one is taken.
Nearest(value, unit) ==
    LET below == value \div unit
        rest == 2 * (value % unit)
    IN  IF rest < unit \/ (rest = unit /\ below % 2 = 0) THEN below * unit
        ELSE (below + 1) * unit
MCRounded ==
    [value \in 0 .. (IntegerLimit + 1) * Scale[3] |->
        Nearest(value, CASE value < 8 -> 1 [] value \in 8 .. 15 -> 2
                         [] value \in 16 .. 31 -> 4 [] OTHER -> 8)]

Amount(type, zeros, integer, places, fraction) ==
    [type |-> type, decimal |-> TRUE, zeros |-> zeros, integer |-> integer,
     places |-> places, fraction |-> fraction]

\* A number has no leading zeros. Both magnitudes are past the limit by one.
AmountsOf(places) ==
    {Amount("string", zeros, integer, places, fraction) :
        zeros \in 0 .. 1, integer \in 0 .. IntegerLimit,
        fraction \in 0 .. Scale[places] - 1}
    \cup {Amount("number", 0, integer, places, fraction) :
            integer \in 0 .. IntegerLimit, fraction \in 0 .. Scale[places] - 1}

\* Not a decimal: -1.00, 1e2, NaN, 1. and the like.
NotDecimal == [type |-> "string", decimal |-> FALSE, zeros |-> 0, integer |-> 1,
               places |-> 0, fraction |-> 0]
Amounts == UNION {AmountsOf(places) : places \in DOMAIN Scale} \cup {NotDecimal, Absent}

Plain ==
    [key |-> Text("k", 1, 1, FALSE, 0), correlationId |-> Absent, unknown |-> FALSE,
     texts |-> [f \in Fields |-> Text("a", 1, 1, FALSE, 0)], amount |-> Amount("string", 0, 1, 0, 0)]

MCRequests ==
    {[Plain EXCEPT !.amount = a] : a \in Amounts}
    \cup {[Plain EXCEPT !.texts[f] = t] : f \in Fields, t \in Texts}
    \cup {[Plain EXCEPT !.key = t] : t \in Headers}
    \cup {[Plain EXCEPT !.correlationId = t] : t \in Headers}
    \cup {[Plain EXCEPT !.unknown = TRUE]}
=============================================================================
