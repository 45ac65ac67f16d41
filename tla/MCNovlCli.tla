------------------------------ MODULE MCNovlCli ------------------------------
(***************************************************************************)
(* Command lines for TLC: every sequence of up to three options, and longer *)
(* ones of the options that interact.                                      *)
(***************************************************************************)
EXTENDS NovlCliProperties

Plain(letter) == [letter |-> letter, value |-> 0]
A(value)      == [letter |-> "A", value |-> value]

AllOptions == {Plain(l) : l \in Letters \ {"A"}} \cup {A(768), A(784), A(NotHex)}
              \cup {[letter |-> "o", value |-> 784]}

(* What a conversion needs, what may replace its mode, what messages depend on. *)
Interacting == {Plain("c"), Plain("d"), Plain("o"), A(768), A(NotHex),
                Plain("v"), Plain("s"), Plain("g")}

UpTo(Menu, n) == UNION {[1 .. m -> Menu] : m \in 0 .. n}

Calls ==
    [options : UpTo(AllOptions, 3), files : 0 .. 2]
    \cup [options : [1 .. 4 -> Interacting], files : 1 .. 2]

=============================================================================
