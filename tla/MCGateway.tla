----------------------------- MODULE MCGateway -----------------------------
EXTENDS Gateway

CONSTANTS s1, s2, other, on, off

P(n, v) == [name |-> n, value |-> v]

\* One switch on or off; two switches; both with a name in between that is not in
\* the list; a parameter that is no number.
MCParams ==
  {<<P(s1, on)>>, <<P(s1, off)>>, <<P(s1, on), P(s2, on)>>,
   <<P(s2, off), P(other, on), P(s1, NoNumber)>>, <<>>}

=============================================================================
