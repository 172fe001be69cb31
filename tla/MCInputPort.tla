---------------------------- MODULE MCInputPort ----------------------------
\* Every input of up to four characters over a digit that is also an octal prefix,
\* one that is no octal digit, the minus sign and a separator.
EXTENDS InputPort

Sequences4 == UNION {[1 .. n -> {0, 8, Minus, Sep}] : n \in 0 .. 4}

SeparateNumbers == {s \in Sequences4 : ~Glued(s)}

MCWordMin == -80

=============================================================================
