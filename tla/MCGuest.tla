------------------------------ MODULE MCGuest ------------------------------
\* A routine with a frame and a tiny one, and four imports whose handlers ask
\* for words, for a long that straddles r10 and the stack, for a long and for
\* a word after a double, and for arguments beyond the eighth word.
EXTENDS Guest

MCSignature ==
    [words    |-> <<"word", "word">>,
     straddle |-> <<"word", "word", "word", "word", "word", "word", "word", "long">>,
     doubles  |-> <<"double", "word", "double", "long", "word">>,
     many     |-> <<"long", "double", "long", "word", "long", "word", "double">>]

=============================================================================
