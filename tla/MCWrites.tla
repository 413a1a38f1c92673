--------------------------------- MODULE MCWrites ---------------------------------
\* Writes for TLC: a media server and a webhook, without or with a token; the requests are
\* interchangeable.
EXTENDS Writes, TLC

Databases == {<< <<"media", "set">>, <<"webhook", "none">> >>,
              << <<"webhook", "set">>, <<"media", "set">> >>}

Symmetry == Permutations(Request)
=============================================================================
