-------------------------- MODULE MCExactDetector ---------------------------
EXTENDS ExactDetector, TLC

Sym == Permutations(Subgroups) \cup Permutations(Addresses)
SuccessAndFailure == {<<"acq_rel", "acquire">>, <<"release", "relaxed">>}
==============================================================================
