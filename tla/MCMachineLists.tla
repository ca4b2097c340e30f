--------------------------- MODULE MCMachineLists ---------------------------
EXTENDS MachineLists

\* The parameters of the two routes that have any.
MCKeys == {<<"variant", "id">>, <<"current", "limit">>}
=============================================================================
