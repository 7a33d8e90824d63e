------------------------------ MODULE MCArchive ------------------------------
EXTENDS Archive

\* destinationDir as "d", "d/" and "./d".
MCDests == {<<"d">>, <<"d", "">>, <<".", "d">>}

\* Entry names of one or two of: a name inside, "..", and a sibling of
\* the destination whose name starts with "d".
MCNames == BoundedSeq({"a", "..", "d2"}, 2) \ {<<>>}

MCTargets == {<<"..">>}

MCNamePrefixPairs == {<<"d", "d2">>}
==============================================================================
