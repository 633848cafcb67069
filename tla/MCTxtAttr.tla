----------------------------- MODULE MCTxtAttr ------------------------------
(* Model-checking instance of TxtAttr: keys "l" (lockid) and "t"           *)
(* (timestamp), values of up to two characters from a digit, a letter and  *)
(* '='.                                                                    *)
EXTENDS TxtAttr

MCQ == "\""
MCEQ == "="
MCDigits == {"d"}
MCValueChars == {"d", "v", "="}
MCLockIdKey == <<"l">>
MCTimestampKey == <<"t">>
MCKeys == {MCLockIdKey, MCTimestampKey}
MCUnnamed == <<<<"_", "0">>, <<"_", "1">>, <<"_", "2">>>>

\* "d" is the digit 1: "d" = 1, "dd" = 11
MCDigitValue == [c \in MCDigits |-> 1]
MCOwnIds == {<<"d">>, <<"v">>}
MCOwnTimestamps == {1, 2}

\* Only the lock's own strings
MCNoForeign == {<<>>}

\* Or first a string that is the lock id prefix without value and closing
\* quote, or one with an empty value
MCForeign == {<<>>, <<<<"\"", "l", "=">>>>, <<<<"\"", "l", "=", "\"">>>>}

=============================================================================
