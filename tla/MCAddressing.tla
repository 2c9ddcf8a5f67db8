----------------------------- MODULE MCAddressing -----------------------------
\* Texts of up to six letters; ~ is /, /a or /a/a.
EXTENDS Addressing

Homes == {<<>>, <<<<"a">>>>, <<<<"a">>, <<"a">>>>}
===============================================================================
