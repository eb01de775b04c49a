----------------------------- MODULE MC_IncLink -----------------------------
\* Two commands that share headers, one of which "two" includes by a macro. "x" of
\* openssl and "s" of boringssl lie beside others, so that each is linked unasked as well.
EXTENDS IncLink

TwoOrders == [c \in Commands |-> IF c = "one" THEN <<"a", "b", "s">> ELSE <<"b", "a", "x">>]
Macros == {<<"two", "b">>}
TwoDirs == [h \in Header |-> IF h \in {"a", "x"} THEN "net" ELSE "ssl"]
=============================================================================
