---------------------------- MODULE MCDiagnostics -----------------------------
EXTENDS Diagnostics

TwoTables == {"orders", "users"}
OneTypo == {"FORM"}
Semicolon == ";"
Twice == <<"users", ";", "users", ";", "orders">>
SomeTexts == {<<>>, <<"users">>, <<"orders", ";", "users">>,
              <<"orders", "users">>, <<"orders", "FORM">>,
              <<"FORM", ";", "users">>, Twice,
              <<"users", "users", ";", "orders">>}
OneText == {<<"orders", ";", "users">>}
TheTwice == {Twice}
JustOrders == [c \in {1, 2} |-> {"orders"}]
=============================================================================
