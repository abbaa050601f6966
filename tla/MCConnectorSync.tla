--------------------------- MODULE MCConnectorSync ---------------------------
(* Instances of ConnectorSync for TLC *)
EXTENDS ConnectorSync

CONSTANTS u1, on

\* The connector that may be there from before generations
LegacyRecord == {<<u1, on>>}
\* One resource on each page
OnePerPage == {<<page, 1>> : page \in 1 .. Pages}
Slots == Routes \cup Workers

=============================================================================
