--------------------------- MODULE MC_ServeStartup ---------------------------
EXTENDS ServeStartup

\* The three hook kinds of serve.go lines 101-115.
MC_Hooks == {"filter", "count", "event"}

=============================================================================
