--------------------------- MODULE MCFetchRetry ---------------------------
(* FetchRetry with 8-bit durations of 4 units to a second: headers of 31     *)
(* and of -62 seconds, and the seventh back-off, do not fit.                 *)
EXTENDS FetchRetry

TwoMaximums == {0, 40}
OneMaximum == {40}
DelaysRead == {-1, 0, 60}
SecondsRead == {-62, -1, 5, 9, 10, 31, 62}
DatesRead == {-4, 8, 50}
=============================================================================
