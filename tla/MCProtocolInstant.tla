------------------------- MODULE MCProtocolInstant -------------------------
(***************************************************************************)
(* A clock a few steps around the ends of hours, days, months and years,   *)
(* at offsets whose sign, hour or day is about to change.                  *)
(***************************************************************************)
EXTENDS ProtocolInstant, FiniteSets

Stamp(y, m, d, h, offset) ==
  [year |-> y, month |-> m, day |-> d, hour |-> h, minute |-> 59,
   second |-> 59, fraction |-> <<>>, offset |-> offset]

\* Days from 0001-01-01 to a year's first day, counted leap day by leap day.
DaysBefore(y) ==
  365 * (y - 1) + Cardinality({x \in 1..(y - 1) : HasLeapDay(x)})

Signed(sign, h, m) == [sign |-> sign, hour |-> h, minute |-> m]

\* 1970-01-01 is the 719162nd day after 0001-01-01.
Counted(y, days, seconds) ==
  (DaysBefore(y) - 719162 + days) * 86400 + seconds

\* The ends of February in years that are leap and that are not, the ends of
\* a year and of 1969.
MCEdges ==
  {[stamp |-> Stamp(2000, 2, 28, 22, Zulu), second |-> Counted(2000, 58, 82799)],
   [stamp |-> Stamp(2001, 2, 28, 23, Signed(-1, 23, 0)),
    second |-> Counted(2001, 58, 86399 + 82800)],
   [stamp |-> Stamp(1999, 12, 31, 23, Signed(-1, 1, 0)),
    second |-> Counted(1999, 364, 86399 + 3600)],
   [stamp |-> Stamp(1969, 12, 31, 23, Signed(1, 0, 59)),
    second |-> Counted(1969, 364, 86399 - 3540)],
   [stamp |-> Stamp(2024, 2, 29, 23, Signed(-1, 2, 0)),
    second |-> Counted(2024, 59, 86399 + 7200)]}
=============================================================================
