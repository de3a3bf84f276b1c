----------------------------- MODULE MCRecurring -----------------------------
(***************************************************************************)
(* Recurring over a calendar of four years from January 2026.              *)
(***************************************************************************)
EXTENDS Recurring

CONSTANTS p1, p2

TwoProcesses == {p1, p2}
\* A line for each year; 2028 has a 29th of February.
MCYears == 4
MCFirstDay ==
  <<0, 31, 59, 90, 120, 151, 181, 212, 243, 273, 304, 334,
    365, 396, 424, 455, 485, 516, 546, 577, 608, 638, 669, 699,
    730, 761, 790, 821, 851, 882, 912, 943, 974, 1004, 1035, 1065,
    1096, 1127, 1155, 1186, 1216, 1247, 1277, 1308, 1339, 1369, 1400, 1430, 1461>>
Thursday == 4

Daily == [type |-> "daily"]
Weekly(days) == [type |-> "weekly", weekdays |-> days]
Monthly(day) == [type |-> "monthly", day |-> day]
Quarterly(month, day) == [type |-> "interval", month |-> month, day |-> day, months |-> 3]
Yearly(month, day) == [type |-> "interval", month |-> month, day |-> day, months |-> 12]

\* Schedules that the calendar fits, and ones that it does not: one weekday, a day that some
\* months lack, intervals counted from late in the year.
MCChoices == {{Daily}, {Weekly({2, 5}), Monthly(1)}, {Quarterly(3, 30)}, {Yearly(1, 1)},
              {Weekly({2})}, {Monthly(31)}, {Quarterly(1, 31)}, {Quarterly(10, 1)}}
MCSchedules == UNION MCChoices
\* From the evenings of the 30th of January, of the 29th of June, a Monday, and of the 31st of
\* December.
MCStarts == {59, 359, 729}
MCEnds == {61, 362, 732}
==============================================================================
