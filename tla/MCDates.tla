------------------------------ MODULE MCDates ------------------------------
(* 2027, which began on a Friday, and 2028, a leap year. *)
EXTENDS Dates

On(k, d) == [month |-> k, day |-> d]

MCStarts == {On(0, 30), On(11, 31)}
MCRecs == {[unit |-> "day", every |-> 5], [unit |-> "week", every |-> 2],
           [unit |-> "month", every |-> 1], [unit |-> "month", every |-> 13]}
MCTodays == {On(0, 29), On(0, 31)}
=============================================================================
