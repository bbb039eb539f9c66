------------------------------ MODULE MCAnswers -------------------------------
(***************************************************************************)
(* Answers for TLC: days of three hours of three ticks (two and four when  *)
(* the clocks change), the second hour skipped or repeated.                *)
(***************************************************************************)
EXTENDS Answers

\* Within the day; over midnight; two ranges, one of them off the coarser grids; hours
\* written past the day; minutes no clock shows; an empty range.
MCTariffs ==
    {{[from |-> <<0, 0>>, to |-> <<1, 0>>]},
     {[from |-> <<2, 0>>, to |-> <<1, 0>>]},
     {[from |-> <<0, 1>>, to |-> <<0, 2>>], [from |-> <<4, 0>>, to |-> <<2, 0>>]},
     {[from |-> <<0, 3>>, to |-> <<1, 0>>]},
     {[from |-> <<0, 0>>, to |-> <<3, 0>>]},
     {}}
===============================================================================
