------------------------------ MODULE MCOpening -------------------------------
(***************************************************************************)
(* Opening for TLC: a release behind and two processes of the latest one.  *)
(***************************************************************************)
EXTENDS Opening

CONSTANTS old, new1, new2

MCScripts == [p \in Procs |-> IF p = old THEN 2 ELSE 3]

\* Nothing yet; signals of two days that follow each other, a block in force and one
\* that is over; a row the upgrade cannot read.
MCFiles ==
    {{},
     {<<"metering", 1>>, <<"ecowatt", 1>>, <<"ecowatt", 2>>,
      <<"block", 1>>, <<"block", 2>>, <<"sync_run", 1>>},
     {<<"metering", 2>>, <<"ecowatt", 2>>},
     {<<"metering", 1>>, <<"ecowatt", 1>>, <<"ecowatt", 2>>, <<"block", 2>>}}

MCUnreadable == {<<"metering", 2>>}
===============================================================================
