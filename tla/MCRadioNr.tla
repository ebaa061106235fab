------------------------------ MODULE MCRadioNr ------------------------------
(* Instances of RadioNr for TLC.                                           *)
EXTENDS RadioNr

\* A RAR for one UE, one that starts with a backoff indicator, one unreadable.
SmallRars == {<<1>>, <<2, 1>>, <<NoRnti, 2>>, <<>>}

\* No cell on the air, or one at a valid and one at a skipped point.
NoneOrTwo == {{}, {3, 4}}
=============================================================================
