-------------------------- MODULE MCHistBarGetter --------------------------
(* Periods that are cut into no chunk, into one, and into two of different *)
(* kinds; the three branches of the cutting are each taken.                *)
EXTENDS HistBarGetter

CONSTANTS sony, toyota

BothSymbols == {sony, toyota}

Nothing   == <<0, 0>>
Minute    == <<86400, 86400 + 65>>
ThreeDays == <<0, 3 * 86400>>

\* At most one of the symbols needs a second chunk.  Of two ways to ask that
\* only differ in which symbol is which, there is one.
SomePeriods ==
    {asked \in [BothSymbols -> {Nothing, Minute, ThreeDays}] :
        /\ asked[toyota] # ThreeDays
        /\ asked[toyota] = Minute => asked[sony] # Nothing}
OnePeriod   == [BothSymbols -> {Minute}]
=============================================================================
