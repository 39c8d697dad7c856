---------------------------- MODULE MCExecution ----------------------------
EXTENDS DryRun

AB == <<"a", "b">>
MCLists == (0 :> AB) @@ (1 :> <<"b">>)

Pipeline(kind, reads, parts) == [kind |-> kind, reads |-> reads, parts |-> parts]
Of(m)  == <<m, "direct">>
All(m) == <<m, "collect">>
Assets(n) == [i \in 1 .. n |-> "asset"]
Whole(n)  == [i \in 1 .. n |-> NoParts]

\* A sensor, its reader, and a reader of both.
Observed == Pipeline(<<"sensor", "asset", "asset">>, <<{}, {Of(1)}, {Of(1), Of(2)}>>, Whole(3))
\* Two targets with nothing in common but the task behind them.
Deploy == Pipeline(<<"asset", "asset", "task">>, <<{}, {}, {Of(1), Of(2)}>>, Whole(3))
\* Two ways from one asset to another.
Diamond == Pipeline(Assets(4), <<{}, {Of(1)}, {Of(1)}, {Of(2), Of(3)}>>, Whole(4))
\* Partitions, a key-by-key reader and a fan-in of each.
Aligned == Pipeline(Assets(3), <<{}, {}, {All(2)}>>, <<Static(AB), DerivedFrom(1), NoParts>>)
FanIn   == Pipeline(Assets(3), <<{}, {}, {All(1)}>>, <<Static(AB), DerivedFrom(1), NoParts>>)
\* One input whole to every key, then a fan-in.
Multiplied == Pipeline(<<"asset", "asset", "task">>, <<{}, {Of(1)}, {All(2)}>>,
                       <<NoParts, Static(AB), NoParts>>)
Measured == Pipeline(<<"sensor", "asset", "asset">>, <<{}, {Of(1)}, {All(2)}>>,
                     <<NoParts, Static(AB), NoParts>>)
\* Keys from a list that depends on a sensor, and a fan-in of listed keys.
Listed  == Pipeline(<<"sensor", "asset", "asset">>, <<{}, {Of(1)}, {}>>,
                    <<NoParts, NoParts, DerivedFrom(2)>>)
Dynamic == Pipeline(Assets(3), <<{}, {}, {All(2)}>>, <<NoParts, DerivedFrom(1), NoParts>>)
\* Listed keys handed on.
Handed == Pipeline(Assets(3), <<{}, {}, {}>>, <<NoParts, DerivedFrom(1), DerivedFrom(2)>>)

MCPipelines == {Observed, Deploy, Diamond, Aligned, FanIn, Multiplied, Measured,
                Listed, Dynamic, Handed}

\* For the departures: a fan-in alone with its partitions, and declared keys
\* that read listed keys.
OnlyFanIn == {Pipeline(Assets(2), <<{}, {All(1)}>>, <<Static(AB), NoParts>>)}
Mixed     == {Pipeline(Assets(3), <<{}, {}, {Of(2)}>>, <<NoParts, DerivedFrom(1), Static(AB)>>)}
HandedOn  == {Handed}
MCLongLists == (0 :> <<"a", "b", "c">>) @@ (1 :> <<"a", "b", "c", "d">>)
=============================================================================
