----------------------------- MODULE MCPayloads -----------------------------
(* Bodies for Payloads: every order of the fields, fields left out or given       *)
(* twice, arrays up to one item too long, modes around the edges of their masks. *)
EXTENDS Integers, Sequences

CONSTANTS MaxLayers, MaxMetrics, Null, NotNumber

Arrays(S, n) == UNION {[1..k -> S] : k \in 0..n}

Field(name, values) == {[name |-> name, value |-> v] : v \in values}

MCInterval == Field("interval", {0, 30, NotNumber})
MCSteps    == Field("decimation", Arrays({0, 2, 3, NotNumber}, MaxLayers + 1))
MCMetric   == {<<>>, <<[name |-> "label", value |-> NotNumber]>>}
              \union {<<f>> : f \in Field("pad_mode", {1, 7, 8, 127, 128, NotNumber})}
              \union {<<f, g>> : f \in Field("downsample_mode", {5, 15, 16, 32767, 32768, NotNumber}),
                                 g \in Field("pad_mode", {2, 127})}
MCMetrics  == Field("metrics", {<<>>} \union {<<m>> : m \in MCMetric}
                               \union {<<m, <<>> >> : m \in MCMetric} \union {<< <<>>, <<>>, <<>> >>})

MCFew == Field("metrics", {<< <<>> >>, <<>>})

MCNodeBodies ==
    {<<i, d, m>> : i \in MCInterval, d \in MCSteps, m \in MCFew}
    \union {<<m, d, i>> : i \in MCInterval, d \in Field("decimation", Arrays({0, 2}, MaxLayers)), m \in MCMetrics}
    \union {<<i, d, e, m>> : i \in Field("interval", {30}), d \in MCSteps,
                             e \in Field("decimation", Arrays({0, 3}, 1)), m \in Field("metrics", {<< <<>> >>})}
    \union {<<i>> : i \in MCInterval}

MCValues == Field("values", Arrays({1, Null, NotNumber}, MaxMetrics + 1))
MCTime   == Field("timestamp", {1999, 5000, 90000, NotNumber})

MCPostBodies ==
    {<<v>> : v \in MCValues} \union {<<t, v>> : t \in MCTime, v \in MCValues}
    \union {<<v, w>> : v \in MCValues, w \in Field("values", {<<>>, <<1>>, <<2, Null>>})}
    \union {<<v, t>> : t \in MCTime, v \in Field("label", {NotNumber})}
=============================================================================
