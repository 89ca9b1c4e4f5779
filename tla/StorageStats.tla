---------------------------- MODULE StorageStats ----------------------------
(***************************************************************************)
(* The status page's figures: the lines of VictoriaLogs' /metrics that can *)
(* be read and are wanted (promtext.go), folded into one answer            *)
(* (storage.go).                                                           *)
(*                                                                         *)
(* A line is [gauge, label, v, fits]: the name, the value of the one label *)
(* that matters for it, unquoted, the number in halves, and whether the    *)
(* line can be read: it parses and is not longer than maxMetricsLine.  A   *)
(* label's value is in two parts, since CutPrefix looks for one: "under"   *)
(* is the "storage/" or the "indexdb/" that it begins with, and "name" is  *)
(* the rest; a gauge without the label has NoLabel.                        *)
(*                                                                         *)
(* A page ends before maxMetricsBody and its numbers are finite and within *)
(* an int64.  The order of the tiers and the paths on the page is left     *)
(* out: both are functions here.                                           *)
(***************************************************************************)
EXTENDS Integers, Sequences, FiniteSets, SequencesExt, FiniteSetsExt

TierGauges == {"compressed", "uncompressed", "rows", "parts"}
PathGauges == {"free", "total", "max_usage", "read_only"}
Wanted     == TierGauges \cup PathGauges \cup {"data", "partitions", "flag"}

Labels       == [under : {"", "storage/", "indexdb/"}, name : STRING]
Plain(name)  == [under |-> "", name |-> name]
NoLabel      == Plain("")
OfTier(name) == [under |-> "storage/", name |-> name]

\* What a page of metrics is: a gauge that has no label that matters has none.
LinesTyped(lines) ==
    /\ lines \in Seq({lines[i] : i \in DOMAIN lines})
    /\ \A i \in DOMAIN lines : /\ lines[i].v \in Int /\ lines[i].label \in Labels
                               /\ lines[i].gauge = "partitions" => lines[i].label = NoLabel

\* Bug: what comes after the slash is a tier, whatever comes before it.
IsTierAnySlash(label) == label.under # ""

\* summarise's tier: the index has the same gauges under labels of its own.
\* Any name is a tier's, an empty one too.
IsTier(label) == label.under = "storage/"

\* parseSamples keeps it.
Kept(line) == line.fits /\ line.gauge \in Wanted

\* int64 of a float, which cuts the fraction off.
Int64(v) == IF v >= 0 THEN v \div 2 ELSE -((-v) \div 2)

\* What becomes of a number in the answer.
Figure(gauge, v) == IF gauge = "read_only" THEN v # 0 ELSE Int64(v)

\* m[key][gauge] := v, where an entry begins with zeros.
Put(m, key, gauges, gauge, v) ==
    [k \in DOMAIN m \cup {key} |->
        LET old == IF k \in DOMAIN m THEN m[k] ELSE [g \in gauges |-> Figure(g, 0)]
        IN IF k = key THEN [old EXCEPT ![gauge] = v] ELSE old]

Nothing == [found |-> FALSE, data |-> 0, indexdb |-> 0, partitions |-> 0, flag |-> 0,
            tiers |-> << >>, paths |-> << >>]

\* One turn of summarise's loop.  The value of a flag is the text of a label.
Take(out, s) ==
    LET v == Figure(s.gauge, s.v) IN
    CASE s.gauge = "data" ->
            [out EXCEPT !.found = TRUE,
                        !.data    = IF s.label = Plain("storage") THEN v ELSE @,
                        !.indexdb = IF s.label = Plain("indexdb") THEN v ELSE @]
      [] s.gauge \in TierGauges /\ IsTier(s.label) ->
            [out EXCEPT !.found = TRUE,
                        !.tiers = Put(@, s.label.name, TierGauges, s.gauge, v)]
      [] s.gauge = "partitions" -> [out EXCEPT !.found = TRUE, !.partitions = v]
      [] s.gauge \in PathGauges /\ s.label # NoLabel ->
            [out EXCEPT !.paths = Put(@, s.label, PathGauges, s.gauge, v)]
      [] s.gauge = "flag" /\ s.label = Plain("retentionPeriod") -> [out EXCEPT !.flag = s.v]
      [] OTHER -> out

\* parseSamples and that loop.
Gathered(lines) ==
    LET after[i \in 0..Len(lines)] ==
            IF i = 0 THEN Nothing
            ELSE IF Kept(lines[i]) THEN Take(after[i - 1], lines[i]) ELSE after[i - 1]
    IN after[Len(lines)]

\* The rest of summarise: the sums over all tiers.
Summarise(lines) ==
    LET out == Gathered(lines)
    IN [found |-> out.found, data |-> out.data, indexdb |-> out.indexdb,
        partitions |-> out.partitions, flag |-> out.flag,
        tiers |-> out.tiers, paths |-> out.paths,
        sums  |-> [g \in TierGauges |-> SumFunction([t \in DOMAIN out.tiers |-> out.tiers[t][g]])]]

-----------------------------------------------------------------------------
(* What VictoriaLogs said, read directly.                                  *)

\* The last readable number of a gauge under a label, 0 if there is none.
Said(lines, gauge, label) ==
    LET at == {i \in DOMAIN lines : /\ lines[i].fits /\ lines[i].gauge = gauge
                                    /\ lines[i].label = label}
    IN IF at = {} THEN 0 ELSE lines[Max(at)].v

\* The labels of the readable lines that have some gauge.
LabelsOf(lines, gauges) ==
    {lines[i].label : i \in {k \in DOMAIN lines : lines[k].fits /\ lines[k].gauge \in gauges}}

TiersOf(lines) == {l.name : l \in {k \in LabelsOf(lines, TierGauges) : k.under = "storage/"}}
PathsOf(lines) == LabelsOf(lines, PathGauges) \ {NoLabel}

\* A line that only a VictoriaLogs with a storage of its own writes.
OfStorage(line) ==
    /\ line.fits
    /\ line.gauge \in {"data", "partitions"} \/
        (line.gauge \in TierGauges /\ line.label.under = "storage/")

\* An answer that leaves nothing out, makes nothing up and counts nothing twice.
Faithful(lines, out) ==
    /\ out.data = Int64(Said(lines, "data", Plain("storage")))
    /\ out.indexdb = Int64(Said(lines, "data", Plain("indexdb")))
    /\ out.partitions = Int64(Said(lines, "partitions", NoLabel))
    /\ out.flag = Said(lines, "flag", Plain("retentionPeriod"))
    /\ DOMAIN out.tiers = TiersOf(lines) /\ DOMAIN out.paths = PathsOf(lines)
    /\ \A t \in TiersOf(lines), g \in TierGauges :
        out.tiers[t][g] = Int64(Said(lines, g, OfTier(t)))
    /\ \A g \in TierGauges :
        out.sums[g] = SumFunction([t \in TiersOf(lines) |-> Int64(Said(lines, g, OfTier(t)))])
    /\ \A l \in PathsOf(lines), g \in PathGauges :
        out.paths[l][g] = IF g = "read_only" THEN Said(lines, g, l) # 0
                          ELSE Int64(Said(lines, g, l))
=============================================================================
