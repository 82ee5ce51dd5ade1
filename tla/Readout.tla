------------------------------- MODULE Readout -------------------------------
(***************************************************************************)
(* The results of a run: the application asks for the data that the PSLs   *)
(* deliver (ModuleRunData, SaturnRunData, UdxpRunData), in any order, while *)
(* the board counts, runs end and begin, the lengths of spectra are set    *)
(* and another firmware is loaded.                                         *)
(***************************************************************************)
EXTENDS ModuleRunData, SaturnRunData, UdxpRunData

VARIABLES k,      \* the board
          last,   \* the last call: [op, chan, ok, got, clean, settled]
          told,   \* the length answered for each channel; None: not asked since
          seen,   \* the instant of the first data read from the snapshot, or None
          moved,  \* what of a Saturn's spectrum changed behind the defaults:
                  \* its "length", its "start"
          calls   \* how many there were

vars == <<k, last, told, seen, moved, calls>>

-----------------------------------------------------------------------------
(* What sets the length of a spectrum. *)

\* Mutant: what is kept is what was asked for, not whole blocks.
MutSetNumMCAChans(b, c) ==
    LET bins == b.value - (b.value % Block) IN
    IF bins > MaxBins \/ bins = 0 THEN Refused(b)
    ELSE Then(Parameter(b), LAMBDA l :
              SetParameter(l, c, "MCALIMHI", l.par[c]["MCALIMLO"] + bins))

\* psl__SetNumMCAChans: whole blocks.
XmapSetNumMCAChans(b, c) ==
    LET bins == b.value - (b.value % Block) IN
    IF bins > MaxBins \/ bins = 0 THEN Refused(b)
    ELSE Then(Parameter([b EXCEPT !.value = bins]), LAMBDA l :
              SetParameter(l, c, "MCALIMHI", l.par[c]["MCALIMLO"] + bins))
MercurySetNumMCAChans(b, c) == XmapSetNumMCAChans(b, c)
StjSetNumMCAChans(b, c) ==
    XmapSetNumMCAChans([b EXCEPT !.value = IF @ > MaxBins THEN MaxBins
                                           ELSE IF @ < Block THEN Block ELSE @], c)
SaturnDoNumMCAChannels(b, c) ==
    LET hi == b.value + b.par[c]["MCALIMLO"] IN
    Then(Parameter(b), LAMBDA l :
         IF b.value = 0 \/ hi > MaxBins THEN Refused(l)
         ELSE Then(SetParameter(l, c, "MCALIMHI", hi), LAMBDA a :
                   Done(PslSetDefault(a, c, "number_mca_channels", b.value))))

\* The low limit leaves the number of channels the host goes by.
SaturnDoMCALowLimit(b, c) ==
    Then(Parameter(b), LAMBDA l :
         IF b.value > l.par[c]["MCALIMHI"] - 1 THEN Refused(l)
         ELSE SetParameter(l, c, "MCALIMLO", b.value))

SetNumMCAChans(b, c) ==
    CASE b.product = "xmap" -> XmapSetNumMCAChans(b, c)
      [] b.product = "mercury" -> MercurySetNumMCAChans(b, c)
      [] b.product = "stj" -> StjSetNumMCAChans(b, c)
      [] b.product = "saturn" -> SaturnDoNumMCAChannels(b, c)

-----------------------------------------------------------------------------
(* Calls. *)

Big == {"xmap", "mercury", "stj"}
Counters == {"realtime", "trigger_livetime", "energy_livetime", "triggers", "mca_events",
             "total_output_events", "input_count_rate", "output_count_rate"}
ScaNames == {"max_sca_length", "sca_length", "sca"}
BaselineNames == {"baseline_length", "baseline"}
GatedNames == {"mca_gated", "module_statistics_gated", "realtime_gated", "livetime_gated",
               "triggers_gated", "events_in_run_gated", "input_count_rate_gated",
               "output_count_rate_gated"}
Names(b) ==
    Counters \cup {"mca_length", "mca", "module_statistics_2", "run_active", "unknown"} \cup
    (IF b.product = "stj" THEN {} ELSE ScaNames \cup BaselineNames) \cup
    (IF b.product = "udxp" THEN GatedNames \cup {"all_statistics"}
     ELSE {"module_statistics", "underflows", "overflows"}) \cup
    (IF b.product \in Big
     THEN {"module_mca", "buffer_len", "list_buffer_len_a", "list_buffer_len_b"} ELSE {})
SnapshotNames == {"snapshot_mca", "snapshot_statistics", "snapshot_sca"}
SpecialNames ==
    SnapshotNames \cup {"snapshot_mca_length", "snapshot_statistics_length",
                       "snapshot_sca_length", "unknown"}

GetData(b, c, n) ==
    CASE b.product = "xmap" -> XmapGetRunData(b, c, n)
      [] b.product = "mercury" -> MercuryGetRunData(b, c, n)
      [] b.product = "stj" -> StjGetRunData(b, c, n)
      [] b.product = "saturn" -> SaturnGetRunData(b, c, n)
      [] b.product = "udxp" -> UdxpGetRunData(b, c, n)

\* xiaGetParamData
GetParamValues(b, c) ==
    CASE b.product = "xmap" -> XmapGetParamValues(b, c)
      [] b.product = "mercury" -> MercuryGetParamValues(b, c)
      [] b.product = "stj" -> StjGetParamValues(b, c)
      [] b.product = "saturn" -> SaturnGetParamData(b, c)
      [] b.product = "udxp" -> UdxpGetParamValues(b, c)

\* The length a run's spectrum has.
RunLength(b, c) == IF b.product = "udxp" THEN b.par[c]["MCALEN"] ELSE Length(b, c)

Instants(got) == {w.at : w \in UNION {got[i] : i \in DOMAIN got}}

\* The lengths are those the run started with.
Settled == \A c \in Chans(k) : RunLength(k, c) = k.laid[c]

NoAnswer == [op |-> "none", chan |-> 1, ok |-> TRUE, got |-> <<>>, clean |-> TRUE,
             settled |-> TRUE]

\* The application may make a call, and a run may start or end.
Idle == last = NoAnswer /\ calls < MaxCalls

\* What the call leaves of the board, and what the application knows of it.
Call(op, c, o) ==
    /\ calls' = calls + 1
    /\ k' = [o.m EXCEPT !.words = <<>>, !.got = <<>>, !.value = 0, !.speed = 0]
    /\ last' = [op |-> op, chan |-> c, ok |-> o.ok, got |-> IF o.ok THEN o.m.got ELSE <<>>,
                clean |-> o.m.budget = k.budget, settled |-> Settled]

GetRunData ==
    /\ Idle
    /\ \E c \in Chans(k), n \in Names(k) : \E o \in GetData([k EXCEPT !.got = <<>>], c, n) :
        /\ Call(n, c, o)
        /\ told' = IF o.ok /\ n = "mca_length"
                   THEN [told EXCEPT ![c] = (CHOOSE w \in o.m.got[1] : TRUE).bin] ELSE told
        /\ UNCHANGED <<seen, moved>>

GetParamData ==
    /\ Idle
    /\ \E c \in Chans(k) : \E o \in GetParamValues([k EXCEPT !.got = <<>>], c) :
        /\ Call("values", c, o)
        /\ UNCHANGED <<told, seen, moved>>

GetSpecialRunData ==
    /\ Idle /\ k.product = "udxp"
    /\ \E c \in Chans(k), n \in SpecialNames :
       \E o \in UdxpGetSpecialRunData([k EXCEPT !.got = <<>>], c, n) :
        /\ Call(n, c, o)
        /\ seen' = IF o.ok /\ n \in SnapshotNames /\ seen = None /\ Instants(o.m.got) # {}
                   THEN CHOOSE t \in Instants(o.m.got) : TRUE ELSE seen
        /\ UNCHANGED <<told, moved>>

\* xiaDoSpecialRun
Snapshot ==
    /\ Idle /\ k.product = "udxp"
    /\ \E o \in UdxpSnapshot(k) : Call("snapshot", 1, o)
    /\ seen' = None
    /\ UNCHANGED <<told, moved>>

\* number_mca_channels of a channel
SetLength ==
    /\ Idle /\ k.product # "udxp"
    /\ \E c \in Chans(k), v \in Lengths :
       \E o \in PslSetAcquisitionValues(k, c, "number_mca_channels",
                                        SetNumMCAChans([k EXCEPT !.value = v], c)) :
        /\ Call("number_mca_channels", c, o)
        /\ told' = [told EXCEPT ![c] = None]
        /\ moved' = IF o.ok THEN moved \ {"length"} ELSE moved
        /\ UNCHANGED seen

SetLowLimit ==
    /\ Idle /\ k.product = "saturn"
    /\ \E v \in Lengths : \E o \in SaturnDoMCALowLimit([k EXCEPT !.value = v], 1) :
        /\ Call("mca_low_limit", 1, o)
        /\ told' = [told EXCEPT ![1] = None]
        /\ moved' = IF o.ok THEN moved \cup {"length"} ELSE moved
        /\ UNCHANGED seen

DownloadFirmware ==
    /\ Idle /\ k.product = "saturn"
    /\ \E t \in {"dsp", "fippi", "unknown"}, f \in 0..1 :
       \E o \in SaturnDownloadFirmware(k, 1, t, f) :
        /\ Call(t, 1, o)
        /\ told' = [told EXCEPT ![1] = None]
        /\ moved' = IF o.m.par = k.par THEN moved
                    ELSE IF o.ok THEN {"length"} ELSE {"length", "start"}
        /\ UNCHANGED seen

\* The application has taken what it was answered, and goes on.
Taken ==
    /\ last # NoAnswer /\ calls < MaxCalls
    /\ last' = NoAnswer
    /\ UNCHANGED <<k, told, seen, moved, calls>>

-----------------------------------------------------------------------------
(* The board by itself; after the last call nobody looks. *)

\* A run starts, with the lengths it finds.
NewRun ==
    /\ Idle /\ ~k.running
    /\ k' = [k EXCEPT !.running = TRUE, !.laid = [c \in Chans(k) |-> RunLength(k, c)]]
    /\ UNCHANGED <<last, told, seen, moved, calls>>

RunEnds ==
    /\ Idle /\ k.running
    /\ k' = [k EXCEPT !.running = FALSE]
    /\ UNCHANGED <<last, told, seen, moved, calls>>

RunFails ==
    /\ Idle /\ k.product = "saturn" /\ k.running
    /\ k' = [k EXCEPT !.error = TRUE, !.running = FALSE]
    /\ UNCHANGED <<last, told, seen, moved, calls>>

\* The boards there are, in the mapping modes in which they differ; a board
\* after its setup.
Modes == [xmap |-> {"none", "mca", "sca"}, mercury |-> {"mca", "list"},
          stj |-> {"sca", "list"}]

\* What the code revisions of a microDXP differ in.
FullFeatures == {"sca", "updated_sca", "snapshot", "snapshot_sca", "direct_mca"}
Plain == [product |-> "saturn", n |-> 1, mode |-> "none", clock |-> 0, super |-> FALSE,
          vega |-> FALSE, usb |-> FALSE, features |-> {}]
ModuleVariant(p, d) == [Plain EXCEPT !.product = p, !.n = ModuleChannels, !.mode = d]
SaturnVariant(s) == [Plain EXCEPT !.clock = s]
UdxpVariant(s, u) ==
    [Plain EXCEPT !.product = "udxp", !.super = s, !.vega = s /\ u, !.usb = u,
                  !.features = IF s THEN FullFeatures ELSE {"sca"}]
Variants ==
    (UNION {{ModuleVariant(p, d) : d \in Modes[p]} : p \in Big}) \cup
    {SaturnVariant(s) : s \in {0, 40}} \cup {UdxpVariant(s, u) : s \in BOOLEAN, u \in BOOLEAN}

\* The parameters and the defaults after setup, of a product.
Parameters(p, len) ==
    IF p = "udxp" THEN [MCALEN |-> len, NUMSCA |-> 1]
    ELSE [MCALIMLO |-> 0, MCALIMHI |-> len, SPECTSTART |-> 0]
Defaults(p, c, len) ==
    [number_mca_channels |-> IF p = "udxp" THEN 0 ELSE len, mca_start_address |-> 0,
     number_of_scas |-> CASE p \in Big -> c - 1 [] p = "saturn" -> 1 [] p = "udxp" -> 0]

Board(v, len) ==
    [product |-> v.product, n |-> v.n, mode |-> v.mode, clock |-> v.clock, super |-> v.super,
     vega |-> v.vega, usb |-> v.usb, features |-> v.features,
     running |-> FALSE, now |-> 0, error |-> FALSE, dsp |-> 0, fippi |-> 0, pixels |-> 2,
     snap |-> 0, laid |-> [c \in 1..v.n |-> len], words |-> <<>>, got |-> <<>>, speed |-> 0,
     scas |-> [c \in 1..(IF v.product = "stj" THEN StjCounted ELSE v.n) |->
                 IF c <= v.n THEN c - 1 ELSE 0],
     known |-> {}, par |-> [c \in 1..v.n |-> Parameters(v.product, len)],
     val |-> [c \in 1..v.n |-> Defaults(v.product, c, len)],
     value |-> 0, budget |-> MaxFaults]

Init ==
    /\ \E v \in Variants : k = Board(v, 2 * Block)
    /\ last = NoAnswer
    /\ told = [c \in Chans(k) |-> None]
    /\ seen = None
    /\ moved = {}
    /\ calls = 0

Next ==
    \/ GetRunData
    \/ GetParamData
    \/ GetSpecialRunData
    \/ Snapshot
    \/ SetLength
    \/ SetLowLimit
    \/ DownloadFirmware
    \/ Taken
    \/ NewRun
    \/ RunEnds
    \/ RunFails

Spec == Init /\ [][Next]_vars

-----------------------------------------------------------------------------
(* Properties. *)

\* What the code reads word by word, while the board goes on.
ByWords(b) ==
    {"list_buffer_len_a", "list_buffer_len_b"} \cup
    (IF b.product = "saturn" THEN {} ELSE {"values"}) \cup
    (IF b.product = "xmap" THEN {"baseline"} ELSE {})

\* What any other call answers, the board counted at one instant: no rate
\* divides the events of one moment by the time of another.
OneInstant ==
    last.ok /\ last.op \notin ByWords(k) => Cardinality(Instants(last.got)) <= 1

\* The counters behind each name, whatever the product.  The STJ's energy
\* livetime is left as the caller's variable was (stj_psl.c:5698), the
\* microDXP's is an estimate,
\* and its total_output_events are those of the spectrum (udxp_psl.c:529).
Sources(b, n) ==
    LET events == IF b.product = "udxp" /\ ~b.super THEN {"events"}
                  ELSE {"events", "underflows", "overflows"}
    IN
    CASE n \in {"energy_livetime"} ->
             IF b.product = "stj" THEN {}
             ELSE IF b.product = "udxp"
             THEN events \cup {"realtime", "triggers", "trigger_livetime"} ELSE {n}
      [] n \in {"mca_events", "events_in_run_gated"} -> {"events"}
      [] n = "total_output_events" -> IF b.product = "udxp" THEN {"events"} ELSE events
      [] n \in {"input_count_rate", "input_count_rate_gated"} -> {"triggers", "trigger_livetime"}
      [] n \in {"output_count_rate", "output_count_rate_gated"} -> events \cup {"realtime"}
      [] n = "livetime_gated" -> {"trigger_livetime"}
      [] n = "realtime_gated" -> {"realtime"}
      [] n = "triggers_gated" -> {"triggers"}
      [] n \in {"underflows", "overflows"} -> events \cap {n}
      [] OTHER -> {n}

SevenNames == <<"realtime", "trigger_livetime", "energy_livetime", "triggers", "mca_events",
                "input_count_rate", "output_count_rate">>
NineNames == <<"realtime", "trigger_livetime", "energy_livetime", "triggers", "mca_events",
               "input_count_rate", "output_count_rate", "underflows", "overflows">>

\* Word by word, what an answer must be made of.
ScaPairs(c, len) == [i \in 1..len |-> {<<"sca", c, (2 * i) - 2>>, <<"sca", c, (2 * i) - 1>>}]
Items(item, c, len) == [i \in 1..len |-> {<<item, c, i - 1>>}]
From(b, c, n) == {<<s, c, 0>> : s \in Sources(b, n)}
Promise(b, c, n, len) ==
    CASE n \in {"mca", "mca_gated", "snapshot_mca"} -> Items("bin", c, len)
      [] n = "baseline" -> Items("baseline", c, len)
      [] n = "values" -> Items("parameter", c, len)
      [] n = "module_mca" -> OfChannels(b.n, b.laid[c], LAMBDA j : Items("bin", j, b.laid[j]))
      [] n \in {"sca", "snapshot_sca"} -> ScaPairs(c, len)
      [] n = "module_statistics" ->
             OfChannels(b.n, 7, LAMBDA j : [i \in 1..7 |-> From(b, j, SevenNames[i])])
      [] n \in {"module_statistics_2", "module_statistics_gated", "snapshot_statistics"} ->
             OfChannels(b.n, 9, LAMBDA j : [i \in 1..9 |-> From(b, j, NineNames[i])])
      [] OTHER -> <<From(b, c, n)>>
Promising ==
    Counters \cup GatedNames \cup SnapshotNames \cup
    {"underflows", "overflows", "mca", "module_mca", "sca", "module_statistics",
     "module_statistics_2", "baseline", "values"}

\* For a call that takes the lengths of all channels for the same, they are.
Even == \A c \in Chans(k) : k.laid[c] = k.val[last.chan]["number_mca_channels"]

\* Each number of an answer is made of the counters, or the bins, of its name
\* and its channel and of nothing else: behind the lengths of the channels
\* below, an address kept in the defaults, the strides of the module's arrays.
\* A Saturn goes on without what it could not read (saturn_psl.c:2177, :5349)
\* and with an address that could not be looked up (saturn_psl.c:561).
OwnData ==
    /\ last.ok /\ last.op \in Promising
    /\ (k.product \in Big => last.settled)
    /\ (last.op = "module_mca" => Even)
    /\ (k.product = "saturn" => last.clean /\ "start" \notin moved)
    => [i \in DOMAIN last.got |-> {<<w.item, w.chan, w.bin>> : w \in last.got[i]}]
         = Promise(k, last.chan, last.op, Len(last.got))

\* A spectrum is as long as mca_length said, whatever was set, failed or was
\* loaded in between; all spectra of a module as many times as it has channels.
\* (Only a Saturn whose low limit or whose DSP changed writes another length,
\* saturn_psl.c:2560.)  The size that is answered for a mapping buffer is what
\* the board fills, where its channels have one length.  (The STJ computes the
\* size for four channels, stj_psl.c:4402.)
DataFitsLength ==
    last.ok =>
    /\ last.op \in {"mca", "module_mca"} /\ told[last.chan] # None /\ "length" \notin moved =>
           Len(last.got) = (IF last.op = "mca" THEN 1 ELSE k.n) * told[last.chan]
    /\ last.op = "buffer_len" /\ k.product # "stj" /\ last.settled /\ (k.mode = "mca" => Even) =>
           LET pixel == IF k.mode = "mca"
                        THEN Block + Ahead(k.laid, k.n + 1)
                        ELSE ScaHeader + Ahead([c \in Chans(k) |-> 2 * k.val[c]["number_of_scas"]],
                                               k.n + 1)
           IN \A w \in last.got[1] : w.bin = Block + (k.pixels * pixel)

\* Spectrum, statistics and SCAs read after one snapshot, and before the next
\* is asked for, are of one instant, however long the reading takes.
SnapshotsAgree ==
    last.ok /\ last.op \in SnapshotNames => Instants(last.got) \subseteq {seen}

\* An error of a run is cleared only by the call that reports it, or with the
\* DSP.
ErrorIsReported ==
    [][k.error /\ ~k'.error => \/ last'.op \in {"baseline", "values"} /\ ~last'.ok
                               \/ last'.op = "dsp"]_vars
=============================================================================
