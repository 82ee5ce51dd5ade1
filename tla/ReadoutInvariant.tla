--------------------------- MODULE ReadoutInvariant ---------------------------
(***************************************************************************)
(* What is proved about Readout, said in operators: what reading leaves of *)
(* a board, what the numbers of an answer are made of and of what instant, *)
(* product by product, and the inductive invariant Kept.                   *)
(***************************************************************************)
EXTENDS Readout

-----------------------------------------------------------------------------
(* Numbers, sequences and sums. *)

\* What a sum over the channels below is.
Adds(L, c, f) == f = [j \in 1..c |-> IF j = 1 THEN 0 ELSE f[j - 1] + L[j - 1]]

-----------------------------------------------------------------------------
(* Boards. *)

Fields ==
    {"product", "n", "mode", "clock", "super", "vega", "usb", "features", "running", "now",
     "error", "dsp", "fippi", "pixels", "snap", "laid", "words", "got", "speed", "scas",
     "known", "par", "val", "value", "budget"}
Rec(b) == b = [f \in Fields |-> b[f]] /\ b.budget \in Nat

\* What reading changes, and what a call on a board changes in general.
Scratch == {"now", "budget", "words", "got", "value", "speed"}
Changed(b, c, S) == Rec(c) /\ c.budget <= b.budget /\ \A f \in Fields \ S : c[f] = b[f]

\* Where nothing is read but what a run leaves alone; a failure is a fault spent.
Looked(b, o) ==
    /\ o.ok \in BOOLEAN /\ Changed(b, o.m, {"now", "budget"})
    /\ o.ok \/ o.m.budget < b.budget
Went(b, o) == o.ok \in BOOLEAN /\ Changed(b, o.m, Scratch)

\* Only the answer is another.
Answering(b, x, o) ==
    Went(b, o) /\ o.ok = TRUE /\ o.m.got = x /\ o.m.budget = b.budget

-----------------------------------------------------------------------------
(* Memory: what the words are that a read returns. *)

\* All of one instant: l is the board as it was then.
AtOnce(b, c, mem, a, len, o) ==
    /\ Went(b, o)
    /\ o.ok => \E l : Changed(b, l, Scratch)
                      /\ o.m.words = [i \in 1..len |-> WordAt(l, c, mem, a + i - 1)]

\* Each of its own instant.
Piecewise(b, c, mem, a, len, o) ==
    /\ Went(b, o)
    /\ o.ok => \E L : /\ o.m.words = [i \in 1..len |-> WordAt(L[i], c, mem, a + i - 1)]
                      /\ \A i \in 1..len : Changed(b, L[i], Scratch)

\* An area of a microDXP.
AreaOnce(b, c, area, len, o) ==
    /\ Went(b, o)
    /\ o.ok => \E l : Changed(b, l, Scratch)
                      /\ o.m.words = [i \in 1..len |-> AreaWord(l, c, area, i - 1)]

-----------------------------------------------------------------------------
(* Word by word. *)

\* What each turn of the loop may have left.
Turns(b, c, mem, a, s, n, f) ==
    f = [i \in 0..n |->
           IF i = 0 THEN Done([b EXCEPT !.words = <<>>])
           ELSE Then(f[i - 1], LAMBDA l : ReadingOne(l, LAMBDA p : WordAt(p, c, mem, a + s[i] - 1)))]

-----------------------------------------------------------------------------
(* Addresses and lengths: looking, for any number of channels. *)

LooksTwice(b) == Then(Looking(b), Looking)

\* What each turn of the walk over the channels below may have left.
Walk(b, n, f) ==
    f = [i \in 0..n |-> IF i = 0 THEN Done(b) ELSE Then(f[i - 1], LAMBDA l : LooksTwice(l))]

\* The address of a spectrum, d words above what is behind those below; all drivers find it.
Addresses(b, c, d) ==
    Then(InTurn(b, [j \in 1..(c - 1) |-> j], LAMBDA l, j : LooksTwice(l)), LAMBDA l :
         IF Below(b, c) % Block # 0 THEN Refused(l)
         ELSE Done([l EXCEPT !.value = Below(b, c) + d]))

-----------------------------------------------------------------------------
(* Answers: what the numbers are made of, and of what instant. *)

Triple(w) == <<w.item, w.chan, w.bin>>
Is(got, P) == [i \in DOMAIN got |-> {Triple(w) : w \in got[i]}] = P
Since(got, t) == \A i \in DOMAIN got : \A w \in got[i] : w.at = t

\* Of any instants, of one, or of the snapshot's.
Timed(b, got, when) ==
    /\ when = "once" => \E t : Since(got, t)
    /\ when = "snap" => Since(got, b.snap)
Sends(b, o, P, when) ==
    /\ Went(b, o)
    /\ o.ok => Is(o.m.got, P) /\ Timed(b, o.m.got, when)

Memories == {"burst", "spectrum", "data", "baseline", "parameters"}
Item(b, c, mem, a) == Triple(WordAt(b, c, mem, a))

\* The numbers of len words, or of n pairs of them, from an address.
Words(b, c, mem, a, len) == [i \in 1..len |-> {Item(b, c, mem, a + i - 1)}]
PairsOf(b, c, mem, a, n) ==
    [i \in 1..n |-> {Item(b, c, mem, a + ((2 * i) - 1) - 1), Item(b, c, mem, a + (2 * i) - 1)}]

-----------------------------------------------------------------------------
(* Xerxes. *)

\* An error of the run was cleared, and is reported.
Cleared(b, l) == l.error = b.error \/ l.error = FALSE
Reported(b, o) ==
    o.ok = FALSE /\ Changed(b, o.m, Scratch \cup {"error"}) /\ Cleared(b, o.m)

-----------------------------------------------------------------------------
(* The boards there are, and their counters. *)

ParType(p) == IF p = "udxp" THEN [MCALEN : Nat, NUMSCA : Nat]
              ELSE [MCALIMLO : Nat, MCALIMHI : Nat, SPECTSTART : Nat]
ValType == [number_mca_channels : Nat, mca_start_address : Nat, number_of_scas : Nat]
BoardType(b) ==
    /\ Rec(b)
    /\ b.product \in Big \cup {"saturn", "udxp"}
    /\ b.n = IF b.product \in Big THEN ModuleChannels ELSE 1
    /\ b.par \in [1..b.n -> ParType(b.product)] /\ b.val \in [1..b.n -> ValType]
    /\ b.error = TRUE \/ b.error = FALSE
    /\ b.error = TRUE => b.product = "saturn"

Counter(c, item, t) == [chan |-> c, item |-> item, bin |-> 0, at |-> t]

\* The words that were read hold the counters of n channels, as they were at t.
Tallied(z, n, t) == \A j \in 1..n : \A item : Entry(z, j - 1, item) = {Counter(j, item, t)}

\* The counters S of the channel c, and the number they make.
Made(c, S, t) == {Counter(c, s, t) : s \in S}
Of(c, S) == <<{<<s, c, 0>> : s \in S}>>

ModuleCounters == Counters \cup {"underflows", "overflows"}

-----------------------------------------------------------------------------
(* The statistics of all channels. *)

\* Rows R of w numbers each, one after the other; what those of a module are made of.
Rows(R, m, w) == [i \in 1..(m * w) |-> R[1 + ((i - 1) \div w)][1 + ((i - 1) % w)]]
RowsOf(b, wd) == [i \in 1..(b.n * wd) |-> From(b, 1 + ((i - 1) \div wd), NineNames[1 + ((i - 1) % wd)])]
SevenOf(b) == RowsOf(b, 7)
NineOf(b) == RowsOf(b, 9)

\* A row is of seven numbers, or of nine.
Row(wd, rt, tlt, elt, trigs, evts, unders, overs) ==
    IF wd = 7 THEN Seven(rt, tlt, elt, trigs, evts, unders, overs)
    ELSE Nine(rt, tlt, elt, trigs, evts, unders, overs)

\* The numbers of the row x are made of the channel j's counters, as they were at t.
MadeRow(b, j, t, wd, x) == \A i \in 1..wd : x[i] = Made(j, Sources(b, NineNames[i]), t)

\* The row of a channel, as a module computes it from the block z of its counters.
ModuleRow(b, z, j, wd) ==
    LET E(s) == Entry(z.m, j - 1, s) IN
    Row(wd, E("realtime"), E("trigger_livetime"),
        IF b.product = "stj" THEN {} ELSE E("energy_livetime"), E("triggers"),
        E("events"), E("underflows"), E("overflows"))

-----------------------------------------------------------------------------
(* Lengths, flags, and what is as long as they are. *)

Figure(x, t) == [chan |-> 0, item |-> "number", bin |-> x, at |-> t]
Numbered(b, o, x) == Went(b, o) /\ (o.ok => \E t : o.m.got = <<{Figure(x, t)}>>)

-----------------------------------------------------------------------------
(* The spectra, the SCAs, the baselines and the parameters of a module. *)

Bins(b, c) == Words(b, c, "burst", Below(b, c) + Header(b), Length(b, c))
AllBins(b, c) == Words(b, c, "burst", Header(b), b.val[c]["number_mca_channels"] * b.n)
ScaAt(c) == ScaMemBase + ((c - 1) * ScaOffset)
Scas(b, c) == PairsOf(b, c, "burst", ScaAt(c), b.val[c]["number_of_scas"])
Histograms(b, c) == Words(b, c, "baseline", 0, BaseLen)
Params(b, c) == Words(b, c, "parameters", 0, 2)

-----------------------------------------------------------------------------
(* The sizes of mapping buffers. *)

\* A pixel is counted, and a buffer of them.
PixelSize(b, c) ==
    IF b.product = "mercury" \/ b.mode = "mca"
    THEN (b.n * b.val[c]["number_mca_channels"]) + Block
    ELSE ScaHeader + Ahead([j \in Chans(b) |-> 2 * b.scas[j]], b.n + 1)
BufferSize(b, c) == Block + (b.pixels * PixelSize(b, c))

\* What is left of a board when its mode was asked for.
Mapped(b, o, modes) ==
    o.ok \in BOOLEAN /\ Changed(b, o.m, {"now", "budget"}) /\ (o.ok => b.mode \in modes)

\* The size of a buffer of an STJ.
StjSize(b, c) ==
    Block + (b.pixels * (IF b.mode = "mca" THEN StjGetMCAPixelBlockSize(b, c)
                         ELSE StjGetSCAPixelBlockSize(b)))
SizeOf(b, c) == IF b.product = "stj" THEN StjSize(b, c) ELSE BufferSize(b, c)

\* After the mode that is active, PIXPERBUF and MAPPINGMODE are looked up.
Measured(p, c, z, o) ==
    IF z.ok THEN \E y \in Parameter(z.m) :
         IF y.ok THEN \E w \in Parameter(y.m) :
              IF w.ok THEN \E x : o \in Number(w.m, x) /\ (w.m.product = p => x = SizeOf(w.m, c))
              ELSE o = w
         ELSE o = y
    ELSE o = z

-----------------------------------------------------------------------------
(* Whatever is asked of a module. *)

\* What the answer to a name is made of.
Wanted(b, c, n) ==
    CASE n \in ModuleCounters -> <<From(b, c, n)>>
      [] n = "module_statistics" -> SevenOf(b)
      [] n = "module_statistics_2" -> NineOf(b)
      [] n = "mca" -> Bins(b, c)
      [] n = "module_mca" -> AllBins(b, c)
      [] n = "sca" -> Scas(b, c)
      [] n = "baseline" -> Histograms(b, c)
      [] n = "values" -> Params(b, c)

\* What a call does to the board, and what it answers.
Replies(b, c, n, o) ==
    /\ Went(b, o)
    /\ o.ok =>
       /\ n \notin ByWords(b) => \E t : Since(o.m.got, t)
       /\ n \in Promising => Is(o.m.got, Wanted(b, c, n))
       /\ n = "mca_length" => \E t : o.m.got = <<{Figure(Length(b, c), t)}>>
       /\ n = "buffer_len" /\ b.product # "stj" =>
              /\ \E t : o.m.got = <<{Figure(BufferSize(b, c), t)}>>
              /\ b.mode \in {"mca", "sca"}

\* A number alone, and the names that promise something else.
OneOf(b, c, n) == <<From(b, c, n)>>
Picks == (Counters \cup GatedNames) \ {"mca_gated", "module_statistics_gated"}
Blocks == {"module_statistics", "module_statistics_2", "module_statistics_gated",
           "snapshot_statistics", "mca", "mca_gated", "snapshot_mca", "module_mca", "sca",
           "snapshot_sca", "baseline", "values"}

\* The two words of the length of a list buffer.
OneListWord(b, c, buf, i) == ReadingOne(b, LAMBDA p : ListWord(p, c, buf, i))

\* The length of a list mode buffer: the low half, then the high one.
ListHalves(l, c, buf) ==
    Then(OneListWord([l EXCEPT !.words = <<>>], c, buf, 0), LAMBDA low :
    Then(OneListWord(low, c, buf, 1), LAMBDA high :
         Answer(high, <<{high.words[1], high.words[2]}>>) \cup Refused(high)))

-----------------------------------------------------------------------------
(* The Saturn.  What a call answers is what it promises when no access       *)
(* failed; what it answers after a failure is of one instant still.          *)

Trusted(b, o, P) ==
    /\ Went(b, o)
    /\ o.ok => /\ \E t : Since(o.m.got, t)
               /\ o.m.budget = b.budget => Is(o.m.got, P)

\* One more number was extracted: the counter, or a time in the wrong unit.
Extracted(b, o, item) ==
    /\ Went(b, o)
    /\ o.ok => /\ o.m.words = b.words
               /\ \E x \in {item, "wrong_unit"} :
                    /\ o.m.got = Append(b.got, Entry(b, 0, x))
                    /\ o.m.budget = b.budget => x = item

\* The clock that a time is counted in is known, unless it could not be read.
Clocked(b, o) ==
    /\ Went(b, o)
    /\ o.ok => /\ o.m.words = b.words /\ o.m.got = b.got
               /\ o.m.budget = b.budget => o.m.speed = o.m.clock

\* The numbers named in s were extracted from one block, the first n of them.
Gathers(b, o, s, n) ==
    /\ Went(b, o)
    /\ o.ok => \E t : /\ Tallied(o.m, 1, t)
                      /\ o.m.got = [i \in 1..n |-> o.m.got[i]]
                      /\ \A i \in 1..n : \E x \in {s[i], "wrong_unit"} :
                           /\ o.m.got[i] = {Counter(1, x, t)}
                           /\ o.m.budget = b.budget => x = s[i]

\* The extraction of a number by its name.
Times == {"realtime", "trigger_livetime", "energy_livetime"}
Extraction(b, item) == IF item \in Times THEN SaturnTime(b, item) ELSE Also(b, item)
Extractions(outs, item) == UNION {IF o.ok THEN Extraction(o.m, item) ELSE {o} : o \in outs}

\* Numbers that were extracted are of one instant, in whatever unit.
Gathered(b, z, s, n, t) ==
    /\ DOMAIN z.m.got = 1..n
    /\ \A i \in 1..n : \A w \in z.m.got[i] : w.at = t
    /\ z.m.budget = b.budget => \A i \in 1..n : z.m.got[i] = {Counter(1, s[i], t)}

\* The parts of a number that is computed.
TotalParts(b, c) == Then(Then(Then(SaturnGetDSPBlock(b, c), SaturnExtractEvents), SaturnExtractUnders), SaturnExtractOvers)

ICRParts(b, c) == Then(Then(SaturnGetDSPBlock(b, c), SaturnExtractTLivetime), SaturnExtractTriggers)

OCRParts(b, c) == Then(Then(Then(Then(SaturnGetDSPBlock(b, c), SaturnExtractRealtime), SaturnExtractEvents), SaturnExtractUnders), SaturnExtractOvers)

\* An answer that is computed from what was gathered.
TrustedAnswer(b, x, z, P) ==
    /\ \E t : Since(x, t)
    /\ z.m.budget = b.budget => Is(x, P)

\* The spectrum is where, and as long as, the defaults say.
SaturnBins(b, c) ==
    Words(b, c, "spectrum", b.val[c]["mca_start_address"], b.val[c]["number_mca_channels"])
SaturnScas(b, c) == PairsOf(b, c, "data", ScaMemBase, b.val[c]["number_of_scas"])

\* What a Saturn promises of each of its data.
SaturnWanted(b, c, n) ==
    CASE n \in ModuleCounters -> <<From(b, c, n)>>
      [] n = "module_statistics" -> SevenOf(b)
      [] n = "module_statistics_2" -> NineOf(b)
      [] n = "mca" -> SaturnBins(b, c)
      [] n = "sca" -> SaturnScas(b, c)
      [] n = "baseline" -> Histograms(b, c)
      [] n = "values" -> Params(b, c)

\* The answers of a Saturn, whose readout may report an error of the run.
Confides(b, c, n, o) ==
    /\ Went(b, o) \/ (n \in {"baseline", "values"} /\ Reported(b, o))
    /\ o.ok =>
       /\ \E t : Since(o.m.got, t)
       /\ n \in Promising /\ o.m.budget = b.budget => Is(o.m.got, SaturnWanted(b, c, n))
       /\ n = "mca" => Is(o.m.got, SaturnBins(b, c))
       /\ n = "mca_length" => \E t : o.m.got = <<{Figure(Length(b, c), t)}>>

-----------------------------------------------------------------------------
(* The microDXP: areas of memory, of the run or of the snapshot.             *)

Areas == {"spectrum", "snapshot", "stat", "snapstat", "sca", "snapsca"}
TimeOf(area) == IF area \in Snapped THEN "snap" ELSE "once"
AreaTime(l, area) == IF area \in Snapped THEN l.snap ELSE l.now

\* What was read of an area is of its time.
AreaSince(b, got, area) == \E t : Since(got, t) /\ (area \in Snapped => t = b.snap)

-----------------------------------------------------------------------------
(* Its statistics. *)

\* The nine numbers, each of the counters of its name.
Nined(b, got, t) ==
    DOMAIN got = 1..9 /\ \A i \in 1..9 : got[i] = Made(1, Sources(b, NineNames[i]), t)
Converted(b, o, area) ==
    /\ Went(b, o)
    /\ o.ok => \E t : Nined(b, o.m.got, t) /\ (area \in Snapped => t = b.snap)

Statistics(outs) == Then(outs, LAMBDA l : Answer(l, UdxpConvertStatistics(l)))

\* Over USB the address is looked up first.
Located(b, c, area, len) == Then(Parameter(b), LAMBDA l : UdxpReadDirectUsbMemory(l, c, area, len))

-----------------------------------------------------------------------------
(* Its spectra and SCAs. *)

McaItems(b, c) == Items("bin", c, b.val[c]["number_mca_channels"])
ScaItems(b, c) == ScaPairs(c, b.val[c]["number_of_scas"])

UdxpType(b) == BoardType(b) /\ b.product = "udxp"

McaLocated(b, area) == Then(Parameter(b), LAMBDA l : UdxpGetMcaDirect(l, 1, area))

ScaLocated(b, area) == Then(Parameter(b), LAMBDA l : UdxpGetSCADataDirect(l, 1, area))

\* The histogram of the baseline, in one block.
BaselineRead(b, c) == Reading(b, LAMBDA l : [i \in 1..BaseLen |-> Cell(l, c, "baseline", i - 1)])

-----------------------------------------------------------------------------
(* Its lengths: what it is asked for once, it is taken to know.              *)

KnownSizes == {"number_mca_channels", "number_of_scas"}
Learned(b, o) ==
    /\ o.ok \in BOOLEAN /\ Changed(b, o.m, Scratch \cup {"par", "val", "known"}) /\ UdxpType(o.m)
    /\ b.known \subseteq o.m.known
    /\ \A m \in b.known : o.m.val[1][m] = b.val[1][m]

\* A number was read, the limit of SCAs perhaps set.
Sized(b, o) ==
    /\ o.ok \in BOOLEAN /\ Changed(b, o.m, Scratch \cup {"par"}) /\ UdxpType(o.m)
    /\ o.ok => o.m.value \in Nat

\* A board that has learned the value of n.
Knows(b, n, o) == Learned(b, o) /\ n \in o.m.known /\ o.m.value = o.m.val[1][n]

\* A number that is known now.
Knowing(l, n) == [l EXCEPT !.val[1][n] = l.value, !.known = @ \cup {n}]

-----------------------------------------------------------------------------
(* Whatever is asked of a microDXP. *)

UdxpWanted(b, n) ==
    CASE n \in Picks -> Of(1, Sources(b, n))
      [] n \in {"module_statistics_2", "module_statistics_gated", "snapshot_statistics"} -> NineOf(b)
      [] n \in {"mca", "mca_gated", "snapshot_mca"} -> McaItems(b, 1)
      [] n \in {"sca", "snapshot_sca"} -> ScaItems(b, 1)
      [] n = "baseline" -> Histograms(b, 1)
      [] n = "values" -> Params(b, 1)

Teaches(b, n, o) ==
    /\ Learned(b, o)
    /\ o.ok =>
       /\ n \notin ByWords(b) => \E t : Since(o.m.got, t)
       /\ n \in SnapshotNames => Since(o.m.got, b.snap)
       /\ n \in Promising => Is(o.m.got, UdxpWanted(b, n)) /\ Went(b, o)
       /\ n = "mca_length" =>
              /\ "number_mca_channels" \in o.m.known
              /\ \E t : o.m.got = <<{Figure(o.m.val[1]["number_mca_channels"], t)}>>

-----------------------------------------------------------------------------
(* Where the words of a module are: each spectrum behind those of the        *)
(* channels below, all of them below the SCAs.                               *)

Laid(b) == BoardType(b) /\ b.product \in Big /\ b.laid \in [1..b.n -> 0..MaxBins]

-----------------------------------------------------------------------------
(* Each number is of its name and its channel. *)

\* The parts of a promise.
AllItems(b, w) == [i \in 1..(b.n * w) |-> {<<"bin", 1 + ((i - 1) \div w), (i - 1) % w>>}]

-----------------------------------------------------------------------------
(* What a module's board holds is what its names promise. *)

\* The lengths are those the run started with.
SettledOn(b) == \A j \in 1..b.n : Length(b, j) = b.laid[j]

\* What a module is asked that promises something.
ModuleData == ModuleCounters \cup {"module_statistics", "module_statistics_2", "mca", "module_mca",
                                   "sca", "baseline", "values"}

-----------------------------------------------------------------------------
(* A microDXP. *)

UdxpBlocks == {"module_statistics_2", "module_statistics_gated", "snapshot_statistics", "mca",
               "mca_gated", "snapshot_mca", "sca", "snapshot_sca", "baseline", "values"}

-----------------------------------------------------------------------------
(* What a board is between the calls. *)

\* The lengths of a module's spectra, and its SCAs, as the host goes by them.
Fits(b) ==
    b.product \in Big =>
    /\ b.mode \in Modes[b.product] /\ b.laid \in [1..b.n -> 0..MaxBins]
    /\ \A c \in 1..b.n :
         /\ b.par[c]["MCALIMLO"] = 0 /\ b.par[c]["MCALIMHI"] = b.val[c]["number_mca_channels"]
         /\ b.par[c]["MCALIMHI"] <= MaxBins
         /\ b.val[c]["number_of_scas"] = c - 1
         /\ b.product # "stj" => b.scas[c] = c - 1

Standing(b) == BoardType(b) /\ Fits(b)

\* The scratch is empty between calls.
Emptying(m) == [m EXCEPT !.words = <<>>, !.got = <<>>, !.value = 0, !.speed = 0]

-----------------------------------------------------------------------------
(* The length of a spectrum is set. *)

Setting == {"now", "budget", "value", "par", "val"}

\* A parameter that is set, and nothing else.
Put(p, c, q, x) == [p EXCEPT ![c] = [p[c] EXCEPT ![q] = x]]
Lengthened(p, c, x) == Put(p, c, "MCALIMHI", x)
Remembered(v, c, x) == [v EXCEPT ![c] = [v[c] EXCEPT !["number_mca_channels"] = x]]

\* What a setter of a module leaves, before the defaults are written.
HasSet(b, c, z) ==
    /\ z.ok \in BOOLEAN /\ Changed(b, z.m, {"now", "budget", "value", "par"})
    /\ IF z.ok THEN \E x \in 0..MaxBins : z.m.value = x /\ z.m.par = Lengthened(b.par, c, x)
       ELSE z.m.par = b.par

\* Outcomes are records.
Shape(o) == o = [ok |-> o.ok, m |-> o.m]

\* What setting a length leaves.
SetsLength(b, c, o) ==
    /\ o.ok \in BOOLEAN /\ Changed(b, o.m, Setting) /\ Standing(o.m)
    /\ \A d \in 1..b.n : d # c => Length(o.m, d) = Length(b, d)

-----------------------------------------------------------------------------
(* The spectrum of a Saturn: its limits, and its place. *)

Flag(x) == x = TRUE \/ x = FALSE
AtFirst(f, x) == [f EXCEPT ![1] = x]
SpectrumType == [MCALIMLO : Nat, MCALIMHI : Nat, SPECTSTART : Nat]

\* The length is set in the parameters and in the defaults, or in neither.
BothSet(b, l, u) ==
    /\ l.par = Lengthened(b.par, 1, u + b.par[1]["MCALIMLO"])
    /\ l.val = Remembered(b.val, 1, u)
NoneSet(b, l) == l.par = b.par /\ l.val = b.val

\* The high limit is written, then the default.
BothWritten(l, hi, u) ==
    Then(SetParameter(l, 1, "MCALIMHI", hi), LAMBDA a :
         Done(PslSetDefault(a, 1, "number_mca_channels", u)))

\* What setting a limit leaves of a Saturn: its spectrum is where it was.
SetsLimit(b, o) ==
    /\ o.ok \in BOOLEAN /\ Changed(b, o.m, Setting) /\ Standing(o.m)
    /\ o.m.par[1]["SPECTSTART"] = b.par[1]["SPECTSTART"]
    /\ o.m.val[1]["mca_start_address"] = b.val[1]["mca_start_address"]

-----------------------------------------------------------------------------
(* Another firmware, and a snapshot. *)

Loading == {"now", "budget", "par", "val", "error", "running", "dsp", "fippi"}

\* What loading leaves: the length in the defaults stays, the address follows
\* where the parameters changed and all went well.
Loads(b, o, type) ==
    /\ o.ok \in BOOLEAN /\ Changed(b, o.m, Loading) /\ Standing(o.m)
    /\ o.m.val[1]["number_mca_channels"] = b.val[1]["number_mca_channels"]
    /\ \/ o.m.val[1]["mca_start_address"] = b.val[1]["mca_start_address"]
       \/ o.m.val[1]["mca_start_address"] = o.m.par[1]["SPECTSTART"]
    /\ o.ok /\ o.m.par # b.par =>
           o.m.val[1]["mca_start_address"] = o.m.par[1]["SPECTSTART"]
    /\ type # "dsp" => o.m.error = b.error

\* What a DSP starts from.
Reset(b, f) == [b EXCEPT !.par[1] = FreshParams(f), !.error = FALSE, !.running = FALSE]

Freshened(p, f) == AtFirst(p, FreshParams(f))

\* The FiPPI.
FippiLoads(b, f) == Then(DxpReplaceFpgaconfig(b), LAMBDA l : Done([l EXCEPT !.fippi = f]))

-----------------------------------------------------------------------------
(* What any call that answers leaves, whatever the product. *)

\* The length the host goes by.
HostLength(b, c) == IF b.product = "udxp" THEN b.val[c]["number_mca_channels"] ELSE Length(b, c)
EvenFor(l, c) == \A j \in 1..l.n : l.laid[j] = l.val[c]["number_mca_channels"]
Pixel(l) ==
    IF l.mode = "mca" THEN Block + Ahead(l.laid, l.n + 1)
    ELSE ScaHeader + Ahead([j \in Chans(l) |-> 2 * l.val[j]["number_of_scas"]], l.n + 1)

SameBoard(b, l) ==
    /\ l.n = b.n /\ l.product = b.product /\ l.snap = b.snap
    /\ IF b.product = "udxp"
       THEN b.known \subseteq l.known /\ \A m \in b.known : l.val[1][m] = b.val[1][m]
       ELSE l.par = b.par /\ l.val = b.val

\* Of one instant, of the names and the channel, as long as was told, of a size
\* that is the board's.
OnTime(l, n, got) == n \notin ByWords(l) => \E t : Since(got, t)
Owns(b, o, l, c, n, got) ==
    /\ n \in Promising
    /\ l.product \in Big => SettledOn(b)
    /\ n = "module_mca" => EvenFor(l, c)
    /\ l.product = "saturn" =>
           o.m.budget = b.budget /\ l.val[1]["mca_start_address"] = l.par[1]["SPECTSTART"]
    => Is(got, Promise(l, c, n, Len(got)))
LongAs(l, c, n, got) ==
    /\ n \in {"mca", "module_mca"}
    /\ l.product = "saturn" => l.val[1]["number_mca_channels"] = Length(l, 1)
    => Len(got) = (IF n = "mca" THEN 1 ELSE l.n) * HostLength(l, c)
SizedAs(l, c, n, got) ==
    n = "buffer_len" /\ l.product # "stj" /\ (l.mode = "mca" => EvenFor(l, c)) =>
        \A w \in got[1] : w.bin = Block + (l.pixels * Pixel(l))
Tells(l, c, n, got) ==
    n = "mca_length" =>
        /\ l.product = "udxp" => "number_mca_channels" \in l.known
        /\ \E t : got = <<{Figure(HostLength(l, c), t)}>>
Shot(b, n, got) == n \in SnapshotNames => Since(got, b.snap)

Serves(b, c, n, o) ==
    /\ o.ok \in BOOLEAN /\ Rec(o.m) /\ Standing(Emptying(o.m)) /\ SameBoard(b, Emptying(o.m))
    /\ b.error = TRUE /\ Emptying(o.m).error = FALSE => n \in {"baseline", "values"} /\ o.ok = FALSE
    /\ o.ok =>
       /\ OnTime(Emptying(o.m), n, o.m.got) /\ Owns(b, o, Emptying(o.m), c, n, o.m.got)
       /\ LongAs(Emptying(o.m), c, n, o.m.got) /\ SizedAs(Emptying(o.m), c, n, o.m.got)
       /\ Tells(Emptying(o.m), c, n, o.m.got) /\ Shot(b, n, o.m.got)

-----------------------------------------------------------------------------
(* The application: what it was told and has seen is true of the board.      *)

\* A length that was told is the host's still.
Heard(b, a) ==
    /\ a = [c \in 1..b.n |-> a[c]]
    /\ \A c \in 1..b.n : a[c] # None =>
           /\ a[c] = HostLength(b, c)
           /\ b.product = "udxp" => "number_mca_channels" \in b.known

\* The defaults of a Saturn are its parameters, unless they moved.
Traced(b, s) ==
    b.product = "saturn" =>
    /\ "length" \notin s => b.val[1]["number_mca_channels"] = Length(b, 1)
    /\ "start" \notin s => b.val[1]["mca_start_address"] = b.par[1]["SPECTSTART"]

\* The inductive invariant, of the board and of what is known of it.
Kept ==
    /\ Standing(k) /\ k.got = <<>>
    /\ Heard(k, told) /\ Traced(k, moved)
    /\ seen \in {None, k.snap}

\* What the application learns from an answer.
Hearing(a, c, n, o) ==
    IF o.ok /\ n = "mca_length" THEN [a EXCEPT ![c] = (CHOOSE w \in o.m.got[1] : TRUE).bin] ELSE a
Seeing(s, n, o) ==
    IF o.ok /\ n \in SnapshotNames /\ s = None /\ Instants(o.m.got) # {}
    THEN CHOOSE t \in Instants(o.m.got) : TRUE ELSE s

\* What the application was answered last is right.
Answered == OneInstant /\ OwnData /\ DataFitsLength /\ SnapshotsAgree

-----------------------------------------------------------------------------
(* The calls that answer no data, and the board by itself. *)

\* A length that was set is to be asked for again.
Forgetting(a, c) == [a EXCEPT ![c] = None]

\* Data of a run was asked for.
DataAsked(c, n, o) ==
    /\ c \in 1..k.n /\ Serves(k, c, n, o) /\ Call(n, c, o) /\ moved' = moved
    /\ told' = Hearing(told, c, n, o) /\ seen' = Seeing(seen, n, o)

-----------------------------------------------------------------------------
(* A board after its setup. *)

Built == {"product", "n", "mode", "clock", "super", "vega", "usb", "features"}

\* What the setup adds to it.
SetUp(b, v, len) ==
    /\ b = [f \in Fields |-> b[f]]
    /\ \A f \in Built : b[f] = v[f]
    /\ b.error = FALSE /\ b.got = <<>> /\ b.budget = MaxFaults
    /\ b.laid = [c \in 1..v.n |-> len]
    /\ b.scas = [c \in 1..(IF v.product = "stj" THEN StjCounted ELSE v.n) |->
                   IF c <= v.n THEN c - 1 ELSE 0]
    /\ b.par = [c \in 1..v.n |-> Parameters(v.product, len)]
    /\ b.val = [c \in 1..v.n |-> Defaults(v.product, c, len)]

-----------------------------------------------------------------------------
(* An error of a run ends. *)

\* An error that is cleared was reported, or went with the DSP.
Reports ==
    k.error /\ ~k'.error => \/ last'.op \in {"baseline", "values"} /\ ~last'.ok
                            \/ last'.op = "dsp"
==============================================================================
