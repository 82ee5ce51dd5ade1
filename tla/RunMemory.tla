------------------------------ MODULE RunMemory ------------------------------
(***************************************************************************)
(* The memory the results of a run are read from, and the reads that the   *)
(* drivers and Xerxes offer the PSLs: ModuleRunData, SaturnRunData and     *)
(* UdxpRunData build the data of xiaGetRunData from them.                  *)
(*                                                                         *)
(* A board goes on counting while the host reads.  What the host reads is  *)
(* kept as where it comes from:                                            *)
(*   a word    [chan, item, bin, at]: a piece of the board's memory, and   *)
(*             the instant it was read                                     *)
(*   a number  the set of the words it is computed from                    *)
(*   an answer a sequence of numbers, as the caller's array is filled      *)
(* The counters of a channel are one word of the memory; what is extracted *)
(* from it names the counter.                                              *)
(*                                                                         *)
(* A board is a record b (par, val, value and budget are those of          *)
(* AcqValues); n is number_of_channels, the channels are 1..n:             *)
(*   running, now  whether a run is active; the instant                    *)
(*   laid      the length of each channel's spectrum as the run uses it    *)
(*   scas      m->ch[].n_sca                                               *)
(*   words     what the last read of memory returned                       *)
(*   got       the answer so far                                           *)
(*   clock, speed  SYSMICROSEC of a Saturn, and what the host takes it for *)
(*   error     RUNERROR of a Saturn                                        *)
(*   mode, pixels  the mapping mode that is active, PIXPERBUF              *)
(*   snap      the instant of the snapshot in the memory of a microDXP     *)
(*   known     which entries of its defaults a microDXP has been asked for *)
(*   super, vega, usb, features  its variant, interface and features       *)
(***************************************************************************)
EXTENDS AcqValues, FiniteSets

CONSTANTS ModuleChannels,  \* number_of_channels of an xMAP, Mercury or STJ
          Block,      \* XMAP_MEMORY_BLOCK_SIZE, MERCURY_.., STJ_..
          StjStats,   \* STJ_MCA_DATA_OFFSET: what is ahead of its spectra
          StjCounted, \* the channels a buffer of the STJ is computed for: 4
          ScaHeader,  \* XMAP_SCA_PIXEL_BLOCK_HEADER_SIZE, STJ_..
          ScaMemBase, \* SCAMEMBASE
          ScaOffset,  \* XMAP_SCA_CHAN_OFFSET, MERCURY_SCA_CHAN_OFFSET
          MaxAddr,    \* XMAP_MEMORY_32_MAX_ADDR, STJ_..
          MaxScas,    \* MAX_NUM_INTERNAL_SCA
          Lengths,    \* the numbers of MCA channels asked for
          MaxBins,    \* MAX_MCA_CHANNELS
          BaseLen,    \* BASELEN
          MaxTime,    \* instants of a run
          MaxFaults,  \* accesses that fail
          MaxCalls    \* calls of the application

ASSUME SizesAssumption ==
    /\ {ModuleChannels, Block, StjStats, StjCounted, ScaHeader, ScaMemBase, ScaOffset, MaxAddr, MaxBins,
        MaxScas, BaseLen, MaxTime, MaxFaults, MaxCalls} \subseteq Nat
    /\ ModuleChannels > 0 /\ Block > 0 /\ ScaOffset > 0 /\ Lengths \subseteq Nat

\* The memory of a module: ahead of the spectra the counters of all channels,
\* then the spectra, above them the SCAs; the channels have 0, 1, 2.. of them.
ASSUME LayoutAssumption ==
    /\ ModuleChannels <= Block /\ ModuleChannels <= StjStats
    /\ Block + (ModuleChannels * MaxBins) <= ScaMemBase
    /\ StjStats + (ModuleChannels * MaxBins) <= ScaMemBase
    /\ 2 * (ModuleChannels - 1) <= ScaOffset
    /\ 2 * Block <= MaxBins

None == -1

Chans(b) == 1..b.n

-----------------------------------------------------------------------------
(* The board. *)

\* A run goes on while the host talks.
Later(b) == {b} \cup (IF b.running /\ b.now < MaxTime THEN {[b EXCEPT !.now = @ + 1]} ELSE {})

\* One read, all of it at one instant.
Reading(b, W(_)) == UNION {Access(l, [l EXCEPT !.words = W(l)]) : l \in Later(b)}

\* One more word.
ReadingOne(b, W(_)) ==
    UNION {Access(l, [l EXCEPT !.words = Append(@, W(l))]) : l \in Later(b)}

\* A read of something that does not change during a run.
Looking(b) == UNION {Access(l, l) : l \in Later(b)}

Cell(b, c, item, i) == [chan |-> c, item |-> item, bin |-> i, at |-> b.now]

\* What is ahead of the spectra: the counters of all channels.
Header(b) == IF b.product = "stj" THEN StjStats ELSE Block

\* What the channels below c take together, when each takes L[j].
Ahead(L, c) ==
    LET from[j \in 1..c] == IF j = 1 THEN 0 ELSE from[j - 1] + L[j - 1] IN from[c]

\* Where a channel's spectrum is: behind the channels below.
Start(b, c) == Header(b) + Ahead(b.laid, c)

\* The external memory of an xMAP, Mercury or STJ.
MemoryWord(b, a) ==
    LET owner == {c \in Chans(b) : a - Start(b, c) \in 0..(b.laid[c] - 1)} IN
    IF a < b.n THEN Cell(b, a + 1, "counters", 0)
    ELSE IF a >= ScaMemBase
    THEN Cell(b, 1 + ((a - ScaMemBase) \div ScaOffset), "sca", (a - ScaMemBase) % ScaOffset)
    ELSE IF owner = {} THEN Cell(b, 0, "nothing", 0)
    ELSE LET c == CHOOSE x \in owner : TRUE IN Cell(b, c, "bin", a - Start(b, c))

\* The spectrum memory of a Saturn.
SpectrumWord(b, c, a) ==
    LET i == a - b.par[c]["SPECTSTART"] IN
    IF i < 0 THEN Cell(b, 0, "nothing", 0) ELSE Cell(b, c, "bin", i)

\* Its data memory: the parameters, which are the counters too, and the SCAs.
DataWord(b, c, a) ==
    IF a < Block THEN Cell(b, c, "counters", 0)
    ELSE IF a >= ScaMemBase THEN Cell(b, c, "sca", a - ScaMemBase)
    ELSE Cell(b, 0, "nothing", 0)

\* The histogram of baselines is in the memory of the parameters, or on its own.
Histogram(b, c, a) == Cell(b, c, "baseline", a)

\* A word by the memory it is in.
WordAt(b, c, memory, a) ==
    CASE memory = "burst" -> MemoryWord(b, a)
      [] memory = "spectrum" -> SpectrumWord(b, c, a)
      [] memory = "data" -> DataWord(b, c, a)
      [] memory = "baseline" -> Histogram(b, c, a)
      [] memory = "parameters" -> Cell(b, c, "parameter", a)

\* The areas of a microDXP; those of the snapshot hold what it took.
Snapped == {"snapshot", "snapstat", "snapsca"}
AreaItem == [spectrum |-> "bin", snapshot |-> "bin", stat |-> "counters",
             snapstat |-> "counters", sca |-> "sca", snapsca |-> "sca"]
AreaWord(b, c, area, i) ==
    [Cell(b, c, AreaItem[area], i) EXCEPT !.at = IF area \in Snapped THEN b.snap ELSE @]

-----------------------------------------------------------------------------
(* Answers. *)

Answer(b, numbers) == Done([b EXCEPT !.got = numbers])

\* One number, made of what was read.
One(outs, N(_)) == Then(outs, LAMBDA l : Answer(l, <<N(l)>>))

\* A number that is none of a run's: a length, a flag.
Number(b, x) == Answer(b, <<{Cell(b, 0, "number", x)}>>)

\* What was read: a number for each word, or for each two.
Delivered(outs) == Then(outs, LAMBDA l : Answer(l, [i \in DOMAIN l.words |-> {l.words[i]}]))
Pairs(outs) ==
    Then(outs, LAMBDA l : Answer(l, [i \in 1..(Len(l.words) \div 2) |->
                                       {l.words[(2 * i) - 1], l.words[2 * i]}]))

\* A counter of those in the word at an offset.
Entry(b, offset, item) ==
    {[b.words[offset + 1] EXCEPT !.item = IF @ = "counters" THEN item ELSE @]}

\* The statistics of a channel, in the order of the caller's array.
Seven(rt, tlt, elt, trigs, evts, unders, overs) ==
    <<rt, tlt, elt, trigs, evts, trigs \cup tlt, evts \cup overs \cup unders \cup rt>>
Nine(rt, tlt, elt, trigs, evts, unders, overs) ==
    <<rt, tlt, elt, trigs, evts, trigs \cup tlt, evts \cup overs \cup unders \cup rt,
      unders, overs>>

-----------------------------------------------------------------------------
(* The drivers: parameters. *)

\* dxp_read_dspsymbol: the address of a symbol is the host's, its value one
\* word of the DSP's memory.
XmapReadDspsymbol(b) == Looking(b)
MercuryReadDspsymbol(b) == Looking(b)
StjReadDspsymbol(b) == Looking(b)
SaturnReadDspsymbol(b) == Looking(b)
UdxpReadDspsymbol(b) == Looking(b)
ReadDspsymbol(b) ==
    CASE b.product = "xmap" -> XmapReadDspsymbol(b)
      [] b.product = "mercury" -> MercuryReadDspsymbol(b)
      [] b.product = "stj" -> StjReadDspsymbol(b)
      [] b.product = "saturn" -> SaturnReadDspsymbol(b)
      [] b.product = "udxp" -> UdxpReadDspsymbol(b)

\* pslGetParameter
Parameter(b) == ReadDspsymbol(b)

\* A block, word by word.
WordByWord(b, c, memory, a, len) ==
    InTurn([b EXCEPT !.words = <<>>], [i \in 1..len |-> i],
           LAMBDA l, i : ReadingOne(l, LAMBDA p : WordAt(p, c, memory, a + i - 1)))

\* All parameters: of the larger boards a word each, of the Saturn a block.
ByWord(b, c) == WordByWord(b, c, "parameters", 0, 2)
XmapReadDspparams(b, c) == ByWord(b, c)
MercuryReadDspparams(b, c) == ByWord(b, c)
StjReadDspparams(b, c) == ByWord(b, c)
SaturnReadDspparams(b, c) ==
    Reading(b, LAMBDA l : [i \in 1..2 |-> WordAt(l, c, "parameters", i - 1)])

\* Of a microDXP, a command for each 32.
UdxpReadDspparams(b, c) == ByWord(b, c)

\* The length of a spectrum: MCALIMLO and MCALIMHI.
Length(b, c) == b.par[c]["MCALIMHI"] - b.par[c]["MCALIMLO"]
XmapGetSpectrumLength(b) == Then(XmapReadDspsymbol(b), XmapReadDspsymbol)
MercuryGetSpectrumLength(b) == Then(MercuryReadDspsymbol(b), MercuryReadDspsymbol)
StjGetSpectrumLength(b) == Then(StjReadDspsymbol(b), StjReadDspsymbol)
SaturnGetSpectrumLength(b) == Then(SaturnReadDspsymbol(b), SaturnReadDspsymbol)

\* That of a baseline histogram: BASELEN.
XmapDxpGetBaselineLength(b) == XmapReadDspsymbol(b)
MercuryDxpGetBaselineLength(b) == MercuryReadDspsymbol(b)
SaturnDxpGetBaselineLength(b) == SaturnReadDspsymbol(b)

-----------------------------------------------------------------------------
(* The drivers: memory. *)

\* dxp__burst_read_block: at one instant; then the arbiter is given back.
XmapBurstReadBlock(b, a, len) ==
    IF a > MaxAddr THEN Refused(b)
    ELSE Then(Reading(b, LAMBDA l : [i \in 1..len |-> MemoryWord(l, a + i - 1)]), Looking)
StjBurstReadBlock(b, a, len) ==
    IF a > MaxAddr THEN Refused(b)
    ELSE Then(Reading(b, LAMBDA l : [i \in 1..len |-> MemoryWord(l, a + i - 1)]), Looking)

\* dxp__read_block of the Mercury: the address, then all words at once.
MercuryReadBlock(b, c, memory, a, len) ==
    Then(Looking(b), LAMBDA l :
         Reading(l, LAMBDA p : [i \in 1..len |-> WordAt(p, c, memory, a + i - 1)]))

\* dxp__read_block of the others: the address, then word by word.
XmapReadBlock(b, c, memory, a, len) ==
    Then(Looking(b), LAMBDA l : WordByWord(l, c, memory, a, len))
StjReadBlock(b, c, memory, a, len) ==
    Then(Looking(b), LAMBDA l : WordByWord(l, c, memory, a, len))

\* dxp_read_block of the Saturn: the address register, then one transfer.
SaturnReadBlock(b, c, memory, a, len) ==
    Then(Looking(b), LAMBDA l :
         Reading(l, LAMBDA p : [i \in 1..len |-> WordAt(p, c, memory, a + i - 1)]))

\* dxp__get_mca_chan_addr: behind the channels below, whose lengths are read,
\* and which must fill whole blocks.
Below(b, c) == Ahead([j \in Chans(b) |-> Length(b, j)], c)
XmapGetMcaChanAddr(b, c) ==
    Then(InTurn(b, [j \in 1..(c - 1) |-> j], LAMBDA l, j : XmapGetSpectrumLength(l)), LAMBDA l :
         IF Below(b, c) % Block # 0 THEN Refused(l)
         ELSE Done([l EXCEPT !.value = Below(b, c) + Block]))
MercuryGetMcaChanAddr(b, c) ==
    Then(InTurn(b, [j \in 1..(c - 1) |-> j], LAMBDA l, j : MercuryGetSpectrumLength(l)), LAMBDA l :
         IF Below(b, c) % Block # 0 THEN Refused(l)
         ELSE Done([l EXCEPT !.value = Below(b, c) + Block]))
StjGetMcaChanAddr(b, c) ==
    Then(InTurn(b, [j \in 1..(c - 1) |-> j], LAMBDA l, j : StjGetSpectrumLength(l)), LAMBDA l :
         IF Below(b, c) % Block # 0 THEN Refused(l)
         ELSE Done([l EXCEPT !.value = Below(b, c) + StjStats]))

\* dxp_read_spectrum
XmapReadSpectrum(b, c) ==
    Then(XmapGetMcaChanAddr(b, c), LAMBDA l : Then(XmapGetSpectrumLength(l), LAMBDA a :
         IF Length(b, c) = 0 THEN Refused(a)
         ELSE XmapBurstReadBlock(a, a.value, Length(b, c))))
MercuryReadSpectrum(b, c) ==
    Then(MercuryGetMcaChanAddr(b, c), LAMBDA l : Then(MercuryGetSpectrumLength(l), LAMBDA a :
         IF Length(b, c) = 0 THEN Refused(a)
         ELSE MercuryReadBlock(a, c, "burst", a.value, Length(b, c))))
StjReadSpectrum(b, c) ==
    Then(StjGetMcaChanAddr(b, c), LAMBDA l : Then(StjGetSpectrumLength(l), LAMBDA a :
         IF Length(b, c) = 0 THEN Refused(a)
         ELSE StjBurstReadBlock(a, a.value, Length(b, c))))

\* dxp_read_baseline: BASESTART, which the Saturn knows, BASELEN, the block.
XmapReadBaseline(b, c) ==
    Then(XmapReadDspsymbol(b), LAMBDA l : Then(XmapReadDspsymbol(l), LAMBDA a :
         XmapReadBlock(a, c, "baseline", 0, BaseLen)))
MercuryReadBaseline(b, c) ==
    Then(MercuryReadDspsymbol(b), LAMBDA l : Then(MercuryReadDspsymbol(l), LAMBDA a :
         MercuryReadBlock(a, c, "baseline", 0, BaseLen)))
StjReadBaseline(b, c) ==
    Then(StjReadDspsymbol(b), LAMBDA l : Then(StjReadDspsymbol(l), LAMBDA a :
         StjReadBlock(a, c, "baseline", 0, BaseLen)))
SaturnReadBaseline(b, c) ==
    Then(SaturnDxpGetBaselineLength(b), LAMBDA l :
         SaturnReadBlock(l, c, "baseline", 0, BaseLen))

\* Memory by name; what is not read here is not a name.
XmapReadMem(b, name, a, len) == IF name = "burst" THEN XmapBurstReadBlock(b, a, len) ELSE Refused(b)
StjReadMem(b, name, a, len) == IF name = "burst" THEN StjBurstReadBlock(b, a, len) ELSE Refused(b)
MercuryReadMem(b, c, name, a, len) ==
    IF name = "burst" THEN MercuryReadBlock(b, c, "burst", a, len) ELSE Refused(b)

\* dxp_read_spectrum_memory, dxp_read_data_memory
SaturnReadSpectrumMemory(b, c, a, len) == SaturnReadBlock(b, c, "spectrum", a, len)
SaturnReadDataMemory(b, c, a, len) == SaturnReadBlock(b, c, "data", a, len)
SaturnReadMem(b, c, name, a, len) ==
    CASE name = "spectrum" -> SaturnReadSpectrumMemory(b, c, a, len)
      [] name = "data" -> SaturnReadDataMemory(b, c, a, len)
      [] name \notin {"spectrum", "data"} -> Refused(b)

\* dxp_usb_read_block: the address, one transfer, the bus reset.
UdxpUsbReadBlock(b, c, area, len) ==
    IF ~b.usb THEN Refused(b)
    ELSE Then(Looking(b), LAMBDA l :
         Then(Reading(l, LAMBDA p : [i \in 1..len |-> AreaWord(p, c, area, i - 1)]), Looking))
UdxpReadMem(b, c, area, len) == UdxpUsbReadBlock(b, c, area, len)

\* dxp_decode_error, dxp_clear_error: RUNERROR and ERRINFO.
SaturnDecodeError(b) == Then(Looking(b), Looking)
SaturnClearError(b) == Access(b, [b EXCEPT !.error = FALSE])

-----------------------------------------------------------------------------
(* Xerxes. *)

\* dxp_read_memory
DxpReadMemory(b, c, name, a, len) ==
    CASE b.product = "xmap" -> XmapReadMem(b, name, a, len)
      [] b.product = "mercury" -> MercuryReadMem(b, c, name, a, len)
      [] b.product = "stj" -> StjReadMem(b, name, a, len)
      [] b.product = "saturn" -> SaturnReadMem(b, c, name, a, len)
      [] b.product = "udxp" -> UdxpReadMem(b, c, a, len)

ReadDspparams(b, c) ==
    CASE b.product = "xmap" -> XmapReadDspparams(b, c)
      [] b.product = "mercury" -> MercuryReadDspparams(b, c)
      [] b.product = "stj" -> StjReadDspparams(b, c)
      [] b.product = "saturn" -> SaturnReadDspparams(b, c)
      [] b.product = "udxp" -> UdxpReadDspparams(b, c)
ReadSpectrum(b, c) ==
    CASE b.product = "xmap" -> XmapReadSpectrum(b, c)
      [] b.product = "mercury" -> MercuryReadSpectrum(b, c)
      [] b.product = "stj" -> StjReadSpectrum(b, c)
ReadBaseline(b, c) ==
    CASE b.product = "xmap" -> XmapReadBaseline(b, c)
      [] b.product = "mercury" -> MercuryReadBaseline(b, c)
      [] b.product = "stj" -> StjReadBaseline(b, c)
      [] b.product = "saturn" -> SaturnReadBaseline(b, c)
GetSpectrumLength(b) ==
    CASE b.product = "xmap" -> XmapGetSpectrumLength(b)
      [] b.product = "mercury" -> MercuryGetSpectrumLength(b)
      [] b.product = "stj" -> StjGetSpectrumLength(b)
      [] b.product = "saturn" -> SaturnGetSpectrumLength(b)
GetBaselineLength(b) ==
    CASE b.product = "xmap" -> XmapDxpGetBaselineLength(b)
      [] b.product = "mercury" -> MercuryDxpGetBaselineLength(b)
      [] b.product = "saturn" -> SaturnDxpGetBaselineLength(b)

\* Of the larger boards, no error is looked for.
DecodeError(b) == IF b.product = "saturn" THEN SaturnDecodeError(b) ELSE Done(b)

\* Mutant: the error is cleared, and the data delivered.
MutDoReadout(b, c, what) ==
    Then(IF what = "params" THEN ReadDspparams(b, c) ELSE Done(b), LAMBDA p :
    Then(DecodeError(p), LAMBDA l :
    Then(IF l.error THEN SaturnClearError(l) ELSE Done(l), LAMBDA a :
         CASE what = "params" -> Done(a)
           [] what = "spectrum" -> ReadSpectrum(a, c)
           [] what = "baseline" -> ReadBaseline(a, c))))

\* dxp_do_readout: an error of the run is cleared, and reported, once.
DxpDoReadout(b, c, what) ==
    Then(IF what = "params" THEN ReadDspparams(b, c) ELSE Done(b), LAMBDA p :
    Then(DecodeError(p), LAMBDA l :
         IF l.error THEN Then(SaturnClearError(l), Refused)
         ELSE CASE what = "params" -> Done(l)
                [] what = "spectrum" -> ReadSpectrum(l, c)
                [] what = "baseline" -> ReadBaseline(l, c)))

\* dxp_nspec, dxp_nbase: one number.
DxpNspec(b, c) == Then(GetSpectrumLength(b), LAMBDA l : Number(l, Length(l, c)))
DxpNbase(b) == Then(GetBaselineLength(b), LAMBDA l : Number(l, BaseLen))

\* dxp_isrunning
DxpIsrunning(b) ==
    Then(Looking(b), LAMBDA l : Number(l, IF l.running THEN 1 ELSE 0))
=============================================================================
