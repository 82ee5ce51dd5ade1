---------------------------- MODULE ModuleRunData ----------------------------
(***************************************************************************)
(* What the PSLs of the xMAP, the Mercury and the STJ deliver of a run.    *)
(* Counters come from one block of statistics that holds those of all the  *)
(* channels; the spectra lie behind it, one after the other; the sizes of  *)
(* mapping buffers are computed from the defaults.                         *)
(***************************************************************************)
EXTENDS RunMemory

\* The numbers F makes of each of m channels, one channel after the other.
OfChannels(m, width, F(_)) ==
    [i \in 1..(m * width) |-> F(1 + ((i - 1) \div width))[1 + ((i - 1) % width)]]

-----------------------------------------------------------------------------
(* xMAP: the counters. *)

\* XMAP_STATS_CHAN_OFFSET
XmapStatsOffset(c) == c - 1

XmapGetStatisticsBlock(b, c) == DxpReadMemory(b, c, "burst", 0, Block)

XmapExtractRealtime(b, c) == Entry(b, XmapStatsOffset(c), "realtime")
XmapExtractTLivetime(b, c) == Entry(b, XmapStatsOffset(c), "trigger_livetime")
XmapExtractELivetime(b, c) == Entry(b, XmapStatsOffset(c), "energy_livetime")
XmapExtractTriggers(b, c) == Entry(b, XmapStatsOffset(c), "triggers")
XmapExtractEvents(b, c) == Entry(b, XmapStatsOffset(c), "events")
XmapExtractUnderflows(b, c) == Entry(b, XmapStatsOffset(c), "underflows")
XmapExtractOverflows(b, c) == Entry(b, XmapStatsOffset(c), "overflows")

XmapGetRealtime(b, c) ==
    One(XmapGetStatisticsBlock(b, c), LAMBDA l : XmapExtractRealtime(l, c))
XmapGetTLivetime(b, c) ==
    One(XmapGetStatisticsBlock(b, c), LAMBDA l : XmapExtractTLivetime(l, c))
XmapGetELivetime(b, c) ==
    One(XmapGetStatisticsBlock(b, c), LAMBDA l : XmapExtractELivetime(l, c))
XmapGetTriggers(b, c) ==
    One(XmapGetStatisticsBlock(b, c), LAMBDA l : XmapExtractTriggers(l, c))
XmapGetMCAEvents(b, c) ==
    One(XmapGetStatisticsBlock(b, c), LAMBDA l : XmapExtractEvents(l, c))
XmapGetUnderflows(b, c) ==
    One(XmapGetStatisticsBlock(b, c), LAMBDA l : XmapExtractUnderflows(l, c))
XmapGetOverflows(b, c) ==
    One(XmapGetStatisticsBlock(b, c), LAMBDA l : XmapExtractOverflows(l, c))
XmapGetTotalEvents(b, c) ==
    One(XmapGetStatisticsBlock(b, c), LAMBDA l :
        XmapExtractEvents(l, c) \cup XmapExtractUnderflows(l, c) \cup XmapExtractOverflows(l, c))

\* Mutant: the counters of a rate are read one after the other.
MutGetICR(b, c) ==
    Then(XmapGetStatisticsBlock(b, c), LAMBDA l :
         One(XmapGetStatisticsBlock(l, c), LAMBDA a :
             XmapExtractTriggers(l, c) \cup XmapExtractTLivetime(a, c)))

\* psl__GetICR, psl__GetOCR: two counters, or four, of one block.
XmapGetICR(b, c) ==
    One(XmapGetStatisticsBlock(b, c), LAMBDA l :
        XmapExtractTriggers(l, c) \cup XmapExtractTLivetime(l, c))
XmapGetOCR(b, c) ==
    One(XmapGetStatisticsBlock(b, c), LAMBDA l :
        XmapExtractEvents(l, c) \cup XmapExtractUnderflows(l, c)
          \cup XmapExtractOverflows(l, c) \cup XmapExtractRealtime(l, c))

\* Of the four channels, and of number_of_channels.
XmapGetModuleStatistics(b, c) ==
    Then(XmapGetStatisticsBlock(b, c), LAMBDA l :
         Answer(l, OfChannels(b.n, 7, LAMBDA j :
             Seven(XmapExtractRealtime(l, j), XmapExtractTLivetime(l, j),
                   XmapExtractELivetime(l, j), XmapExtractTriggers(l, j),
                   XmapExtractEvents(l, j), XmapExtractUnderflows(l, j),
                   XmapExtractOverflows(l, j)))))
XmapGetModuleStatistics2(b, c) ==
    Then(XmapGetStatisticsBlock(b, c), LAMBDA l :
         Answer(l, OfChannels(b.n, 9, LAMBDA j :
             Nine(XmapExtractRealtime(l, j), XmapExtractTLivetime(l, j),
                  XmapExtractELivetime(l, j), XmapExtractTriggers(l, j),
                  XmapExtractEvents(l, j), XmapExtractUnderflows(l, j),
                  XmapExtractOverflows(l, j)))))

-----------------------------------------------------------------------------
(* xMAP: spectra, baselines and SCAs. *)

XmapGetMCALength(b, c) == DxpNspec(b, c)
XmapGetMCA(b, c) == Delivered(DxpDoReadout(b, c, "spectrum"))
XmapGetBaselineLength(b) == DxpNbase(b)
XmapGetBaseline(b, c) == Delivered(DxpDoReadout(b, c, "baseline"))
XmapGetParamValues(b, c) == Delivered(DxpDoReadout(b, c, "params"))
XmapGetRunActive(b) == DxpIsrunning(b)

\* All spectra at once, as long as the defaults of this channel say.
XmapGetModuleMCA(b, c) ==
    Delivered(DxpReadMemory(b, c, "burst", Block, b.val[c]["number_mca_channels"] * b.n))

\* Two words for each SCA; without any there is no answer.
XmapGetMaxSCALength(b) == Number(b, MaxScas)
XmapGetSCALength(b, c) == Number(b, b.val[c]["number_of_scas"])
XmapGetSCAData(b, c) ==
    IF b.val[c]["number_of_scas"] = 0 THEN Refused(b)
    ELSE Pairs(Then(Parameter(b), LAMBDA l :
                    DxpReadMemory(l, c, "burst", ScaMemBase + ((c - 1) * ScaOffset),
                                  2 * b.val[c]["number_of_scas"])))

-----------------------------------------------------------------------------
(* xMAP: the sizes of mapping buffers. *)

\* psl__IsMapping: the VAR register, then MAPPINGMODE.
XmapIsMapping(b, modes) ==
    Then(Looking(b), LAMBDA l :
         IF l.mode = "none" THEN Refused(l)
         ELSE Then(Parameter(l), LAMBDA a : IF a.mode \in modes THEN Done(a) ELSE Refused(a)))

\* A pixel: a header, and the data of the four channels, in the length of this
\* one's.
XmapGetMCAPixelBlockSize(b, c) == (b.n * b.val[c]["number_mca_channels"]) + Block
XmapGetSCAPixelBlockSize(b) ==
    ScaHeader + Ahead([j \in Chans(b) |-> 2 * b.scas[j]], b.n + 1)

\* A buffer: a header, and PIXPERBUF pixels.
XmapGetBufferLen(b, c) ==
    Then(XmapIsMapping(b, {"mca", "sca"}), LAMBDA l :
    Then(Parameter(l), LAMBDA a :
    Then(Parameter(a), LAMBDA e :
         Number(e, Block + (e.pixels * (IF e.mode = "mca" THEN XmapGetMCAPixelBlockSize(e, c)
                                        ELSE XmapGetSCAPixelBlockSize(e)))))))

\* The length of a list buffer: a low word, then a high word.
ListWord(l, c, buf, i) == Cell(l, c, buf, i)
XmapGetListBufferLen(b, c, buf) ==
    Then(XmapIsMapping(b, {"list"}), LAMBDA l :
    Then(ReadingOne([l EXCEPT !.words = <<>>], LAMBDA p : ListWord(p, c, buf, 0)), LAMBDA low :
    Then(ReadingOne(low, LAMBDA p : ListWord(p, c, buf, 1)), LAMBDA high :
         Answer(high, <<{high.words[1], high.words[2]}>>) \cup Refused(high))))
XmapGetListBufferLenA(b, c) == XmapGetListBufferLen(b, c, "list_buffer_len_a")
XmapGetListBufferLenB(b, c) == XmapGetListBufferLen(b, c, "list_buffer_len_b")

\* The table runData; the mapping buffers themselves are in MappingBuffers.
XmapGetRunData(b, c, n) ==
    CASE n = "realtime" -> XmapGetRealtime(b, c)
      [] n = "trigger_livetime" -> XmapGetTLivetime(b, c)
      [] n = "energy_livetime" -> XmapGetELivetime(b, c)
      [] n = "triggers" -> XmapGetTriggers(b, c)
      [] n = "mca_events" -> XmapGetMCAEvents(b, c)
      [] n = "underflows" -> XmapGetUnderflows(b, c)
      [] n = "overflows" -> XmapGetOverflows(b, c)
      [] n = "total_output_events" -> XmapGetTotalEvents(b, c)
      [] n = "input_count_rate" -> XmapGetICR(b, c)
      [] n = "output_count_rate" -> XmapGetOCR(b, c)
      [] n = "module_statistics" -> XmapGetModuleStatistics(b, c)
      [] n = "module_statistics_2" -> XmapGetModuleStatistics2(b, c)
      [] n = "mca_length" -> XmapGetMCALength(b, c)
      [] n = "mca" -> XmapGetMCA(b, c)
      [] n = "module_mca" -> XmapGetModuleMCA(b, c)
      [] n = "baseline_length" -> XmapGetBaselineLength(b)
      [] n = "baseline" -> XmapGetBaseline(b, c)
      [] n = "run_active" -> XmapGetRunActive(b)
      [] n = "max_sca_length" -> XmapGetMaxSCALength(b)
      [] n = "sca_length" -> XmapGetSCALength(b, c)
      [] n = "sca" -> XmapGetSCAData(b, c)
      [] n = "buffer_len" -> XmapGetBufferLen(b, c)
      [] n = "list_buffer_len_a" -> XmapGetListBufferLenA(b, c)
      [] n = "list_buffer_len_b" -> XmapGetListBufferLenB(b, c)
      [] n = "unknown" -> Refused(b)

-----------------------------------------------------------------------------
(* Mercury: the same of number_of_channels; its mode is a bit of VAR, and    *)
(* its pixels are always those of spectra.                                   *)

\* MERCURY_STATS_CHAN_OFFSET
MercuryStatsOffset(c) == c - 1

MercuryGetStatisticsBlock(b, c) == DxpReadMemory(b, c, "burst", 0, Block)

MercuryExtractRealtime(b, c) == Entry(b, MercuryStatsOffset(c), "realtime")
MercuryExtractTLivetime(b, c) == Entry(b, MercuryStatsOffset(c), "trigger_livetime")
MercuryExtractELivetime(b, c) == Entry(b, MercuryStatsOffset(c), "energy_livetime")
MercuryExtractTriggers(b, c) == Entry(b, MercuryStatsOffset(c), "triggers")
MercuryExtractEvents(b, c) == Entry(b, MercuryStatsOffset(c), "events")
MercuryExtractUnderflows(b, c) == Entry(b, MercuryStatsOffset(c), "underflows")
MercuryExtractOverflows(b, c) == Entry(b, MercuryStatsOffset(c), "overflows")

MercuryGetRealtime(b, c) ==
    One(MercuryGetStatisticsBlock(b, c), LAMBDA l : MercuryExtractRealtime(l, c))
MercuryGetTLivetime(b, c) ==
    One(MercuryGetStatisticsBlock(b, c), LAMBDA l : MercuryExtractTLivetime(l, c))
MercuryGetELivetime(b, c) ==
    One(MercuryGetStatisticsBlock(b, c), LAMBDA l : MercuryExtractELivetime(l, c))
MercuryGetTriggers(b, c) ==
    One(MercuryGetStatisticsBlock(b, c), LAMBDA l : MercuryExtractTriggers(l, c))
MercuryGetMCAEvents(b, c) ==
    One(MercuryGetStatisticsBlock(b, c), LAMBDA l : MercuryExtractEvents(l, c))
MercuryGetUnderflows(b, c) ==
    One(MercuryGetStatisticsBlock(b, c), LAMBDA l : MercuryExtractUnderflows(l, c))
MercuryGetOverflows(b, c) ==
    One(MercuryGetStatisticsBlock(b, c), LAMBDA l : MercuryExtractOverflows(l, c))
MercuryGetTotalEvents(b, c) ==
    One(MercuryGetStatisticsBlock(b, c), LAMBDA l :
        MercuryExtractEvents(l, c) \cup MercuryExtractUnderflows(l, c)
          \cup MercuryExtractOverflows(l, c))
MercuryGetICR(b, c) ==
    One(MercuryGetStatisticsBlock(b, c), LAMBDA l :
        MercuryExtractTriggers(l, c) \cup MercuryExtractTLivetime(l, c))
MercuryGetOCR(b, c) ==
    One(MercuryGetStatisticsBlock(b, c), LAMBDA l :
        MercuryExtractEvents(l, c) \cup MercuryExtractUnderflows(l, c)
          \cup MercuryExtractOverflows(l, c) \cup MercuryExtractRealtime(l, c))
MercuryGetModuleStatistics(b, c) ==
    Then(MercuryGetStatisticsBlock(b, c), LAMBDA l :
         Answer(l, OfChannels(b.n, 7, LAMBDA j :
             Seven(MercuryExtractRealtime(l, j), MercuryExtractTLivetime(l, j),
                   MercuryExtractELivetime(l, j), MercuryExtractTriggers(l, j),
                   MercuryExtractEvents(l, j), MercuryExtractUnderflows(l, j),
                   MercuryExtractOverflows(l, j)))))
MercuryGetModuleStatistics2(b, c) ==
    Then(MercuryGetStatisticsBlock(b, c), LAMBDA l :
         Answer(l, OfChannels(b.n, 9, LAMBDA j :
             Nine(MercuryExtractRealtime(l, j), MercuryExtractTLivetime(l, j),
                  MercuryExtractELivetime(l, j), MercuryExtractTriggers(l, j),
                  MercuryExtractEvents(l, j), MercuryExtractUnderflows(l, j),
                  MercuryExtractOverflows(l, j)))))

MercuryGetMCALength(b, c) == DxpNspec(b, c)
MercuryGetMCA(b, c) == Delivered(DxpDoReadout(b, c, "spectrum"))
MercuryGetBaselineLength(b) == DxpNbase(b)
MercuryGetBaseline(b, c) == Delivered(DxpDoReadout(b, c, "baseline"))
MercuryGetParamValues(b, c) == Delivered(DxpDoReadout(b, c, "params"))
MercuryGetRunActive(b) == DxpIsrunning(b)
MercuryGetModuleMCA(b, c) ==
    Delivered(DxpReadMemory(b, c, "burst", Block, b.val[c]["number_mca_channels"] * b.n))
MercuryGetMaxSCALength(b) == Number(b, MaxScas)
MercuryGetSCALength(b, c) == Number(b, b.val[c]["number_of_scas"])
MercuryGetSCAData(b, c) ==
    IF b.val[c]["number_of_scas"] = 0 THEN Refused(b)
    ELSE Pairs(Then(Parameter(b), LAMBDA l :
                    DxpReadMemory(l, c, "burst", ScaMemBase + ((c - 1) * ScaOffset),
                                  2 * b.val[c]["number_of_scas"])))

MercuryCheckBit(b) == Looking(b)
MercuryIsMapping(b, modes) ==
    Then(MercuryCheckBit(b), LAMBDA l :
         IF l.mode = "none" THEN Refused(l)
         ELSE Then(Parameter(l), LAMBDA a : IF a.mode \in modes THEN Done(a) ELSE Refused(a)))
MercuryGetMCAPixelBlockSize(b, c) == (b.n * b.val[c]["number_mca_channels"]) + Block
MercuryGetBufferLen(b, c) ==
    Then(MercuryIsMapping(b, {"mca", "sca"}), LAMBDA l :
    Then(Parameter(l), LAMBDA a :
    Then(Parameter(a), LAMBDA e : Number(e, Block + (e.pixels * MercuryGetMCAPixelBlockSize(e, c))))))
MercuryGetListBufferLen(b, c, buf) ==
    Then(MercuryIsMapping(b, {"list"}), LAMBDA l :
    Then(ReadingOne([l EXCEPT !.words = <<>>], LAMBDA p : ListWord(p, c, buf, 0)), LAMBDA low :
    Then(ReadingOne(low, LAMBDA p : ListWord(p, c, buf, 1)), LAMBDA high :
         Answer(high, <<{high.words[1], high.words[2]}>>) \cup Refused(high))))
MercuryGetListBufferLenA(b, c) == MercuryGetListBufferLen(b, c, "list_buffer_len_a")
MercuryGetListBufferLenB(b, c) == MercuryGetListBufferLen(b, c, "list_buffer_len_b")

MercuryGetRunData(b, c, n) ==
    CASE n = "realtime" -> MercuryGetRealtime(b, c)
      [] n = "trigger_livetime" -> MercuryGetTLivetime(b, c)
      [] n = "energy_livetime" -> MercuryGetELivetime(b, c)
      [] n = "triggers" -> MercuryGetTriggers(b, c)
      [] n = "mca_events" -> MercuryGetMCAEvents(b, c)
      [] n = "underflows" -> MercuryGetUnderflows(b, c)
      [] n = "overflows" -> MercuryGetOverflows(b, c)
      [] n = "total_output_events" -> MercuryGetTotalEvents(b, c)
      [] n = "input_count_rate" -> MercuryGetICR(b, c)
      [] n = "output_count_rate" -> MercuryGetOCR(b, c)
      [] n = "module_statistics" -> MercuryGetModuleStatistics(b, c)
      [] n = "module_statistics_2" -> MercuryGetModuleStatistics2(b, c)
      [] n = "mca_length" -> MercuryGetMCALength(b, c)
      [] n = "mca" -> MercuryGetMCA(b, c)
      [] n = "module_mca" -> MercuryGetModuleMCA(b, c)
      [] n = "baseline_length" -> MercuryGetBaselineLength(b)
      [] n = "baseline" -> MercuryGetBaseline(b, c)
      [] n = "run_active" -> MercuryGetRunActive(b)
      [] n = "max_sca_length" -> MercuryGetMaxSCALength(b)
      [] n = "sca_length" -> MercuryGetSCALength(b, c)
      [] n = "sca" -> MercuryGetSCAData(b, c)
      [] n = "buffer_len" -> MercuryGetBufferLen(b, c)
      [] n = "list_buffer_len_a" -> MercuryGetListBufferLenA(b, c)
      [] n = "list_buffer_len_b" -> MercuryGetListBufferLenB(b, c)
      [] n = "unknown" -> Refused(b)

-----------------------------------------------------------------------------
(* STJ: no SCAs, no baselines and no energy livetime.  It has a block of     *)
(* statistics of its own size, and its buffers are computed for four         *)
(* channels.                                                                 *)

\* STJ_STATS_CHAN_OFFSET times the channel.
StjStatsOffset(c) == c - 1

StjGetStatisticsBlock(b, c) == DxpReadMemory(b, c, "burst", 0, StjStats)

StjExtractRealtime(b, c) == Entry(b, StjStatsOffset(c), "realtime")
StjExtractTLivetime(b, c) == Entry(b, StjStatsOffset(c), "trigger_livetime")
StjExtractTriggers(b, c) == Entry(b, StjStatsOffset(c), "triggers")
StjExtractEvents(b, c) == Entry(b, StjStatsOffset(c), "events")
StjExtractUnderflows(b, c) == Entry(b, StjStatsOffset(c), "underflows")
StjExtractOverflows(b, c) == Entry(b, StjStatsOffset(c), "overflows")

\* A success, and nothing written: the caller keeps what its variable held.
StjExtractELivetime(b, c) == {}

StjGetRealtime(b, c) == One(StjGetStatisticsBlock(b, c), LAMBDA l : StjExtractRealtime(l, c))
StjGetTLivetime(b, c) == One(StjGetStatisticsBlock(b, c), LAMBDA l : StjExtractTLivetime(l, c))
StjGetELivetime(b, c) == One(StjGetStatisticsBlock(b, c), LAMBDA l : StjExtractELivetime(l, c))
StjGetTriggers(b, c) == One(StjGetStatisticsBlock(b, c), LAMBDA l : StjExtractTriggers(l, c))
StjGetMCAEvents(b, c) == One(StjGetStatisticsBlock(b, c), LAMBDA l : StjExtractEvents(l, c))
StjGetUnderflows(b, c) == One(StjGetStatisticsBlock(b, c), LAMBDA l : StjExtractUnderflows(l, c))
StjGetOverflows(b, c) == One(StjGetStatisticsBlock(b, c), LAMBDA l : StjExtractOverflows(l, c))
StjGetTotalEvents(b, c) ==
    One(StjGetStatisticsBlock(b, c), LAMBDA l :
        StjExtractEvents(l, c) \cup StjExtractUnderflows(l, c) \cup StjExtractOverflows(l, c))
StjGetICR(b, c) ==
    One(StjGetStatisticsBlock(b, c), LAMBDA l :
        StjExtractTriggers(l, c) \cup StjExtractTLivetime(l, c))
StjGetOCR(b, c) ==
    One(StjGetStatisticsBlock(b, c), LAMBDA l :
        StjExtractEvents(l, c) \cup StjExtractUnderflows(l, c)
          \cup StjExtractOverflows(l, c) \cup StjExtractRealtime(l, c))
StjGetModuleStatistics(b, c) ==
    Then(StjGetStatisticsBlock(b, c), LAMBDA l :
         Answer(l, OfChannels(b.n, 7, LAMBDA j :
             Seven(StjExtractRealtime(l, j), StjExtractTLivetime(l, j), StjExtractELivetime(l, j),
                   StjExtractTriggers(l, j), StjExtractEvents(l, j), StjExtractUnderflows(l, j),
                   StjExtractOverflows(l, j)))))
StjGetModuleStatistics2(b, c) ==
    Then(StjGetStatisticsBlock(b, c), LAMBDA l :
         Answer(l, OfChannels(b.n, 9, LAMBDA j :
             Nine(StjExtractRealtime(l, j), StjExtractTLivetime(l, j), StjExtractELivetime(l, j),
                  StjExtractTriggers(l, j), StjExtractEvents(l, j), StjExtractUnderflows(l, j),
                  StjExtractOverflows(l, j)))))

StjGetMCALength(b, c) == DxpNspec(b, c)
StjGetMCA(b, c) == Delivered(DxpDoReadout(b, c, "spectrum"))
StjGetParamValues(b, c) == Delivered(DxpDoReadout(b, c, "params"))
StjGetRunActive(b) == DxpIsrunning(b)
StjGetModuleMCA(b, c) ==
    Delivered(DxpReadMemory(b, c, "burst", StjStats, b.val[c]["number_mca_channels"] * b.n))

\* psl__IsMapping: MAPPINGMODE alone.
StjIsMapping(b, modes) ==
    Then(Parameter(b), LAMBDA l : IF l.mode \in modes THEN Done(l) ELSE Refused(l))
StjGetMCAPixelBlockSize(b, c) == (StjCounted * b.val[c]["number_mca_channels"]) + Block
StjGetSCAPixelBlockSize(b) ==
    ScaHeader + Ahead([j \in 1..StjCounted |-> 2 * b.scas[j]], StjCounted + 1)
StjGetBufferLen(b, c) ==
    Then(StjIsMapping(b, {"mca", "sca"}), LAMBDA l :
    Then(Parameter(l), LAMBDA a :
    Then(Parameter(a), LAMBDA e :
         Number(e, Block + (e.pixels * (IF e.mode = "mca" THEN StjGetMCAPixelBlockSize(e, c)
                                        ELSE StjGetSCAPixelBlockSize(e)))))))
StjGetListBufferLen(b, c, buf) ==
    Then(StjIsMapping(b, {"list"}), LAMBDA l :
    Then(ReadingOne([l EXCEPT !.words = <<>>], LAMBDA p : ListWord(p, c, buf, 0)), LAMBDA low :
    Then(ReadingOne(low, LAMBDA p : ListWord(p, c, buf, 1)), LAMBDA high :
         Answer(high, <<{high.words[1], high.words[2]}>>) \cup Refused(high))))
StjGetListBufferLenA(b, c) == StjGetListBufferLen(b, c, "list_buffer_len_a")
StjGetListBufferLenB(b, c) == StjGetListBufferLen(b, c, "list_buffer_len_b")

StjGetRunData(b, c, n) ==
    CASE n = "realtime" -> StjGetRealtime(b, c)
      [] n = "trigger_livetime" -> StjGetTLivetime(b, c)
      [] n = "energy_livetime" -> StjGetELivetime(b, c)
      [] n = "triggers" -> StjGetTriggers(b, c)
      [] n = "mca_events" -> StjGetMCAEvents(b, c)
      [] n = "underflows" -> StjGetUnderflows(b, c)
      [] n = "overflows" -> StjGetOverflows(b, c)
      [] n = "total_output_events" -> StjGetTotalEvents(b, c)
      [] n = "input_count_rate" -> StjGetICR(b, c)
      [] n = "output_count_rate" -> StjGetOCR(b, c)
      [] n = "module_statistics" -> StjGetModuleStatistics(b, c)
      [] n = "module_statistics_2" -> StjGetModuleStatistics2(b, c)
      [] n = "mca_length" -> StjGetMCALength(b, c)
      [] n = "mca" -> StjGetMCA(b, c)
      [] n = "module_mca" -> StjGetModuleMCA(b, c)
      [] n = "run_active" -> StjGetRunActive(b)
      [] n = "buffer_len" -> StjGetBufferLen(b, c)
      [] n = "list_buffer_len_a" -> StjGetListBufferLenA(b, c)
      [] n = "list_buffer_len_b" -> StjGetListBufferLenB(b, c)
      [] n = "unknown" -> Refused(b)
=============================================================================
