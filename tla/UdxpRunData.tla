----------------------------- MODULE UdxpRunData -----------------------------
(***************************************************************************)
(* What the PSL of the microDXP delivers of a run.  One command, or one    *)
(* read of its memory over USB, gives all the statistics.  A snapshot is a *)
(* copy of spectrum, statistics and SCAs that the board takes at once; a   *)
(* Vega serves its gated data from the same memory.                        *)
(***************************************************************************)
EXTENDS RunMemory

\* What the code revision of the DSP can do; the host knows it.
UdxpGetBoardFeatures(b, f) == f \in b.features

\* An area of memory by a command, or over USB.
UdxpCmd(b, c, area, len) == Reading(b, LAMBDA l : [i \in 1..len |-> AreaWord(l, c, area, i - 1)])
UdxpReadDirectUsbMemory(b, c, area, len) == DxpReadMemory(b, c, "direct", area, len)

-----------------------------------------------------------------------------
(* Lengths. *)

\* pslGetAcquisitionValues: an entry the board was not asked for is read.
UdxpGetAcquisitionValues(b, c, n, outs) ==
    IF n \in b.known THEN Done([b EXCEPT !.value = b.val[c][n]])
    ELSE Then(outs, LAMBDA l :
              Done([l EXCEPT !.val[c][n] = l.value, !.known = @ \cup {n}]))

\* A parameter, as the value.
UdxpGetParameter(b, c, p) ==
    Then(Parameter(b), LAMBDA l : Done([l EXCEPT !.value = b.par[c][p]]))

UdxpGetNumMCA(b, c) == UdxpGetParameter(b, c, "MCALEN")

\* MAX_NUM_INTERNAL_SCA_HI, or MAX_NUM_INTERNAL_SCA.
MostScas(b) == IF UdxpGetBoardFeatures(b, "updated_sca") THEN MaxScas ELSE MaxScas \div 4

\* A number beyond the limit is set back to it, or is not: the upper bytes the
\* number is compared with are never written (udxp_psl.c:7561, :8081).
UdxpGetNumScas(b, c) ==
    IF ~UdxpGetBoardFeatures(b, "sca") THEN Refused(b)
    ELSE Then(UdxpGetParameter(b, c, "NUMSCA"), LAMBDA l :
              IF l.value <= MostScas(l) THEN Done(l)
              ELSE Done(l) \cup
                   SetParameter([l EXCEPT !.value = MostScas(l)], c, "NUMSCA", MostScas(l)))

UdxpGetMCALength(b, c) ==
    Then(UdxpGetAcquisitionValues(b, c, "number_mca_channels", UdxpGetNumMCA(b, c)),
         LAMBDA l : Number(l, l.value))
UdxpGetSCALength(b, c) ==
    Then(UdxpGetAcquisitionValues(b, c, "number_of_scas", UdxpGetNumScas(b, c)),
         LAMBDA l : Number(l, l.value))
UdxpGetMaxSCALength(b) == Number(b, MostScas(b))
UdxpGetBaseHistogramLen(b) == Number(b, BaseLen)
UdxpGetSnapshotMcaLen(b, c) ==
    Then(UdxpGetParameter(b, c, "MCALEN"), LAMBDA l : Number(l, l.value))
UdxpGetSnapshotStatsLen(b) == Number(b, 9)
UdxpGetSnapshotScaLen(b, c) ==
    Then(UdxpGetAcquisitionValues(b, c, "number_of_scas", UdxpGetNumScas(b, c)),
         LAMBDA l : Number(l, l.value))

-----------------------------------------------------------------------------
(* Statistics. *)

\* pslConvertStatistics: only a supermicro counts under- and overflows, and the
\* energy livetime is what the two rates make of the run time.
UdxpConvertStatistics(b) ==
    LET E(item) == Entry(b, 0, item)
        unders == IF b.super THEN E("underflows") ELSE {}
        overs == IF b.super THEN E("overflows") ELSE {}
        ocr == E("events") \cup unders \cup overs \cup E("realtime")
        icr == E("triggers") \cup E("trigger_livetime")
    IN Nine(E("realtime"), E("trigger_livetime"), E("realtime") \cup ocr \cup icr,
            E("triggers"), E("events"), unders, overs)

UdxpGetModuleStatistics(b, c) ==
    Then(UdxpCmd(b, c, "stat", 1), LAMBDA l : Answer(l, UdxpConvertStatistics(l)))

\* Six, in an order of its own.
UdxpGetAllStatistics(b, c) ==
    Then(UdxpCmd(b, c, "stat", 1), LAMBDA l :
         LET E(item) == Entry(l, 0, item) IN
         Answer(l, <<E("trigger_livetime"), E("realtime"), E("triggers"), E("events"),
                     E("triggers") \cup E("trigger_livetime"), E("events") \cup E("realtime")>>))

\* One of the nine.
Picked(outs, i) == Then(outs, LAMBDA l : Answer(l, <<l.got[i]>>))
UdxpGetRuntime(b, c) == Picked(UdxpGetModuleStatistics(b, c), 1)
UdxpGetLivetime(b, c) == Picked(UdxpGetModuleStatistics(b, c), 2)
UdxpGetELivetime(b, c) == Picked(UdxpGetModuleStatistics(b, c), 3)
UdxpGetTriggers(b, c) == Picked(UdxpGetModuleStatistics(b, c), 4)
UdxpGetEvents(b, c) == Picked(UdxpGetModuleStatistics(b, c), 5)
UdxpGetICR(b, c) == Picked(UdxpGetModuleStatistics(b, c), 6)
UdxpGetOCR(b, c) == Picked(UdxpGetModuleStatistics(b, c), 7)

\* CMD_STATUS
UdxpGetRunActive(b) == Then(Looking(b), LAMBDA l : Number(l, IF l.running THEN 1 ELSE 0))

-----------------------------------------------------------------------------
(* Spectrum, baseline, parameters and SCAs, as long as the defaults say. *)

UdxpGetMcaDirect(b, c, area) ==
    Delivered(UdxpReadDirectUsbMemory(b, c, area, b.val[c]["number_mca_channels"]))
UdxpGetMcaCmd(b, c, area) == Delivered(UdxpCmd(b, c, area, b.val[c]["number_mca_channels"]))
UdxpGetMCAData(b, c) ==
    IF b.usb /\ UdxpGetBoardFeatures(b, "direct_mca") THEN UdxpGetMcaDirect(b, c, "spectrum")
    ELSE UdxpGetMcaCmd(b, c, "spectrum")

UdxpGetBaseline(b, c) ==
    Delivered(Reading(b, LAMBDA l : [i \in 1..BaseLen |-> Cell(l, c, "baseline", i - 1)]))
UdxpGetParamValues(b, c) == Delivered(DxpDoReadout(b, c, "params"))

UdxpGetSCADataDirect(b, c, area) ==
    Pairs(UdxpReadDirectUsbMemory(b, c, area, 2 * b.val[c]["number_of_scas"]))
UdxpGetSCADataCmd(b, c, area) == Pairs(UdxpCmd(b, c, area, 2 * b.val[c]["number_of_scas"]))

\* Over USB the address is that of SCASTART.
UdxpGetSCAData(b, c) ==
    IF ~UdxpGetBoardFeatures(b, "updated_sca") THEN Refused(b)
    ELSE IF b.usb THEN Then(Parameter(b), LAMBDA l : UdxpGetSCADataDirect(l, c, "sca"))
    ELSE UdxpGetSCADataCmd(b, c, "sca")

-----------------------------------------------------------------------------
(* Snapshots. *)

\* psl__Snapshot: a command whose answer may be lost, and that may clear the
\* spectrum of the run.
UdxpSnapshot(b) ==
    IF ~UdxpGetBoardFeatures(b, "snapshot") THEN Refused(b)
    ELSE UNION {Access(l, [l EXCEPT !.snap = l.now]) \cup Faulty([l EXCEPT !.snap = l.now])
                  : l \in Later(b)}

\* Mutant: over USB the statistics of the run, not those of the snapshot.
MutGetSnapshotStats(b, c) ==
    IF ~UdxpGetBoardFeatures(b, "snapshot") THEN Refused(b)
    ELSE Then(IF b.usb THEN Then(Parameter(b), LAMBDA l : UdxpReadDirectUsbMemory(l, c, "stat", 1))
              ELSE UdxpCmd(b, c, "snapstat", 1),
              LAMBDA l : Answer(l, UdxpConvertStatistics(l)))

\* Over USB at SNAPSTATSTART.
UdxpGetSnapshotStats(b, c) ==
    IF ~UdxpGetBoardFeatures(b, "snapshot") THEN Refused(b)
    ELSE Then(IF b.usb
              THEN Then(Parameter(b), LAMBDA l : UdxpReadDirectUsbMemory(l, c, "snapstat", 1))
              ELSE UdxpCmd(b, c, "snapstat", 1),
              LAMBDA l : Answer(l, UdxpConvertStatistics(l)))

\* Over USB at SNAPSHOTSTART.
UdxpGetSnapshotMca(b, c) ==
    IF ~UdxpGetBoardFeatures(b, "snapshot") THEN Refused(b)
    ELSE IF b.usb THEN Then(Parameter(b), LAMBDA l : UdxpGetMcaDirect(l, c, "snapshot"))
    ELSE UdxpGetMcaCmd(b, c, "snapshot")

\* Over USB behind the SCAs of the run.
UdxpGetSnapshotSca(b, c) ==
    IF ~UdxpGetBoardFeatures(b, "snapshot_sca") THEN Refused(b)
    ELSE IF b.usb THEN Then(Parameter(b), LAMBDA l : UdxpGetSCADataDirect(l, c, "snapsca"))
    ELSE UdxpGetSCADataCmd(b, c, "snapsca")

\* In a Vega, the memory of the snapshot holds what its gate selects.
UdxpGetGatedStatistics(b, c) == IF b.vega THEN UdxpGetSnapshotStats(b, c) ELSE Refused(b)
UdxpGetGatedMCAData(b, c) == IF b.vega THEN UdxpGetSnapshotMca(b, c) ELSE Refused(b)
UdxpGetGatedRuntime(b, c) == Picked(UdxpGetGatedStatistics(b, c), 1)
UdxpGetGatedLivetime(b, c) == Picked(UdxpGetGatedStatistics(b, c), 2)
UdxpGetGatedTriggers(b, c) == Picked(UdxpGetGatedStatistics(b, c), 4)
UdxpGetGatedEvents(b, c) == Picked(UdxpGetGatedStatistics(b, c), 5)
UdxpGetGatedICR(b, c) == Picked(UdxpGetGatedStatistics(b, c), 6)
UdxpGetGatedOCR(b, c) == Picked(UdxpGetGatedStatistics(b, c), 7)

-----------------------------------------------------------------------------
\* The table RUN_DATA.
UdxpGetRunData(b, c, n) ==
    CASE n = "realtime" -> UdxpGetRuntime(b, c)
      [] n = "trigger_livetime" -> UdxpGetLivetime(b, c)
      [] n = "energy_livetime" -> UdxpGetELivetime(b, c)
      [] n = "triggers" -> UdxpGetTriggers(b, c)
      [] n \in {"mca_events", "total_output_events"} -> UdxpGetEvents(b, c)
      [] n = "input_count_rate" -> UdxpGetICR(b, c)
      [] n = "output_count_rate" -> UdxpGetOCR(b, c)
      [] n = "all_statistics" -> UdxpGetAllStatistics(b, c)
      [] n = "module_statistics_2" -> UdxpGetModuleStatistics(b, c)
      [] n = "mca_length" -> UdxpGetMCALength(b, c)
      [] n = "mca" -> UdxpGetMCAData(b, c)
      [] n = "baseline_length" -> UdxpGetBaseHistogramLen(b)
      [] n = "baseline" -> UdxpGetBaseline(b, c)
      [] n = "run_active" -> UdxpGetRunActive(b)
      [] n = "max_sca_length" -> UdxpGetMaxSCALength(b)
      [] n = "sca_length" -> UdxpGetSCALength(b, c)
      [] n = "sca" -> UdxpGetSCAData(b, c)
      [] n = "mca_gated" -> UdxpGetGatedMCAData(b, c)
      [] n = "module_statistics_gated" -> UdxpGetGatedStatistics(b, c)
      [] n = "realtime_gated" -> UdxpGetGatedRuntime(b, c)
      [] n = "livetime_gated" -> UdxpGetGatedLivetime(b, c)
      [] n = "triggers_gated" -> UdxpGetGatedTriggers(b, c)
      [] n = "events_in_run_gated" -> UdxpGetGatedEvents(b, c)
      [] n = "input_count_rate_gated" -> UdxpGetGatedICR(b, c)
      [] n = "output_count_rate_gated" -> UdxpGetGatedOCR(b, c)
      [] n = "unknown" -> Refused(b)

\* Those of xiaGetSpecialRunData.
UdxpGetSpecialRunData(b, c, n) ==
    CASE n = "snapshot_mca_length" -> UdxpGetSnapshotMcaLen(b, c)
      [] n = "snapshot_mca" -> UdxpGetSnapshotMca(b, c)
      [] n = "snapshot_statistics_length" -> UdxpGetSnapshotStatsLen(b)
      [] n = "snapshot_statistics" -> UdxpGetSnapshotStats(b, c)
      [] n = "snapshot_sca_length" -> UdxpGetSnapshotScaLen(b, c)
      [] n = "snapshot_sca" -> UdxpGetSnapshotSca(b, c)
      [] n = "unknown" -> Refused(b)
=============================================================================
