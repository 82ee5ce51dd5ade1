---------------------------- MODULE SaturnRunData ----------------------------
(***************************************************************************)
(* What the PSL of the Saturn delivers of a run.  Counters come from one   *)
(* copy of the DSP's parameters, times are in units of a clock that is     *)
(* asked for with each of them, and the spectrum is read from an address   *)
(* that was looked up when the DSP was loaded.                             *)
(***************************************************************************)
EXTENDS RunMemory

-----------------------------------------------------------------------------
(* Counters. *)

\* psl__GetDSPBlock: "data", 256 words from 0.
SaturnGetDSPBlock(b, c) == Then(DxpReadMemory(b, c, "data", 0, Block), LAMBDA l : Answer(l, <<>>))

\* pslGetClockSpeed: a speed that cannot be read is taken for the default, 20 MHz.
SaturnGetClockSpeed(b) ==
    LET read == {IF o.ok THEN [o EXCEPT !.m.speed = b.clock]
                 ELSE [ok |-> TRUE, m |-> [o.m EXCEPT !.speed = 20]] : o \in Parameter(b)}
    IN Then(read, LAMBDA l : IF l.speed \in {20, 40} THEN Done(l) ELSE Refused(l))

\* One more number.
Also(b, item) == Answer(b, Append(b.got, Entry(b, 0, item)))

\* A time; in the wrong unit it is not that time.
SaturnTime(b, item) ==
    Then(SaturnGetClockSpeed(b), LAMBDA l : Also(l, IF l.speed = l.clock THEN item ELSE "wrong_unit"))

SaturnExtractRealtime(b) == SaturnTime(b, "realtime")
SaturnExtractTLivetime(b) == SaturnTime(b, "trigger_livetime")
SaturnExtractELivetime(b) == SaturnTime(b, "energy_livetime")
SaturnExtractTriggers(b) == Also(b, "triggers")
SaturnExtractEvents(b) == Also(b, "events")
SaturnExtractUnders(b) == Also(b, "underflows")
SaturnExtractOvers(b) == Also(b, "overflows")

\* The numbers extracted, as one, and as they are.
Combined(outs) ==
    Then(outs, LAMBDA l : Answer(l, <<UNION {l.got[i] : i \in DOMAIN l.got}>>))

SaturnGetRealtime(b, c) == Then(SaturnGetDSPBlock(b, c), SaturnExtractRealtime)
SaturnGetLivetime(b, c) == Then(SaturnGetDSPBlock(b, c), SaturnExtractTLivetime)
SaturnGetELivetime(b, c) == Then(SaturnGetDSPBlock(b, c), SaturnExtractELivetime)
SaturnGetTriggers(b, c) == Then(SaturnGetDSPBlock(b, c), SaturnExtractTriggers)
SaturnGetMCAEvents(b, c) == Then(SaturnGetDSPBlock(b, c), SaturnExtractEvents)
SaturnGetUnderflows(b, c) == Then(SaturnGetDSPBlock(b, c), SaturnExtractUnders)
SaturnGetOverflows(b, c) == Then(SaturnGetDSPBlock(b, c), SaturnExtractOvers)

SaturnGetTotalEvents(b, c) ==
    Combined(Then(Then(Then(SaturnGetDSPBlock(b, c), SaturnExtractEvents),
                       SaturnExtractUnders), SaturnExtractOvers))
SaturnGetICR(b, c) ==
    Combined(Then(Then(SaturnGetDSPBlock(b, c), SaturnExtractTLivetime), SaturnExtractTriggers))
SaturnGetOCR(b, c) ==
    Combined(Then(Then(Then(Then(SaturnGetDSPBlock(b, c), SaturnExtractRealtime),
                            SaturnExtractEvents), SaturnExtractUnders), SaturnExtractOvers))

\* The seven that are extracted, in this order, for both arrays.
SaturnStatistics(b, c) ==
    Then(Then(Then(Then(Then(Then(Then(SaturnGetDSPBlock(b, c), SaturnExtractRealtime),
        SaturnExtractTLivetime), SaturnExtractELivetime), SaturnExtractTriggers),
        SaturnExtractEvents), SaturnExtractUnders), SaturnExtractOvers)
SaturnGetModuleStatistics(b, c) ==
    Then(SaturnStatistics(b, c), LAMBDA l :
         Answer(l, Seven(l.got[1], l.got[2], l.got[3], l.got[4], l.got[5], l.got[6], l.got[7])))
SaturnGetModuleStatistics2(b, c) ==
    Then(SaturnStatistics(b, c), LAMBDA l :
         Answer(l, Nine(l.got[1], l.got[2], l.got[3], l.got[4], l.got[5], l.got[6], l.got[7])))

-----------------------------------------------------------------------------
(* Spectrum, baseline, parameters and SCAs. *)

SaturnGetMCALength(b, c) == DxpNspec(b, c)

\* pslGetMCAData: from the address and with the length in the defaults.
SaturnGetMCAData(b, c) ==
    Delivered(DxpReadMemory(b, c, "spectrum", b.val[c]["mca_start_address"],
                            b.val[c]["number_mca_channels"]))

SaturnGetBaselineLength(b) == DxpNbase(b)
SaturnGetBaseline(b, c) ==
    Then(DxpNbase(b), LAMBDA l : Delivered(DxpDoReadout(l, c, "baseline")))
SaturnGetParamData(b, c) == Delivered(DxpDoReadout(b, c, "params"))
SaturnGetRunActive(b) == DxpIsrunning(b)

SaturnGetMaxSCALength(b) == Number(b, MaxScas)
SaturnGetSCALength(b, c) == Number(b, b.val[c]["number_of_scas"])

\* Where SCADSTART cannot be read the code goes on with a variable nothing was
\* assigned to: any address.
SaturnGetSCAData(b, c) ==
    LET len == 2 * b.val[c]["number_of_scas"]
        Words(l, a) == Pairs(DxpReadMemory(l, c, "data", a, len))
    IN
    IF len = 0 THEN Refused(b)
    ELSE UNION {IF o.ok THEN Words(o.m, ScaMemBase)
                ELSE Words(o.m, 0) \cup Words(o.m, ScaMemBase) : o \in Parameter(b)}

\* The table RUN_DATA.
SaturnGetRunData(b, c, n) ==
    CASE n = "realtime" -> SaturnGetRealtime(b, c)
      [] n = "trigger_livetime" -> SaturnGetLivetime(b, c)
      [] n = "energy_livetime" -> SaturnGetELivetime(b, c)
      [] n = "triggers" -> SaturnGetTriggers(b, c)
      [] n = "mca_events" -> SaturnGetMCAEvents(b, c)
      [] n = "underflows" -> SaturnGetUnderflows(b, c)
      [] n = "overflows" -> SaturnGetOverflows(b, c)
      [] n = "total_output_events" -> SaturnGetTotalEvents(b, c)
      [] n = "input_count_rate" -> SaturnGetICR(b, c)
      [] n = "output_count_rate" -> SaturnGetOCR(b, c)
      [] n = "module_statistics" -> SaturnGetModuleStatistics(b, c)
      [] n = "module_statistics_2" -> SaturnGetModuleStatistics2(b, c)
      [] n = "mca_length" -> SaturnGetMCALength(b, c)
      [] n = "mca" -> SaturnGetMCAData(b, c)
      [] n = "baseline_length" -> SaturnGetBaselineLength(b)
      [] n = "baseline" -> SaturnGetBaseline(b, c)
      [] n = "run_active" -> SaturnGetRunActive(b)
      [] n = "max_sca_length" -> SaturnGetMaxSCALength(b)
      [] n = "sca_length" -> SaturnGetSCALength(b, c)
      [] n = "sca" -> SaturnGetSCAData(b, c)
      [] n = "unknown" -> Refused(b)

-----------------------------------------------------------------------------
(* Another firmware. *)

\* psl__UpdateMCAAddressCache
SaturnUpdateMCAAddressCache(b, c) ==
    Then(Parameter(b), LAMBDA l :
         Done(PslSetDefault(l, c, "mca_start_address", l.par[c]["SPECTSTART"])))

\* dxp_replace_dspconfig: a DSP has its parameters, and its own place for the
\* spectrum; loading may fail when it is done.
FreshParams(d) == [MCALIMLO |-> 0, MCALIMHI |-> MaxBins, SPECTSTART |-> d]
DxpReplaceDspconfig(b, c, d) ==
    LET loaded == [b EXCEPT !.par[c] = FreshParams(d), !.error = FALSE, !.running = FALSE] IN
    Access(b, loaded) \cup Faulty(loaded)

\* dxp_replace_fpgaconfig: the FiPPI; what is modelled here stays.
DxpReplaceFpgaconfig(b) == Access(b, [b EXCEPT !.running = FALSE])

\* Mutant: the address is not looked up again.
MutDownloadFirmware(b, c, type, f) ==
    CASE type \in {"user_fippi", "mmu"} -> Refused(b)
      [] type = "dsp" ->
             IF b.dsp = f THEN Done(b)
             ELSE Then(DxpReplaceDspconfig(b, c, f), LAMBDA l : Done([l EXCEPT !.dsp = f]))
      [] type = "fippi" ->
             IF b.fippi = f THEN Done(b)
             ELSE Then(DxpReplaceFpgaconfig(b), LAMBDA l : Done([l EXCEPT !.fippi = f]))
      [] type = "unknown" -> Refused(b)

\* pslDownloadFirmware: nothing when it is the current one; a DSP is the current
\* one before its address is looked up.
SaturnDownloadFirmware(b, c, type, f) ==
    CASE type \in {"user_fippi", "mmu"} -> Refused(b)
      [] type = "dsp" ->
             IF b.dsp = f THEN Done(b)
             ELSE Then(DxpReplaceDspconfig(b, c, f), LAMBDA l :
                       SaturnUpdateMCAAddressCache([l EXCEPT !.dsp = f], c))
      [] type = "fippi" ->
             IF b.fippi = f THEN Done(b)
             ELSE Then(DxpReplaceFpgaconfig(b), LAMBDA l : Done([l EXCEPT !.fippi = f]))
      [] type = "unknown" -> Refused(b)
=============================================================================
